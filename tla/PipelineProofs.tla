---------------------------- MODULE PipelineProofs ----------------------------
(***************************************************************************)
(* What TLAPS proves of Pipeline, for any number of pushers and poppers,    *)
(* any ranges and any limits.  A pipeline uses the queue as WorkQueue       *)
(* allows it and never runs into the assertion of finish(); what is proved  *)
(* of WorkQueue therefore holds in it and is used here.                     *)
(***************************************************************************)
EXTENDS Pipeline, WorkQueueProofs

-----------------------------------------------------------------------------
(* The program. *)

ProgramTypeOK ==
  /\ pushed \in [Writers -> Nat]
  /\ results \in [Readers -> Seq(Items)]
  /\ quit \subseteq Readers
  /\ finished \in BOOLEAN

(* Each thread is in the method its loop calls; the queue is not finished   *)
(* while main has not called finish() or a pusher is still running.         *)
Program ==
  /\ \A t \in Threads :
       /\ pc[t] \in PushPoints => t \in Writers
       /\ pc[t] \in PopPoints => t \in Readers
       /\ pc[t] = "pop_notify" => item[t] \in Items
       /\ pc[t] \in FinishPoints => t = Main
       /\ pc[t] # "aborted"
  /\ ~finished => ~done /\ pc[Main] = "idle"
  /\ pc[Main] = "finish" => ~done
  /\ finished => \A w \in Writers : Exited(w)

(* The threads of a pipeline. *)
LEMMA Roles ==
  /\ Threads = Writers \cup Readers \cup {Main}
  /\ Main \notin Writers /\ Main \notin Readers
  /\ \A w \in Writers : w \notin Readers
BY RolesAssumption DEF Threads

(* A step of the pipeline is a step of the queue, or does not touch it. *)
LEMMA UsesQueueStep ==
  ASSUME ProgramTypeOK, Program, [PipelineNext]_pipelineVars
  PROVE  [Next]_vars
<1>1. Alive
  BY DEF Program, Alive, At
<1>2. ASSUME NEW w \in Writers, PusherLoop(w) PROVE Next
  <2>1. pushed[w] + 1 \in DOMAIN Share[w] /\ w \in Threads
    BY <1>2, Roles, ShareAssumption, LenProperties DEF PusherLoop, ProgramTypeOK
  <2> QED BY <1>1, <1>2, <2>1, ShareAssumption DEF PusherLoop, Next, Call
<1>3. ASSUME NEW r \in Readers, PopperLoop(r) PROVE Next
  BY <1>1, <1>3, Roles DEF PopperLoop, Next, Call
<1>4. CASE MainFinishes
  BY <1>1, <1>4, Roles DEF MainFinishes, Next, Call
<1>5. ASSUME NEW t \in Threads, QueueStep(t) \/ Woken(t) PROVE Next
  BY <1>1, <1>5 DEF QueueStep, Woken, Next
<1>6. CASE UNCHANGED pipelineVars
  BY <1>6 DEF pipelineVars
<1> QED BY <1>2, <1>3, <1>4, <1>5, <1>6 DEF PipelineNext

LEMMA ProgramTypeStep ==
  ASSUME TypeOK, ProgramTypeOK, Program, [PipelineNext]_pipelineVars
  PROVE  ProgramTypeOK'
<1> USE DEF ProgramTypeOK
<1>1. ASSUME NEW t \in Threads, QueueStep(t) PROVE ProgramTypeOK'
  <2>1. ASSUME pc[t] = "pop_notify"
        PROVE  t \in Readers /\ item[t] \in Items
    BY <1>1, <2>1 DEF Program, PopPoints
  <2>2. pc[t] = "pop" => t \in Readers
    BY DEF Program, PopPoints
  <2> QED BY <1>1, <2>1, <2>2, AppendProperties DEF QueueStep
<1>2. ASSUME NEW w \in Writers, PusherLoop(w) PROVE ProgramTypeOK'
  BY <1>2 DEF PusherLoop
<1>3. CASE (\E r \in Readers : PopperLoop(r)) \/ MainFinishes
  BY <1>3 DEF PopperLoop, MainFinishes
<1>4. CASE \/ \E t \in Threads : Woken(t)
           \/ UNCHANGED pipelineVars
  BY <1>4 DEF Woken, pipelineVars
<1> QED BY <1>1, <1>2, <1>3, <1>4 DEF PipelineNext

LEMMA ProgramStep ==
  ASSUME TypeOK, ProgramTypeOK, Program, [PipelineNext]_pipelineVars
  PROVE  Program'
<1> USE DEF TypeOK, ProgramTypeOK, Program, Exited
<1>1. ASSUME NEW t \in Threads, QueueStep(t) PROVE Program'
  <2> USE DEF GoesOn, Wakes, PushPoints, PopPoints, ResizePoints,
              FinishPoints, AwaitPoints
  <2>0. Step(t) /\ UNCHANGED <<pushed, finished>>
    BY <1>1 DEF QueueStep
  <2>1. ASSUME NEW u \in Threads
        PROVE  /\ pc'[u] \in PushPoints => u \in Writers
               /\ pc'[u] \in PopPoints => u \in Readers
               /\ pc'[u] = "pop_notify" => item'[u] \in Items
               /\ pc'[u] \in FinishPoints => u = Main
               /\ pc'[u] # "aborted"
               /\ pc'[u] = "finish" => pc[u] = "finish" /\ u # t
               /\ pc[u] = "idle" => pc'[u] = "idle"
    BY <2>0, StepMoves
  <2>2. done' # done => t = Main /\ pc[t] = "finish"
    BY <2>0, StepMoves
  <2>3. ~finished => ~done' /\ pc'[Main] = "idle"
    BY <2>1, <2>2, Roles
  <2>4. pc'[Main] = "finish" => ~done'
    BY <2>1, <2>2, Roles
  <2>5. finished => \A w \in Writers : pc'[w] = "idle"
    BY <2>1, Roles
  <2> QED BY <2>0, <2>1, <2>3, <2>4, <2>5
<1>2. ASSUME NEW w \in Writers, PusherLoop(w) PROVE Program'
  BY <1>2, Roles DEF PusherLoop, BeginPush, Goto, shared, PushPoints, PopPoints,
                     FinishPoints
<1>3. ASSUME NEW r \in Readers, PopperLoop(r) PROVE Program'
  BY <1>3, Roles DEF PopperLoop, BeginPop, Goto, shared, PushPoints, PopPoints,
                     FinishPoints
<1>4. CASE MainFinishes
  BY <1>4, Roles DEF MainFinishes, BeginFinish, Goto, shared, PushPoints,
                     PopPoints, FinishPoints
<1>5. ASSUME NEW t \in Threads, Woken(t) PROVE Program'
  BY <1>5, Roles DEF Woken, SpuriousWakeup, Goto, shared, PushPoints, PopPoints,
                     FinishPoints
<1>6. CASE UNCHANGED pipelineVars
  BY <1>6 DEF pipelineVars, vars
<1> QED BY <1>1, <1>2, <1>3, <1>4, <1>5, <1>6 DEF PipelineNext

-----------------------------------------------------------------------------
(* A pipeline is a behaviour of the queue. *)

(* What holds of the queue in every state, by the proofs of WorkQueue.      *)
QueueInv == TypeOK /\ FifoDelivery /\ VerdictInv /\ EmptyHanded /\ Drained

LEMMA QueueInvStep == QueueInv /\ [Next]_vars => QueueInv'
BY TypeStep, FifoStep, VerdictStep, EmptyHandedStep, DrainedStep DEF QueueInv

LEMMA InitQueueInv == Init => QueueInv
<1> SUFFICES ASSUME Init PROVE QueueInv
  OBVIOUS
<1>1. TypeOK
  BY TypeInit
<1>2. FifoDelivery /\ EmptyHanded /\ Drained
  BY DEF Init, FifoDelivery, EmptyHanded, Drained
<1>3. VerdictInv
  BY DEF Init, VerdictInv, PushVerdict, PushesInProgress, InAccepted, PushPoints
<1> QED BY <1>1, <1>2, <1>3 DEF QueueInv

LEMMA InitProgram == PipelineInit => ProgramTypeOK /\ Program
<1> SUFFICES ASSUME PipelineInit PROVE ProgramTypeOK /\ Program
  OBVIOUS
<1>1. <<>> \in Seq(Items)
  OBVIOUS
<1>2. ProgramTypeOK
  BY <1>1 DEF PipelineInit, ProgramTypeOK
<1>3. Main \in Threads
  BY Roles
<1>4. Program
  BY <1>3 DEF PipelineInit, Init, Program, PushPoints, PopPoints, FinishPoints
<1> QED BY <1>2, <1>4

(* The loops of the pipeline and its one finish() keep to the protocol of   *)
(* the queue: no call runs into the assertion of finish() (work_queue.h:110,*)
(* work_queue_test.cc:117-149), and every behaviour of a pipeline is one of *)
(* WorkQueue.                                                               *)
THEOREM PipelineUsesQueue == PipelineSpec => Spec /\ []Program
<1>1. PipelineInit => Init /\ QueueInv /\ ProgramTypeOK /\ Program
  BY InitQueueInv, InitProgram DEF PipelineInit
<1>2. ProgramTypeOK /\ Program /\ [PipelineNext]_pipelineVars => [Next]_vars
  BY UsesQueueStep
<1>3. QueueInv /\ ProgramTypeOK /\ Program /\ [PipelineNext]_pipelineVars
      => ProgramTypeOK' /\ Program'
  BY ProgramTypeStep, ProgramStep DEF QueueInv
<1> QED BY <1>1, <1>2, <1>3, QueueInvStep, PTL DEF PipelineSpec, Spec

-----------------------------------------------------------------------------
(* What the pushers push. *)

(* A pusher is pushing the item it has got to, nothing further is in the    *)
(* queue, and what is has come in the order of its range.                   *)
Feed(w) ==
  /\ pushed[w] <= Len(Share[w])
  /\ pc[w] \in PushPoints => pushed[w] > 0 /\ item[w] = Share[w][pushed[w]]
  /\ \A i \in DOMAIN Share[w] : InAccepted(Share[w][i]) => i <= pushed[w]
  /\ \A p, q \in DOMAIN accepted, m, n \in DOMAIN Share[w] :
       accepted[p] = Share[w][m] /\ accepted[q] = Share[w][n] /\ p < q => m < n

Feeding == \A w \in Writers : Feed(w)

(* A step that puts nothing into the queue. *)
LEMMA FeedQuiet ==
  ASSUME NEW w \in Writers, Feed(w), accepted' = accepted, pushed'[w] = pushed[w],
         pc'[w] \in PushPoints => pc[w] \in PushPoints /\ item'[w] = item[w]
  PROVE  Feed(w)'
BY DEF Feed, InAccepted

(* What an appended item adds to a sequence. *)
LEMMA Appended ==
  ASSUME NEW S, NEW s \in Seq(S), NEW x \in S
  PROVE  /\ Append(s, x) \in Seq(S)
         /\ Len(s) \in Nat
         /\ DOMAIN s = 1 .. Len(s)
         /\ DOMAIN Append(s, x) = 1 .. Len(s) + 1
         /\ \A i \in 1 .. Len(s) : Append(s, x)[i] = s[i]
         /\ Append(s, x)[Len(s) + 1] = x
BY AppendProperties, LenProperties

(* Positions of ranges are natural numbers. *)
LEMMA Shares ==
  ASSUME NEW w \in Writers
  PROVE  /\ Share[w] \in Seq(Items) /\ Len(Share[w]) \in Nat
         /\ DOMAIN Share[w] = 1 .. Len(Share[w])
BY ShareAssumption, LenProperties

LEMMA FeedEnqueue ==
  ASSUME TypeOK, VerdictInv, ProgramTypeOK, Feeding,
         NEW t \in Writers, PushEnqueue(t), pushed' = pushed, NEW w \in Writers
  PROVE  Feed(w)'
<1> DEFINE l == Len(accepted)
<1>0. t \in Threads /\ w \in Threads
  BY Roles
<1>1. /\ pc[t] = "push" /\ item[t] \in Items /\ ~InAccepted(item[t])
      /\ accepted' = Append(accepted, item[t])
      /\ pc'[w] \in PushPoints => pc[w] \in PushPoints
      /\ item' = item
  BY <1>0 DEF PushEnqueue, Goto, TypeOK, PushPoints, VerdictInv, PushesInProgress
<1>2. /\ l \in Nat /\ DOMAIN accepted = 1 .. l /\ DOMAIN accepted' = 1 .. l + 1
      /\ \A i \in 1 .. l : accepted'[i] = accepted[i]
      /\ accepted'[l + 1] = item[t]
  BY <1>1, Appended DEF TypeOK
<1>3. item[t] = Share[t][pushed[t]] /\ pushed[t] \in DOMAIN Share[t]
  BY <1>1, Shares DEF Feeding, Feed, PushPoints, ProgramTypeOK
<1>4. ASSUME NEW m \in DOMAIN Share[w], Share[w][m] = item[t]
      PROVE  w = t /\ m = pushed[t]
  BY <1>3, <1>4, ShareAssumption
<1> HIDE DEF l
<1>5. ASSUME NEW m \in DOMAIN Share[w], InAccepted(Share[w][m])'
      PROVE  m <= pushed'[w]
  <2>1. PICK p \in DOMAIN accepted' : accepted'[p] = Share[w][m]
    BY <1>5 DEF InAccepted
  <2>2. CASE p = l + 1
    BY <1>2, <1>4, <2>1, <2>2, Shares DEF ProgramTypeOK
  <2>3. CASE p \in 1 .. l
    BY <1>2, <2>1, <2>3 DEF InAccepted, Feeding, Feed
  <2> QED BY <1>2, <2>1, <2>2, <2>3
<1>6. ASSUME NEW p \in DOMAIN accepted', NEW q \in DOMAIN accepted',
             NEW m \in DOMAIN Share[w], NEW n \in DOMAIN Share[w],
             accepted'[p] = Share[w][m], accepted'[q] = Share[w][n], p < q
      PROVE  m < n
  <2>1. p \in 1 .. l /\ (q \in 1 .. l \/ q = l + 1)
    BY <1>2, <1>6
  <2>2. accepted[p] = Share[w][m] /\ InAccepted(Share[w][m])
    BY <1>2, <1>6, <2>1 DEF InAccepted
  <2>3. CASE q \in 1 .. l
    BY <1>2, <1>6, <2>1, <2>2, <2>3 DEF Feeding, Feed
  <2>4. CASE q = l + 1
    <3>1. w = t /\ n = pushed[t]
      BY <1>2, <1>4, <1>6, <2>4
    <3>2. m <= pushed[t] /\ m # n
      BY <1>1, <1>3, <2>2, <3>1 DEF Feeding, Feed
    <3> QED BY <3>1, <3>2, Shares
  <2> QED BY <2>1, <2>3, <2>4
<1> QED BY <1>1, <1>5, <1>6 DEF Feeding, Feed, InAccepted

LEMMA FeedStep ==
  ASSUME QueueInv, ProgramTypeOK, Program, Feeding, [PipelineNext]_pipelineVars
  PROVE  Feeding'
<1> SUFFICES ASSUME NEW w \in Writers PROVE Feed(w)'
  BY DEF Feeding
<1> USE DEF QueueInv
<1>0. Feed(w) /\ w \in Threads /\ w # Main
  BY Roles DEF Feeding
<1>1. ASSUME NEW t \in Threads, QueueStep(t) PROVE Feed(w)'
  <2>0. Step(t) /\ pushed' = pushed
    BY <1>1 DEF QueueStep
  <2>1. CASE PushEnqueue(t)
    <3>1. t \in Writers
      BY <2>1 DEF PushEnqueue, Goto, Program, PushPoints
    <3> QED BY <2>0, <2>1, <3>1, FeedEnqueue
  <2>2. CASE ~PushEnqueue(t)
    <3>1. accepted' = accepted
      BY <2>0, <2>2 DEF Step, shared, history, PushWait, PushRefused, PushThrow,
         LeavePush, PushNotify, PopWait, PopEnd, PopThrow, PopTake, PopNotify,
         Resize, ResizeNotify, FinishAssert, Finish, FinishNotifyReaders,
         FinishNotifyWriters, FinishNotifyWatchers, AwaitWait, AwaitReturn
    <3>2. pc'[w] \in PushPoints => pc[w] \in PushPoints /\ item'[w] = item[w]
      BY <1>0, <2>0, StepMoves DEF Wakes, GoesOn, PushPoints, PopPoints,
         ResizePoints, FinishPoints, AwaitPoints
    <3> QED BY <1>0, <2>0, <3>1, <3>2, FeedQuiet
  <2> QED BY <2>1, <2>2
<1>2. ASSUME NEW x \in Writers, PusherLoop(x) PROVE Feed(w)'
  <2>1. /\ accepted' = accepted
        /\ pushed[x] < Len(Share[x]) /\ pushed' = [pushed EXCEPT ![x] = @ + 1]
        /\ item' = [item EXCEPT ![x] = Share[x][pushed[x] + 1]]
        /\ pc' = [pc EXCEPT ![x] = "push"]
    BY <1>2 DEF PusherLoop, BeginPush, Goto
  <2>2. CASE x = w
    <3>1. pushed'[w] = pushed[w] + 1 /\ item'[w] = Share[w][pushed'[w]]
      BY <1>0, <2>1, <2>2 DEF TypeOK, ProgramTypeOK
    <3>2. pushed[w] \in Nat /\ pushed'[w] \in Nat /\ pushed'[w] <= Len(Share[w])
      BY <2>1, <2>2, <3>1, Shares DEF ProgramTypeOK
    <3>3. \A i \in DOMAIN Share[w] : InAccepted(Share[w][i])' => i <= pushed'[w]
      BY <1>0, <2>1, <3>1, <3>2, Shares DEF Feed, InAccepted
    <3> QED BY <1>0, <2>1, <3>1, <3>2, <3>3 DEF Feed
  <2>3. CASE x # w
    BY <1>0, <2>1, <2>3, FeedQuiet DEF TypeOK, ProgramTypeOK
  <2> QED BY <2>2, <2>3
<1>3. ASSUME NEW r \in Readers, PopperLoop(r) PROVE Feed(w)'
  BY <1>0, <1>3, FeedQuiet
  DEF PopperLoop, BeginPop, Goto, history, TypeOK, PushPoints
<1>4. CASE MainFinishes
  BY <1>0, <1>4, FeedQuiet DEF MainFinishes, BeginFinish, Goto, history, TypeOK
<1>5. ASSUME NEW t \in Threads, Woken(t) PROVE Feed(w)'
  BY <1>0, <1>5, FeedQuiet
  DEF Woken, SpuriousWakeup, Goto, history, TypeOK, PushPoints
<1>6. CASE UNCHANGED pipelineVars
  BY <1>0, <1>6, FeedQuiet DEF pipelineVars, vars
<1> QED BY <1>1, <1>2, <1>3, <1>4, <1>5, <1>6 DEF PipelineNext

-----------------------------------------------------------------------------
(* What the poppers get. *)

(* What popper r has stored, and the item it is about to store. *)
Stream(r) ==
  IF pc[r] = "pop_notify" THEN Append(results[r], item[r]) ELSE results[r]

Streams == [r \in Readers |-> Stream(r)]

(* The items of d are dealt out among the sequences S, each item to one     *)
(* sequence and each sequence in the order of d.                            *)
Dealt(d, S) ==
  /\ S \in [Readers -> Seq(Items)]
  /\ \A r \in Readers : \A k \in DOMAIN S[r] : \E p \in DOMAIN d : d[p] = S[r][k]
  /\ \A r \in Readers : \A i, j \in DOMAIN S[r], p, q \in DOMAIN d :
       d[p] = S[r][i] /\ d[q] = S[r][j] /\ i < j => p < q
  /\ \A p \in DOMAIN d : \E r \in Readers : \E k \in DOMAIN S[r] : S[r][k] = d[p]
  /\ \A r, u \in Readers : \A i \in DOMAIN S[r], j \in DOMAIN S[u] :
       S[r][i] = S[u][j] => r = u /\ i = j

(* An item that is new is dealt to popper t. *)
LEMMA Deal ==
  ASSUME NEW d \in Seq(Items), NEW S, Dealt(d, S), NEW t \in Readers,
         NEW x \in Items, \A p \in DOMAIN d : d[p] # x
  PROVE  Dealt(Append(d, x), [S EXCEPT ![t] = Append(S[t], x)])
<1> DEFINE e == Append(d, x)
           T == [S EXCEPT ![t] = Append(S[t], x)]
           l == Len(d)
           k == Len(S[t])
<1>1. S \in [Readers -> Seq(Items)]
  BY DEF Dealt
<1>2. /\ l \in Nat /\ DOMAIN d = 1 .. l /\ DOMAIN e = 1 .. l + 1
      /\ \A i \in 1 .. l : e[i] = d[i]
      /\ e[l + 1] = x
  BY Appended
<1>3. /\ k \in Nat /\ DOMAIN S[t] = 1 .. k /\ DOMAIN T[t] = 1 .. k + 1
      /\ \A i \in 1 .. k : T[t][i] = S[t][i]
      /\ T[t][k + 1] = x
  <2>1. S[t] \in Seq(Items) /\ T[t] = Append(S[t], x)
    BY <1>1
  <2> HIDE DEF T
  <2> QED BY <2>1, Appended
<1>4. /\ T \in [Readers -> Seq(Items)]
      /\ \A r \in Readers : r # t => T[r] = S[r]
  <2>1. Append(S[t], x) \in Seq(Items)
    BY <1>1, Appended
  <2> QED BY <1>1, <2>1
<1>5. \A r \in Readers : DOMAIN S[r] = 1 .. Len(S[r]) /\ Len(S[r]) \in Nat
  BY <1>1, LenProperties
<1> HIDE DEF e, T, l, k
<1>6. ASSUME NEW r \in Readers, NEW i \in DOMAIN T[r]
      PROVE  \/ i \in DOMAIN S[r] /\ T[r][i] = S[r][i] /\ T[r][i] # x
             \/ r = t /\ i = k + 1 /\ T[r][i] = x
  <2>1. ASSUME i \in DOMAIN S[r], T[r][i] = S[r][i] PROVE T[r][i] # x
    BY <2>1 DEF Dealt
  <2>2. CASE r = t
    <3>1. i \in 1 .. k \/ i = k + 1
      BY <1>3, <2>2
    <3> QED BY <1>3, <2>1, <2>2, <3>1
  <2>3. CASE r # t
    BY <1>4, <2>1, <2>3
  <2> QED BY <2>2, <2>3
<1>7. ASSUME NEW p \in DOMAIN e
      PROVE  \/ p \in DOMAIN d /\ p \in 1 .. l /\ e[p] = d[p] /\ e[p] # x
             \/ p = l + 1 /\ e[p] = x
  BY <1>2
<1>8. ASSUME NEW r \in Readers, NEW i \in DOMAIN T[r]
      PROVE  \E p \in DOMAIN e : e[p] = T[r][i]
  <2>1. CASE i \in DOMAIN S[r] /\ T[r][i] = S[r][i]
    <3>1. PICK p \in DOMAIN d : d[p] = S[r][i]
      BY <2>1 DEF Dealt
    <3> QED BY <1>2, <2>1, <3>1
  <2>2. CASE T[r][i] = x
    BY <1>2, <2>2
  <2> QED BY <1>6, <2>1, <2>2
<1>9. ASSUME NEW r \in Readers, NEW i \in DOMAIN T[r], NEW j \in DOMAIN T[r],
             NEW p \in DOMAIN e, NEW q \in DOMAIN e,
             e[p] = T[r][i], e[q] = T[r][j], i < j
      PROVE  p < q
  <2>1. i \in DOMAIN S[r] /\ T[r][i] = S[r][i] /\ T[r][i] # x
    <3>1. CASE r = t /\ i = k + 1
      <4>1. j \in 1 .. k + 1
        BY <1>3, <3>1
      <4> QED BY <1>3, <1>9, <3>1, <4>1
    <3> QED BY <1>6, <3>1
  <2>2. p \in DOMAIN d /\ p \in 1 .. l /\ d[p] = S[r][i]
    BY <1>7, <1>9, <2>1
  <2>3. CASE j \in DOMAIN S[r] /\ T[r][j] = S[r][j] /\ T[r][j] # x
    <3>1. q \in DOMAIN d /\ d[q] = S[r][j]
      BY <1>7, <1>9, <2>3
    <3> QED BY <1>9, <2>1, <2>2, <2>3, <3>1 DEF Dealt
  <2>4. CASE T[r][j] = x
    <3>1. q = l + 1
      BY <1>7, <1>9, <2>4
    <3> QED BY <1>2, <2>2, <3>1
  <2> QED BY <1>6, <2>3, <2>4
<1>10. ASSUME NEW p \in DOMAIN e
       PROVE  \E r \in Readers : \E i \in DOMAIN T[r] : T[r][i] = e[p]
  <2>1. CASE p \in DOMAIN d /\ e[p] = d[p]
    <3>1. PICK r \in Readers : \E i \in DOMAIN S[r] : S[r][i] = d[p]
      BY <2>1 DEF Dealt
    <3>2. PICK i \in DOMAIN S[r] : S[r][i] = d[p]
      BY <3>1
    <3>3. i \in DOMAIN T[r] /\ T[r][i] = S[r][i]
      <4>1. CASE r = t
        <5>1. i \in 1 .. k /\ i \in 1 .. k + 1
          BY <1>3, <3>2, <4>1
        <5> QED BY <1>3, <4>1, <5>1
      <4>2. CASE r # t
        BY <1>4, <3>2, <4>2
      <4> QED BY <4>1, <4>2
    <3> QED BY <2>1, <3>2, <3>3
  <2>2. CASE e[p] = x
    BY <1>3, <2>2
  <2> QED BY <1>7, <2>1, <2>2
<1>11. ASSUME NEW r \in Readers, NEW u \in Readers,
              NEW i \in DOMAIN T[r], NEW j \in DOMAIN T[u], T[r][i] = T[u][j]
       PROVE  r = u /\ i = j
  <2>1. CASE T[r][i] = x
    <3>1. r = t /\ i = k + 1
      BY <1>6, <2>1
    <3>2. u = t /\ j = k + 1
      BY <1>6, <1>11, <2>1
    <3> QED BY <3>1, <3>2
  <2>2. CASE T[r][i] # x
    <3>1. /\ i \in DOMAIN S[r] /\ T[r][i] = S[r][i]
          /\ j \in DOMAIN S[u] /\ T[u][j] = S[u][j]
      BY <1>6, <1>11, <2>2
    <3>2. S[r][i] = S[u][j]
      BY <1>11, <3>1
    <3>3. \A a, b \in Readers : \A m \in DOMAIN S[a], n \in DOMAIN S[b] :
            S[a][m] = S[b][n] => a = b /\ m = n
      BY DEF Dealt
    <3> QED BY <3>1, <3>2, <3>3
  <2> QED BY <2>1, <2>2
<1>12. Dealt(e, T)
  BY <1>4, <1>8, <1>9, <1>10, <1>11 DEF Dealt
<1> QED BY <1>12 DEF e, T

Dealing == Dealt(delivered, Streams)

LEMMA TakeOrNot ==
  ASSUME TypeOK, NEW t \in Threads, Step(t)
  PROVE  \/ PopTake(t)
         \/ PopNotify(t)
         \/ /\ delivered' = delivered
            /\ pc[t] # "pop_notify" /\ pc'[t] # "pop_notify"
<1> USE DEF TypeOK, shared, history, Goto, NotifyAll
<1>1. CASE \/ PushWait(t) \/ PushRefused(t) \/ PushThrow(t) \/ PushEnqueue(t)
           \/ PopWait(t) \/ PopEnd(t) \/ PopThrow(t)
  BY <1>1 DEF PushWait, PushRefused, PushThrow, LeavePush, PushEnqueue,
              PopWait, PopEnd, PopThrow
<1>2. CASE PushNotify(t)
  BY <1>2 DEF PushNotify, NotifyOne, At
<1>3. CASE Resize(t) \/ ResizeNotify(t) \/ FinishAssert(t) \/ Finish(t)
  BY <1>3 DEF Resize, ResizeNotify, FinishAssert, Finish
<1>4. CASE \/ FinishNotifyReaders(t) \/ FinishNotifyWriters(t)
           \/ FinishNotifyWatchers(t) \/ AwaitWait(t) \/ AwaitReturn(t)
  BY <1>4 DEF FinishNotifyReaders, FinishNotifyWriters, FinishNotifyWatchers,
              AwaitWait, AwaitReturn
<1> QED BY <1>1, <1>2, <1>3, <1>4 DEF Step

(* The front of the queue has not been delivered. *)
LEMMA FrontIsNew ==
  ASSUME QueueInv, queue # <<>>
  PROVE  /\ Head(queue) \in Items
         /\ \A p \in DOMAIN delivered : delivered[p] # Head(queue)
<1> USE DEF QueueInv, TypeOK
<1>1. Head(queue) \in Items /\ Head(queue) = queue[1] /\ Len(queue) \in Nat \ {0}
  BY HeadTailProperties, EmptySeq, LenProperties
<1>2. ASSUME NEW p \in DOMAIN delivered PROVE delivered[p] # Head(queue)
  <2>1. /\ p \in 1 .. Len(delivered) /\ Len(delivered) \in Nat
        /\ DOMAIN accepted = 1 .. Len(delivered) + Len(queue)
        /\ accepted[p] = delivered[p]
    BY ConcatProperties, LenProperties DEF FifoDelivery
  <2>2. accepted[Len(delivered) + 1] = queue[1]
    BY <1>1, <2>1, ConcatProperties DEF FifoDelivery
  <2>3. p \in DOMAIN accepted /\ Len(delivered) + 1 \in DOMAIN accepted
        /\ p # Len(delivered) + 1
    BY <1>1, <2>1
  <2> QED BY <1>1, <2>1, <2>2, <2>3 DEF VerdictInv, PushVerdict
<1> QED BY <1>1, <1>2

LEMMA DealStep ==
  ASSUME QueueInv, ProgramTypeOK, Program, Dealing, [PipelineNext]_pipelineVars
  PROVE  Dealing'
<1> USE DEF QueueInv
<1>0. ASSUME delivered' = delivered,
             \A r \in Readers : Stream(r)' = Stream(r)
      PROVE  Dealing'
  <2>1. Streams' = Streams
    BY <1>0 DEF Streams
  <2> QED BY <1>0, <2>1 DEF Dealing
<1>1. ASSUME NEW t \in Threads, QueueStep(t) PROVE Dealing'
  <2>0. Step(t) /\ pc \in [Threads -> Points] /\ item \in [Threads -> Items \cup {NoItem}]
    BY <1>1 DEF QueueStep, TypeOK
  <2>1. ASSUME NEW r \in Readers, r # t PROVE Stream(r)' = Stream(r)
    <3>1. r \in Threads
      BY Roles
    <3>2. results'[r] = results[r]
      BY <1>1, <2>1 DEF QueueStep, ProgramTypeOK
    <3>3. (pc[r] = "pop_notify" <=> pc'[r] = "pop_notify") /\ item'[r] = item[r]
      BY <2>0, <2>1, <3>1, StepMoves DEF Wakes
    <3> QED BY <3>2, <3>3 DEF Stream
  <2>2. CASE PopTake(t)
    <3>1. /\ pc[t] = "pop" /\ t \in Readers /\ queue # <<>>
          /\ delivered' = Append(delivered, Head(queue))
          /\ pc'[t] = "pop_notify" /\ item'[t] = Head(queue)
      BY <2>0, <2>2 DEF PopTake, Goto, Program, PopPoints
    <3>2. results' = results
      BY <1>1, <3>1 DEF QueueStep
    <3>3. Stream(t)' = Append(Stream(t), Head(queue))
      BY <3>1, <3>2 DEF Stream
    <3>4. Streams' = [Streams EXCEPT ![t] = Append(Streams[t], Head(queue))]
      BY <2>1, <3>1, <3>3 DEF Streams
    <3>5. /\ Head(queue) \in Items
          /\ \A p \in DOMAIN delivered : delivered[p] # Head(queue)
      BY <3>1, FrontIsNew
    <3>6. delivered \in Seq(Items) /\ Dealt(delivered, Streams)
      BY DEF Dealing, TypeOK
    <3>7. Dealt(Append(delivered, Head(queue)),
                [Streams EXCEPT ![t] = Append(Streams[t], Head(queue))])
      BY <3>1, <3>5, <3>6, Deal
    <3> QED BY <3>1, <3>4, <3>7 DEF Dealing
  <2>3. CASE PopNotify(t)
    <3>1. pc[t] = "pop_notify" /\ pc'[t] # "pop_notify" /\ delivered' = delivered
      BY <2>0, <2>3 DEF PopNotify, NotifyOne, At, history
    <3>2. results'[t] = Append(results[t], item[t]) /\ t \in Readers
      BY <1>1, <3>1 DEF QueueStep, ProgramTypeOK, Program, PopPoints
    <3>3. Stream(t)' = Stream(t)
      BY <3>1, <3>2 DEF Stream
    <3> QED BY <1>0, <2>1, <3>1, <3>3
  <2>4. CASE /\ delivered' = delivered
             /\ pc[t] # "pop_notify" /\ pc'[t] # "pop_notify"
    <3>1. results' = results
      BY <1>1, <2>4 DEF QueueStep
    <3>2. Stream(t)' = Stream(t)
      BY <2>4, <3>1 DEF Stream
    <3> QED BY <1>0, <2>1, <2>4, <3>2
  <2> QED BY <2>0, <2>2, <2>3, <2>4, TakeOrNot
<1>2. ASSUME NEW w \in Writers, PusherLoop(w) PROVE Dealing'
  BY <1>0, <1>2, Roles DEF PusherLoop, BeginPush, Goto, Stream, TypeOK
<1>3. ASSUME NEW r \in Readers, PopperLoop(r) PROVE Dealing'
  BY <1>0, <1>3, Roles DEF PopperLoop, BeginPop, Goto, history, Stream, TypeOK
<1>4. CASE MainFinishes
  BY <1>0, <1>4, Roles
  DEF MainFinishes, BeginFinish, Goto, history, Stream, TypeOK
<1>5. ASSUME NEW t \in Threads, Woken(t) PROVE Dealing'
  BY <1>0, <1>5, Roles DEF Woken, SpuriousWakeup, Goto, history, Stream, TypeOK
<1>6. CASE UNCHANGED pipelineVars
  BY <1>0, <1>6 DEF pipelineVars, vars, Stream
<1> QED BY <1>1, <1>2, <1>3, <1>4, <1>5, <1>6 DEF PipelineNext

(* What is stored is a beginning of the stream. *)
LEMMA StoredInStream ==
  ASSUME ProgramTypeOK, Program, NEW r \in Readers, NEW i \in DOMAIN results[r]
  PROVE  i \in DOMAIN Streams[r] /\ Streams[r][i] = results[r][i]
<1>1. results[r] \in Seq(Items) /\ r \in Threads
  BY Roles DEF ProgramTypeOK
<1>2. CASE pc[r] = "pop_notify"
  <2>1. item[r] \in Items
    BY <1>1, <1>2 DEF Program
  <2>2. /\ DOMAIN results[r] = 1 .. Len(results[r]) /\ Len(results[r]) \in Nat
        /\ DOMAIN Append(results[r], item[r]) = 1 .. Len(results[r]) + 1
        /\ \A k \in 1 .. Len(results[r]) :
             Append(results[r], item[r])[k] = results[r][k]
    BY <1>1, <2>1, Appended
  <2>3. i \in 1 .. Len(results[r]) /\ i \in 1 .. Len(results[r]) + 1
    BY <2>2
  <2> QED BY <1>2, <2>2, <2>3 DEF Streams, Stream
<1>3. CASE pc[r] # "pop_notify"
  BY <1>3 DEF Streams, Stream
<1> QED BY <1>2, <1>3

(* What has been delivered is a beginning of what was accepted. *)
LEMMA DeliveredWasAccepted ==
  ASSUME QueueInv, NEW p \in DOMAIN delivered
  PROVE  p \in DOMAIN accepted /\ accepted[p] = delivered[p]
<1> USE DEF QueueInv, TypeOK, FifoDelivery
<1>1. p \in 1 .. Len(delivered) /\ Len(delivered) \in Nat /\ Len(queue) \in Nat
  BY LenProperties
<1> QED BY <1>1, ConcatProperties, LenProperties

PipelineInv == QueueInv /\ ProgramTypeOK /\ Program /\ Feeding /\ Dealing

LEMMA InOrder == PipelineInv => PushersInOrder
<1> SUFFICES ASSUME PipelineInv, NEW r \in Readers, NEW w \in Writers,
                    NEW i \in DOMAIN results[r], NEW j \in DOMAIN results[r],
                    NEW m \in DOMAIN Share[w], NEW n \in DOMAIN Share[w],
                    results[r][i] = Share[w][m], results[r][j] = Share[w][n],
                    i < j
             PROVE  m < n
  BY DEF PushersInOrder
<1> USE DEF PipelineInv
<1>1. /\ i \in DOMAIN Streams[r] /\ Streams[r][i] = Share[w][m]
      /\ j \in DOMAIN Streams[r] /\ Streams[r][j] = Share[w][n]
  BY StoredInStream
<1>2. PICK p \in DOMAIN delivered : delivered[p] = Share[w][m]
  BY <1>1 DEF Dealing, Dealt
<1>3. PICK q \in DOMAIN delivered : delivered[q] = Share[w][n]
  BY <1>1 DEF Dealing, Dealt
<1>4. p < q
  BY <1>1, <1>2, <1>3 DEF Dealing, Dealt
<1>5. /\ p \in DOMAIN accepted /\ accepted[p] = Share[w][m]
      /\ q \in DOMAIN accepted /\ accepted[q] = Share[w][n]
  BY <1>2, <1>3, DeliveredWasAccepted
<1> QED BY <1>4, <1>5 DEF Feeding, Feed

LEMMA InitPipelineInv == PipelineInit => PipelineInv
<1> SUFFICES ASSUME PipelineInit PROVE PipelineInv
  OBVIOUS
<1>1. QueueInv /\ ProgramTypeOK /\ Program
  BY InitQueueInv, InitProgram DEF PipelineInit
<1>2. Feeding
  <2>1. ASSUME NEW w \in Writers PROVE Feed(w)
    <3>1. pushed[w] = 0 /\ pc[w] = "idle" /\ "idle" \notin PushPoints
      BY Roles DEF PipelineInit, Init, PushPoints
    <3>2. accepted = <<>> /\ DOMAIN accepted = {}
      BY DEF PipelineInit, Init
    <3> QED BY <3>1, <3>2, Shares DEF Feed, InAccepted
  <2> QED BY <2>1 DEF Feeding
<1>3. Streams = [r \in Readers |-> <<>>]
  BY Roles DEF PipelineInit, Init, Streams, Stream
<1>4. Dealing
  BY <1>3 DEF PipelineInit, Init, Dealing, Dealt
<1> QED BY <1>1, <1>2, <1>4 DEF PipelineInv

LEMMA PipelineInvStep ==
  PipelineInv /\ [PipelineNext]_pipelineVars => PipelineInv'
<1> SUFFICES ASSUME PipelineInv, [PipelineNext]_pipelineVars PROVE PipelineInv'
  OBVIOUS
<1>1. QueueInv'
  BY UsesQueueStep, QueueInvStep DEF PipelineInv
<1>2. ProgramTypeOK' /\ Program'
  BY ProgramTypeStep, ProgramStep DEF PipelineInv, QueueInv
<1>3. Feeding' /\ Dealing'
  BY FeedStep, DealStep DEF PipelineInv
<1> QED BY <1>1, <1>2, <1>3 DEF PipelineInv

(* Every popper gets the items of one pusher in the order of its range,     *)
(* although other pushers come between and other poppers take some          *)
(* (work_queue.h:60 and 85-88), for any number of threads and any limit.    *)
THEOREM Ordered == PipelineSpec => []PushersInOrder
BY InitPipelineInv, PipelineInvStep, InOrder, PTL DEF PipelineSpec

-----------------------------------------------------------------------------
(* Nothing is missing in the end. *)

(* What pusher w has got to is in the queue or has passed it, but for the   *)
(* item it is still pushing.                                                *)
Fed(w) ==
  \A i \in DOMAIN Share[w] : i <= pushed[w] =>
    \/ InAccepted(Share[w][i])
    \/ i = pushed[w] /\ pc[w] \in {"push", "push_wait"}

AllFed == \A w \in Writers : Fed(w)

(* Nobody has stopped before the queue came to its end. *)
QuitAtEnd == quit # {} => ended

LEMMA FedStep ==
  ASSUME ~MayThrow, PipelineInv, AllFed, [PipelineNext]_pipelineVars
  PROVE  AllFed'
<1> SUFFICES ASSUME NEW w \in Writers PROVE Fed(w)'
  BY DEF AllFed
<1> USE DEF PipelineInv, QueueInv, TypeOK, ProgramTypeOK
<1>0. Fed(w) /\ w \in Threads /\ w # Main /\ pushed[w] \in Nat
  BY Roles DEF AllFed
<1>q. ASSUME accepted' = accepted, pushed'[w] = pushed[w],
             pc[w] \in {"push", "push_wait"} => pc'[w] \in {"push", "push_wait"}
      PROVE  Fed(w)'
  BY <1>0, <1>q DEF Fed, InAccepted
<1>1. ASSUME NEW t \in Threads, QueueStep(t) PROVE Fed(w)'
  <2>0. Step(t) /\ pushed' = pushed
    BY <1>1 DEF QueueStep
  <2>1. CASE PushEnqueue(t)
    <3>1. item[t] \in Items /\ accepted' = Append(accepted, item[t])
      BY <2>1 DEF PushEnqueue, Goto, PushPoints
    <3>2. /\ Len(accepted) \in Nat /\ DOMAIN accepted = 1 .. Len(accepted)
          /\ DOMAIN accepted' = 1 .. Len(accepted) + 1
          /\ \A p \in 1 .. Len(accepted) : accepted'[p] = accepted[p]
          /\ accepted'[Len(accepted) + 1] = item[t]
      BY <3>1, Appended
    <3>3. \A v : InAccepted(v) => InAccepted(v)'
      <4> SUFFICES ASSUME NEW v, NEW p \in DOMAIN accepted, accepted[p] = v
                   PROVE  InAccepted(v)'
        BY DEF InAccepted
      <4>1. p \in DOMAIN accepted' /\ accepted'[p] = v
        BY <3>2
      <4> QED BY <4>1 DEF InAccepted
    <3>4. CASE t = w
      <4>1. item[w] = Share[w][pushed[w]]
        BY <2>1, <3>4 DEF PushEnqueue, Goto, PushPoints, Feeding, Feed
      <4>2. \A v : v = item[t] => InAccepted(v)'
        <5> SUFFICES ASSUME NEW v, v = item[t] PROVE InAccepted(v)'
          OBVIOUS
        <5>1. Len(accepted) + 1 \in DOMAIN accepted'
          BY <3>2
        <5> QED BY <3>2, <5>1 DEF InAccepted
      <4> QED BY <1>0, <2>0, <3>3, <3>4, <4>1, <4>2 DEF Fed
    <3>5. CASE t # w
      <4>1. pc'[w] = pc[w]
        BY <1>0, <2>1, <3>5 DEF PushEnqueue, Goto
      <4> QED BY <1>0, <2>0, <3>3, <4>1 DEF Fed
    <3> QED BY <3>4, <3>5
  <2>2. CASE ~PushEnqueue(t)
    <3>1. accepted' = accepted
      BY <2>0, <2>2 DEF Step, shared, history, PushWait, PushRefused, PushThrow,
         LeavePush, PushNotify, PopWait, PopEnd, PopThrow, PopTake, PopNotify,
         Resize, ResizeNotify, FinishAssert, Finish, FinishNotifyReaders,
         FinishNotifyWriters, FinishNotifyWatchers, AwaitWait, AwaitReturn
    <3>2. CASE t # w
      BY <1>0, <1>q, <2>0, <3>1, <3>2, StepMoves DEF Wakes
    <3>3. CASE t = w /\ pc[w] \in {"push", "push_wait"}
      <4>1. ~done
        BY <1>0, <3>3 DEF Program, Exited
      <4>2. PushWait(t)
        BY <2>0, <2>2, <3>3, <4>1
        DEF Step, PushWait, PushRefused, PushThrow, PushEnqueue, PushNotify,
            NotifyOne, PopWait, PopEnd, PopThrow, PopTake, PopNotify, Resize,
            ResizeNotify, FinishAssert, Finish, FinishNotifyReaders,
            FinishNotifyWriters, FinishNotifyWatchers, AwaitWait, AwaitReturn,
            Goto, NotifyAll
      <4> QED BY <1>0, <1>q, <2>0, <3>1, <3>3, <4>2 DEF PushWait, Goto
    <3>4. CASE pc[w] \notin {"push", "push_wait"}
      BY <1>q, <2>0, <3>1, <3>4
    <3> QED BY <3>2, <3>3, <3>4
  <2> QED BY <2>1, <2>2
<1>2. ASSUME NEW x \in Writers, PusherLoop(x) PROVE Fed(w)'
  <2>1. /\ accepted' = accepted /\ pc[x] = "idle" /\ x \in Threads
        /\ pushed' = [pushed EXCEPT ![x] = @ + 1]
        /\ pc' = [pc EXCEPT ![x] = "push"]
    BY <1>2, Roles DEF PusherLoop, BeginPush, Goto
  <2>2. CASE x = w
    <3>1. pushed'[w] = pushed[w] + 1 /\ pc'[w] = "push" /\ pc[w] = "idle"
      BY <1>0, <2>1, <2>2
    <3>2. ASSUME NEW i \in DOMAIN Share[w], i <= pushed'[w]
          PROVE  i <= pushed[w] \/ i = pushed'[w]
      BY <1>0, <3>1, <3>2, Shares
    <3>3. \A v : InAccepted(v) => InAccepted(v)'
      BY <2>1 DEF InAccepted
    <3> QED BY <1>0, <3>1, <3>2, <3>3 DEF Fed
  <2>3. CASE x # w
    BY <1>0, <1>q, <2>1, <2>3
  <2> QED BY <2>2, <2>3
<1>3. ASSUME NEW r \in Readers, PopperLoop(r) PROVE Fed(w)'
  BY <1>0, <1>q, <1>3 DEF PopperLoop, BeginPop, Goto, history
<1>4. CASE MainFinishes
  BY <1>0, <1>q, <1>4 DEF MainFinishes, BeginFinish, Goto, history
<1>5. ASSUME NEW t \in Threads, Woken(t) PROVE Fed(w)'
  BY <1>0, <1>q, <1>5 DEF Woken, SpuriousWakeup, Goto, history
<1>6. CASE UNCHANGED pipelineVars
  BY <1>0, <1>q, <1>6 DEF pipelineVars, vars
<1> QED BY <1>1, <1>2, <1>3, <1>4, <1>5, <1>6 DEF PipelineNext

LEMMA QuitStep ==
  ASSUME ~MayThrow, PipelineInv, QuitAtEnd, [PipelineNext]_pipelineVars
  PROVE  QuitAtEnd'
<1> USE DEF PipelineInv, QueueInv, QuitAtEnd, shared, history
<1>1. ASSUME NEW t \in Threads, QueueStep(t) PROVE QuitAtEnd'
  <2>0. Step(t) /\ (quit' = quit \/ (pc[t] = "pop" /\ pc'[t] = "idle"))
    BY <1>1 DEF QueueStep
  <2>1. CASE PopEnd(t)
    BY <2>1 DEF PopEnd
  <2>2. CASE PopWait(t) \/ PopTake(t)
    <3>1. pc'[t] # "idle" /\ ended' = ended
      BY <2>2 DEF PopWait, PopTake, Goto, TypeOK
    <3> QED BY <2>0, <3>1
  <2>3. CASE \/ PushWait(t) \/ PushRefused(t) \/ PushThrow(t) \/ PushEnqueue(t)
             \/ PushNotify(t) \/ PopNotify(t)
    <3>1. pc[t] # "pop" /\ ended' = ended
      BY <2>3 DEF PushWait, PushRefused, PushThrow, LeavePush, PushEnqueue,
                  PushNotify, PopNotify, NotifyOne, Goto
    <3> QED BY <2>0, <3>1
  <2>4. CASE \/ Resize(t) \/ ResizeNotify(t) \/ FinishAssert(t) \/ Finish(t)
             \/ FinishNotifyReaders(t) \/ FinishNotifyWriters(t)
             \/ FinishNotifyWatchers(t) \/ AwaitWait(t) \/ AwaitReturn(t)
    <3>1. pc[t] # "pop" /\ ended' = ended
      BY <2>4 DEF Resize, ResizeNotify, FinishAssert, Finish,
         FinishNotifyReaders, FinishNotifyWriters, FinishNotifyWatchers,
         AwaitWait, AwaitReturn, NotifyAll, Goto
    <3> QED BY <2>0, <3>1
  <2>5. ~PopThrow(t)
    BY DEF PopThrow
  <2> QED BY <2>0, <2>1, <2>2, <2>3, <2>4, <2>5 DEF Step
<1>2. ASSUME NEW w \in Writers, PusherLoop(w) PROVE QuitAtEnd'
  BY <1>2 DEF PusherLoop, BeginPush
<1>3. ASSUME NEW r \in Readers, PopperLoop(r) PROVE QuitAtEnd'
  BY <1>3 DEF PopperLoop, BeginPop
<1>4. CASE MainFinishes
  BY <1>4 DEF MainFinishes, BeginFinish
<1>5. ASSUME NEW t \in Threads, Woken(t) PROVE QuitAtEnd'
  BY <1>5 DEF Woken, SpuriousWakeup
<1>6. CASE UNCHANGED pipelineVars
  BY <1>6 DEF pipelineVars, vars
<1> QED BY <1>1, <1>2, <1>3, <1>4, <1>5, <1>6 DEF PipelineNext

(* An item of the stream of popper r is held by r, or stored there, once.   *)
LEMMA HeldOnce ==
  ASSUME PipelineInv, NEW v \in Items, NEW r \in Readers,
         NEW k \in DOMAIN Streams[r], Streams[r][k] = v
  PROVE  Cardinality(Holders(v)) + Cardinality(Places(v)) = 1
<1> USE DEF PipelineInv, QueueInv
<1>1. ASSUME NEW u \in Readers, NEW j \in DOMAIN Streams[u], Streams[u][j] = v
      PROVE  u = r /\ j = k
  BY <1>1 DEF Dealing, Dealt
<1>2. ASSUME NEW u \in Readers, NEW j \in DOMAIN results[u], results[u][j] = v
      PROVE  u = r /\ j = k
  BY <1>1, <1>2, StoredInStream
<1>3. ASSUME NEW u \in Readers, item[u] = v
      PROVE  /\ pc[u] = "pop_notify" /\ u = r /\ k = Len(results[u]) + 1
  <2>1. u \in Threads /\ u \notin Writers
    BY Roles
  <2>2. pc[u] = "pop_notify"
    BY <1>3, <2>1, ItemsAssumption DEF EmptyHanded, Program
  <2>3. results[u] \in Seq(Items)
    BY DEF ProgramTypeOK
  <2>4. Streams[u] = Append(results[u], item[u])
    BY <2>2 DEF Streams, Stream
  <2>5. Len(results[u]) + 1 \in DOMAIN Streams[u]
        /\ Streams[u][Len(results[u]) + 1] = v
    BY <1>3, <2>3, <2>4, Appended
  <2> QED BY <1>1, <2>2, <2>5
<1>4. results[r] \in Seq(Items) /\ DOMAIN results[r] = 1 .. Len(results[r])
      /\ Len(results[r]) \in Nat
  BY LenProperties DEF ProgramTypeOK
<1>5. CASE k \in DOMAIN results[r]
  <2>1. results[r][k] = v
    BY <1>5, StoredInStream
  <2>2. Holders(v) = {}
    BY <1>3, <1>4, <1>5 DEF Holders
  <2>3. Places(v) = {<<r, k>>}
    BY <1>2, <1>5, <2>1 DEF Places
  <2>4. Cardinality(Places(v)) = 1 /\ Cardinality(Holders(v)) = 0
    <3>1. Cardinality(Places(v)) = 1
      BY <2>3, FS_Singleton, Zenon
    <3> QED BY <2>2, <3>1, FS_EmptySet
  <2> QED BY <2>4
<1>6. CASE k \notin DOMAIN results[r]
  <2>1. pc[r] = "pop_notify" /\ Streams[r] = Append(results[r], item[r])
    BY <1>6 DEF Streams, Stream
  <2>2. item[r] \in Items
    BY <2>1, Roles DEF Program
  <2>3. k = Len(results[r]) + 1 /\ item[r] = v
    BY <1>4, <1>6, <2>1, <2>2, Appended
  <2>4. Holders(v) = {r}
    BY <1>3, <2>3 DEF Holders
  <2>5. Places(v) = {}
    BY <1>2, <1>6 DEF Places
  <2>6. Cardinality(Holders(v)) = 1 /\ Cardinality(Places(v)) = 0
    <3>1. Cardinality(Holders(v)) = 1
      BY <2>4, FS_Singleton, Zenon
    <3> QED BY <2>5, <3>1, FS_EmptySet
  <2> QED BY <2>6
<1> QED BY <1>5, <1>6

LEMMA NoneMissing == PipelineInv /\ AllFed /\ QuitAtEnd => NothingMissing
<1> SUFFICES ASSUME PipelineInv, AllFed, QuitAtEnd, quit # {},
                    NEW w \in Writers, NEW i \in DOMAIN Share[w]
             PROVE  Cardinality(Holders(Share[w][i]))
                      + Cardinality(Places(Share[w][i])) = 1
  BY DEF NothingMissing
<1> USE DEF PipelineInv, QueueInv
<1>1. done /\ queue = <<>>
  BY DEF QuitAtEnd, Drained
<1>2. pc[w] = "idle" /\ pushed[w] = Len(Share[w])
  BY <1>1 DEF Program, Exited
<1>3. InAccepted(Share[w][i]) /\ Share[w][i] \in Items
  BY <1>2, Shares DEF AllFed, Fed
<1>4. accepted = delivered
  BY <1>1, ConcatEmptySeq DEF TypeOK, FifoDelivery
<1>5. PICK p \in DOMAIN delivered : delivered[p] = Share[w][i]
  BY <1>3, <1>4 DEF InAccepted
<1>6. PICK r \in Readers : \E k \in DOMAIN Streams[r] : Streams[r][k] = delivered[p]
  BY DEF Dealing, Dealt
<1> QED BY <1>3, <1>5, <1>6, HeldOnce

(* When a popper has seen false, every item of every range has been stored  *)
(* by a popper, or is in the hands of one, exactly once                     *)
(* (work_queue_test.cc:147-149), provided that T does not throw: push() of  *)
(* an int does not.                                                         *)
THEOREM AllArrive == ASSUME ~MayThrow PROVE PipelineSpec => []NothingMissing
<1>1. PipelineInit => AllFed /\ QuitAtEnd
  BY Shares DEF PipelineInit, AllFed, Fed, QuitAtEnd
<1>2. PipelineInv /\ AllFed /\ [PipelineNext]_pipelineVars => AllFed'
  BY FedStep
<1>3. PipelineInv /\ QuitAtEnd /\ [PipelineNext]_pipelineVars => QuitAtEnd'
  BY QuitStep
<1> QED BY <1>1, <1>2, <1>3, InitPipelineInv, PipelineInvStep, NoneMissing, PTL
        DEF PipelineSpec
=============================================================================
