--------------------------- MODULE WorkQueueProofs ---------------------------
(***************************************************************************)
(* What TLAPS proves of WorkQueue for every number of threads, every set of *)
(* items and every set of limits: its invariants, and that it implements    *)
(* QueueContract, with and without assertions and exceptions.  At the end,  *)
(* what is proved of the BatchWorkQueue that is built on it: its count      *)
(* balances, for any buffers and any width of size_t as well.               *)
(***************************************************************************)
EXTENDS WorkQueueImplements, BatchWorkQueue, Arithmetic, TLAPS,
        SequenceTheorems, FiniteSetTheorems

(* Type correctness: a step of any method keeps every variable in its type. *)
LEMMA TypeStep == TypeOK /\ [Next]_vars => TypeOK'
<1> SUFFICES ASSUME TypeOK, [Next]_vars
             PROVE  TypeOK'
  OBVIOUS
<1> USE DEF TypeOK, Points, PushPoints, PopPoints, ResizePoints, FinishPoints,
            AwaitPoints, Fates, shared, history, Goto
<1>1. CASE UNCHANGED vars
  BY <1>1 DEF vars
<1>2. CASE Next
  <2> PICK t \in Threads : Call(t) \/ Step(t) \/ SpuriousWakeup(t)
    BY <1>2 DEF Next
  <2>1. CASE Call(t)
    <3>1. ASSUME NEW v \in Items, BeginPush(t, v) PROVE TypeOK'
      BY <3>1 DEF BeginPush
    <3>2. CASE BeginPop(t) \/ BeginResize(t) \/ BeginFinish(t) \/ BeginAwait(t)
      BY <3>2 DEF BeginPop, BeginResize, BeginFinish, BeginAwait
    <3> QED BY <2>1, <3>1, <3>2 DEF Call
  <2>2. CASE PushWait(t) \/ PushRefused(t) \/ PushThrow(t)
    BY <2>2 DEF PushWait, PushRefused, PushThrow, LeavePush
  <2>3. CASE PushEnqueue(t)
    BY <2>3 DEF PushEnqueue
  <2>4. CASE PushNotify(t)
    BY <2>4 DEF PushNotify, NotifyOne, At
  <2>5. CASE PopWait(t) \/ PopEnd(t) \/ PopThrow(t)
    BY <2>5 DEF PopWait, PopEnd, PopThrow
  <2>6. CASE PopTake(t)
    BY <2>6, HeadTailProperties DEF PopTake
  <2>7. CASE PopNotify(t)
    BY <2>7 DEF PopNotify, NotifyOne, At
  <2>8. CASE Resize(t) \/ ResizeNotify(t)
    BY <2>8 DEF Resize, ResizeNotify, NotifyAll
  <2>9. CASE FinishAssert(t) \/ Finish(t)
    BY <2>9 DEF FinishAssert, Finish
  <2>10. CASE \/ FinishNotifyReaders(t) \/ FinishNotifyWriters(t)
              \/ FinishNotifyWatchers(t)
    BY <2>10 DEF FinishNotifyReaders, FinishNotifyWriters,
                 FinishNotifyWatchers, NotifyAll
  <2>11. CASE AwaitWait(t) \/ AwaitReturn(t) \/ SpuriousWakeup(t)
    BY <2>11 DEF AwaitWait, AwaitReturn, SpuriousWakeup
  <2> QED BY <2>1, <2>2, <2>3, <2>4, <2>5, <2>6, <2>7, <2>8, <2>9, <2>10,
             <2>11 DEF Step
<1> QED BY <1>1, <1>2

LEMMA TypeInit == Init => TypeOK
<1> SUFFICES ASSUME Init PROVE TypeOK
  OBVIOUS
<1>1. <<>> \in Seq(Items)
  OBVIOUS
<1>2. "idle" \in Points /\ "idle" \notin PushPoints /\ "fresh" \in Fates
  BY DEF Points, PushPoints, Fates
<1> QED BY <1>1, <1>2 DEF Init, TypeOK

(* TypeOK holds in every behaviour of the queue. *)
THEOREM TypeCorrect == Spec => []TypeOK
BY TypeInit, TypeStep, PTL DEF Spec

-----------------------------------------------------------------------------
(* FIFO order. *)

(* Only PushEnqueue and PopTake touch the contents of the queue. *)
LEMMA QueueSteps ==
  ASSUME [Next]_vars
  PROVE  \/ \E t \in Threads : PushEnqueue(t) \/ PopTake(t)
         \/ UNCHANGED <<queue, accepted, delivered>>
<1> USE DEF shared, history
<1>1. CASE UNCHANGED vars
  BY <1>1 DEF vars
<1>2. CASE Next
  <2> PICK t \in Threads : Call(t) \/ Step(t) \/ SpuriousWakeup(t)
    BY <1>2 DEF Next
  <2>1. CASE Call(t) \/ SpuriousWakeup(t)
    BY <2>1 DEF Call, SpuriousWakeup, BeginPush, BeginPop, BeginResize,
                BeginFinish, BeginAwait
  <2>2. CASE \/ PushWait(t) \/ PushRefused(t) \/ PushThrow(t) \/ PushNotify(t)
             \/ PopWait(t) \/ PopEnd(t) \/ PopThrow(t) \/ PopNotify(t)
    BY <2>2 DEF PushWait, PushRefused, PushThrow, LeavePush, PushNotify,
                PopWait, PopEnd, PopThrow, PopNotify
  <2>3. CASE \/ Resize(t) \/ ResizeNotify(t) \/ FinishAssert(t) \/ Finish(t)
             \/ FinishNotifyReaders(t) \/ FinishNotifyWriters(t)
             \/ FinishNotifyWatchers(t) \/ AwaitWait(t) \/ AwaitReturn(t)
    BY <2>3 DEF Resize, ResizeNotify, FinishAssert, Finish,
                FinishNotifyReaders, FinishNotifyWriters,
                FinishNotifyWatchers, AwaitWait, AwaitReturn
  <2>4. CASE PushEnqueue(t) \/ PopTake(t)
    BY <2>4
  <2> QED BY <2>1, <2>2, <2>3, <2>4 DEF Step
<1> QED BY <1>1, <1>2

(* Moving the head of q to the end of s leaves s \o q as it was. *)
LEMMA MoveHead ==
  ASSUME NEW S, NEW s \in Seq(S), NEW q \in Seq(S), q # <<>>
  PROVE  Append(s, Head(q)) \o Tail(q) = s \o q
<1> DEFINE l == Append(s, Head(q)) \o Tail(q)
           r == s \o q
<1>1. Head(q) \in S /\ Tail(q) \in Seq(S) /\ Append(s, Head(q)) \in Seq(S)
  BY HeadTailProperties, AppendProperties
<1>2. l \in Seq(S) /\ r \in Seq(S) /\ Len(l) = Len(r)
  BY <1>1, HeadTailProperties, AppendProperties, ConcatProperties,
     LenProperties
<1>3. ASSUME NEW i \in 1 .. Len(l) PROVE l[i] = r[i]
  BY <1>1, <1>2, HeadTailProperties, AppendProperties, ConcatProperties,
     LenProperties
<1> QED BY <1>2, <1>3, SeqEqual

LEMMA FifoStep == TypeOK /\ FifoDelivery /\ [Next]_vars => FifoDelivery'
<1> SUFFICES ASSUME TypeOK, FifoDelivery, [Next]_vars
             PROVE  FifoDelivery'
  OBVIOUS
<1> USE DEF TypeOK, FifoDelivery
<1>1. ASSUME NEW t \in Threads, PushEnqueue(t) PROVE FifoDelivery'
  <2>1. item[t] \in Items
    BY <1>1 DEF PushEnqueue, Goto, PushPoints
  <2>2. /\ Append(accepted, item[t]) = accepted \o <<item[t]>>
        /\ Append(queue, item[t]) = queue \o <<item[t]>>
    BY <2>1, AppendIsConcat
  <2>3. (delivered \o queue) \o <<item[t]>>
          = delivered \o (queue \o <<item[t]>>)
    BY <2>1, ConcatAssociative
  <2> QED BY <1>1, <2>2, <2>3 DEF PushEnqueue
<1>2. ASSUME NEW t \in Threads, PopTake(t) PROVE FifoDelivery'
  BY <1>2, MoveHead DEF PopTake
<1>3. CASE UNCHANGED <<queue, accepted, delivered>>
  BY <1>3
<1> QED BY <1>1, <1>2, <1>3, QueueSteps

(* For any number of threads: items leave in the order in which they came,  *)
(* none lost and none twice (work_queue.h:60, 85-86).                       *)
THEOREM Fifo == Spec => []FifoDelivery
<1>1. Init => FifoDelivery
  BY DEF Init, FifoDelivery
<1> QED BY <1>1, FifoStep, TypeCorrect, PTL DEF Spec

(* A full queue never grows, over a lowered limit or not                    *)
(* (work_queue.h:54-60).                                                    *)
THEOREM FullNeverGrows == Spec => NeverGrowsWhenFull
<1>1. TypeOK /\ [Next]_vars => [Full => Len(queue') <= Len(queue)]_vars
  <2> SUFFICES ASSUME TypeOK, [Next]_vars, Full
               PROVE  Len(queue') <= Len(queue)
    OBVIOUS
  <2>1. ASSUME NEW t \in Threads, PopTake(t) PROVE Len(queue') <= Len(queue)
    BY <2>1, HeadTailProperties DEF TypeOK, PopTake
  <2> QED BY <2>1, QueueSteps, LenProperties DEF TypeOK, PushEnqueue
<1> QED BY <1>1, TypeCorrect, PTL DEF Spec, NeverGrowsWhenFull

-----------------------------------------------------------------------------
(* Nothing is stranded. *)

(* Once a pop() has returned false the queue is finished, and empty for     *)
(* good.                                                                    *)
Drained == ended => done /\ queue = <<>>

LEMMA DrainedStep == Drained /\ [Next]_vars => Drained'
<1> SUFFICES ASSUME Drained, [Next]_vars
             PROVE  Drained'
  OBVIOUS
<1> USE DEF Drained, shared, history
<1>1. CASE UNCHANGED vars
  BY <1>1 DEF vars
<1>2. CASE Next
  <2> PICK t \in Threads : Call(t) \/ Step(t) \/ SpuriousWakeup(t)
    BY <1>2 DEF Next
  <2>1. CASE Call(t) \/ SpuriousWakeup(t)
    BY <2>1 DEF Call, SpuriousWakeup, BeginPush, BeginPop, BeginResize,
                BeginFinish, BeginAwait
  <2>2. CASE \/ PushWait(t) \/ PushRefused(t) \/ PushThrow(t)
             \/ PushEnqueue(t) \/ PushNotify(t)
    BY <2>2 DEF PushWait, PushRefused, PushThrow, LeavePush, PushEnqueue,
                PushNotify
  <2>3. CASE \/ PopWait(t) \/ PopEnd(t) \/ PopThrow(t) \/ PopTake(t)
             \/ PopNotify(t)
    BY <2>3 DEF PopWait, PopEnd, PopThrow, PopTake, PopNotify
  <2>4. CASE \/ Resize(t) \/ ResizeNotify(t) \/ FinishAssert(t) \/ Finish(t)
             \/ FinishNotifyReaders(t) \/ FinishNotifyWriters(t)
             \/ FinishNotifyWatchers(t) \/ AwaitWait(t) \/ AwaitReturn(t)
    BY <2>4 DEF Resize, ResizeNotify, FinishAssert, Finish,
                FinishNotifyReaders, FinishNotifyWriters,
                FinishNotifyWatchers, AwaitWait, AwaitReturn
  <2> QED BY <2>1, <2>2, <2>3, <2>4 DEF Step
<1> QED BY <1>1, <1>2

(* A reader that stops when pop() returns false leaves nothing behind, and  *)
(* nothing comes after it (work_queue.h:72-73, 81-84).                      *)
THEOREM NoneStranded == Spec => []NothingStranded
<1>1. Init => Drained
  BY DEF Init, Drained
<1>2. TypeOK /\ FifoDelivery /\ Drained => NothingStranded
  BY ConcatEmptySeq DEF TypeOK, FifoDelivery, Drained, NothingStranded
<1> QED BY <1>1, <1>2, DrainedStep, TypeCorrect, Fifo, PTL DEF Spec

-----------------------------------------------------------------------------
(* The verdict of push(). *)

InAccepted(v) == \E i \in DOMAIN accepted : accepted[i] = v

(* The calls of push() in progress: each has its own item, still "offered", *)
(* which is among the accepted ones exactly when the notification is next.  *)
PushesInProgress ==
  /\ \A t \in Threads : pc[t] \in PushPoints =>
       /\ fate[item[t]] = "offered"
       /\ InAccepted(item[t]) <=> pc[t] = "push_notify"
  /\ \A t, u \in Threads :
       /\ pc[t] \in PushPoints /\ pc[u] \in PushPoints
       /\ item[t] = item[u]
       => t = u

VerdictInv == PushVerdict /\ PushesInProgress

(* A step that leaves the pushes in progress alone. *)
LEMMA QuietStep ==
  ASSUME VerdictInv, UNCHANGED <<accepted, fate>>,
         \A u \in Threads : pc'[u] \in PushPoints =>
           /\ pc[u] \in PushPoints
           /\ item'[u] = item[u]
           /\ pc'[u] = "push_notify" <=> pc[u] = "push_notify"
  PROVE  VerdictInv'
<1>1. \A v : InAccepted(v)' <=> InAccepted(v)
  BY DEF InAccepted
<1>2. PushVerdict'
  BY DEF VerdictInv, PushVerdict
<1> QED BY <1>1, <1>2 DEF VerdictInv, PushesInProgress

LEMMA VerdictStep == TypeOK /\ VerdictInv /\ [Next]_vars => VerdictInv'
<1> SUFFICES ASSUME TypeOK, VerdictInv, [Next]_vars
             PROVE  VerdictInv'
  OBVIOUS
<1> USE DEF TypeOK, PushPoints, shared, history, Goto
<1>1. CASE UNCHANGED vars
  BY <1>1, QuietStep DEF vars
<1>2. CASE Next
  <2> PICK t \in Threads : Call(t) \/ Step(t) \/ SpuriousWakeup(t)
    BY <1>2 DEF Next
  <2>1. ASSUME NEW v \in Items, BeginPush(t, v) PROVE VerdictInv'
    <3>1. \A x : InAccepted(x)' <=> InAccepted(x)
      BY <2>1 DEF BeginPush, InAccepted
    <3>2. ~InAccepted(v)
      BY <2>1 DEF BeginPush, InAccepted, VerdictInv, PushVerdict
    <3>3. PushVerdict'
      BY <2>1, <3>2 DEF BeginPush, VerdictInv, PushVerdict, InAccepted
    <3>4. PushesInProgress'
      BY <2>1, <3>1, <3>2 DEF BeginPush, VerdictInv, PushesInProgress
    <3> QED BY <3>3, <3>4 DEF VerdictInv
  <2>2. CASE BeginPop(t) \/ BeginResize(t) \/ BeginFinish(t) \/ BeginAwait(t)
    BY <2>2, QuietStep DEF BeginPop, BeginResize, BeginFinish, BeginAwait
  <2>3. CASE PushWait(t) \/ SpuriousWakeup(t)
    BY <2>3, QuietStep DEF PushWait, SpuriousWakeup
  <2>4. ASSUME NEW outcome \in {"false", "threw"}, LeavePush(t, outcome)
        PROVE  VerdictInv'
    <3>1. \A x : InAccepted(x)' <=> InAccepted(x)
      BY <2>4 DEF LeavePush, InAccepted
    <3>2. ~InAccepted(item[t]) /\ item[t] \in Items
      BY <2>4 DEF LeavePush, VerdictInv, PushesInProgress
    <3>3. PushVerdict'
      BY <2>4, <3>2 DEF LeavePush, VerdictInv, PushVerdict, InAccepted
    <3>4. PushesInProgress'
      BY <2>4, <3>1, <3>2 DEF LeavePush, VerdictInv, PushesInProgress
    <3> QED BY <3>3, <3>4 DEF VerdictInv
  <2>5. CASE PushEnqueue(t)
    <3>1. ~InAccepted(item[t]) /\ item[t] \in Items /\ fate[item[t]] = "offered"
      BY <2>5 DEF PushEnqueue, VerdictInv, PushesInProgress
    <3>2. /\ DOMAIN accepted = 1 .. Len(accepted)
          /\ Len(accepted) \in Nat
          /\ DOMAIN accepted' = 1 .. Len(accepted) + 1
          /\ \A i \in 1 .. Len(accepted) : accepted'[i] = accepted[i]
          /\ accepted'[Len(accepted) + 1] = item[t]
      BY <2>5, <3>1, AppendProperties, LenProperties DEF PushEnqueue
    <3>3. ASSUME NEW v PROVE InAccepted(v)' <=> InAccepted(v) \/ v = item[t]
      <4>1. ASSUME NEW i \in DOMAIN accepted', accepted'[i] = v
            PROVE  InAccepted(v) \/ v = item[t]
        <5>1. i \in 1 .. Len(accepted) \/ i = Len(accepted) + 1
          BY <3>2, <4>1
        <5> QED BY <3>2, <4>1, <5>1 DEF InAccepted
      <4>2. ASSUME NEW i \in DOMAIN accepted, accepted[i] = v
            PROVE  i \in DOMAIN accepted' /\ accepted'[i] = v
        BY <3>2, <4>2
      <4>3. /\ Len(accepted) + 1 \in DOMAIN accepted'
            /\ accepted'[Len(accepted) + 1] = item[t]
        BY <3>2
      <4> QED BY <4>1, <4>2, <4>3 DEF InAccepted
    <3>4. ASSUME NEW i \in DOMAIN accepted', NEW j \in DOMAIN accepted',
                 accepted'[i] = accepted'[j]
          PROVE  i = j
      BY <3>1, <3>2, <3>4 DEF VerdictInv, PushVerdict, InAccepted
    <3>5. ASSUME NEW i \in DOMAIN accepted'
          PROVE  fate[accepted'[i]] \in {"offered", "true"}
      BY <3>1, <3>2 DEF VerdictInv, PushVerdict
    <3>6. \A v \in Items : fate[v] = "true" => InAccepted(v)'
      BY <3>3 DEF VerdictInv, PushVerdict, InAccepted
    <3>7. PushVerdict'
      BY <2>5, <3>4, <3>5, <3>6 DEF PushEnqueue, PushVerdict, InAccepted
    <3>8. PushesInProgress'
      BY <2>5, <3>3 DEF PushEnqueue, VerdictInv, PushesInProgress
    <3> QED BY <3>7, <3>8 DEF VerdictInv
  <2>6. CASE PushNotify(t)
    <3>1. \A x : InAccepted(x)' <=> InAccepted(x)
      BY <2>6 DEF PushNotify, InAccepted
    <3>2. InAccepted(item[t]) /\ item[t] \in Items
      BY <2>6 DEF PushNotify, NotifyOne, VerdictInv, PushesInProgress
    <3>3. PushVerdict'
      BY <2>6, <3>2 DEF PushNotify, VerdictInv, PushVerdict, InAccepted
    <3>4. \A u \in Threads : pc'[u] \in PushPoints =>
            u # t /\ pc[u] \in PushPoints /\ pc'[u] = pc[u]
      BY <2>6 DEF PushNotify, NotifyOne, At
    <3>5. PushesInProgress'
      BY <2>6, <3>1, <3>4
      DEF PushNotify, NotifyOne, VerdictInv, PushesInProgress
    <3> QED BY <3>3, <3>5 DEF VerdictInv
  <2>7. CASE PopWait(t) \/ PopEnd(t) \/ PopThrow(t) \/ PopTake(t)
    BY <2>7, QuietStep DEF PopWait, PopEnd, PopThrow, PopTake
  <2>8. CASE PopNotify(t)
    BY <2>8, QuietStep DEF PopNotify, NotifyOne, At
  <2>9. CASE Resize(t) \/ ResizeNotify(t) \/ FinishAssert(t) \/ Finish(t)
    BY <2>9, QuietStep DEF Resize, ResizeNotify, FinishAssert, Finish, NotifyAll
  <2>10. CASE \/ FinishNotifyReaders(t) \/ FinishNotifyWriters(t)
              \/ FinishNotifyWatchers(t)
    BY <2>10, QuietStep DEF FinishNotifyReaders, FinishNotifyWriters,
                            FinishNotifyWatchers, NotifyAll
  <2>11. CASE AwaitWait(t) \/ AwaitReturn(t)
    BY <2>11, QuietStep DEF AwaitWait, AwaitReturn
  <2> QED BY <1>2, <2>1, <2>2, <2>3, <2>4, <2>5, <2>6, <2>7, <2>8, <2>9,
             <2>10, <2>11 DEF Call, Step, PushRefused, PushThrow
<1> QED BY <1>1, <1>2

(* "An item was pushed iff push() returns true" (work_queue.h:48), and no   *)
(* item was pushed twice.                                                   *)
THEOREM Verdict == Spec => []PushVerdict
<1>1. Init => VerdictInv
  BY DEF Init, VerdictInv, PushVerdict, PushesInProgress, InAccepted,
         PushPoints
<1>2. VerdictInv => PushVerdict
  BY DEF VerdictInv
<1> QED BY <1>1, <1>2, VerdictStep, TypeCorrect, PTL DEF Spec

-----------------------------------------------------------------------------
(* Where a step of a thread leads. *)

(* A notification or a spurious wakeup takes a thread from p to q. *)
Wakes(p, q) ==
  \/ p = "push_wait" /\ q = "push"
  \/ p = "pop_wait" /\ q = "pop"
  \/ p = "await_wait" /\ q = "await"

(* A thread goes on from p to q in the method it is in, or returns. *)
GoesOn(p, q) ==
  \/ p \in PushPoints /\ q \in PushPoints \cup {"idle"}
  \/ p \in PopPoints /\ q \in PopPoints \cup {"idle"}
  \/ p \in ResizePoints /\ q \in ResizePoints \cup {"idle"}
  \/ p \in FinishPoints /\ q \in (FinishPoints \ {"finish"}) \cup {"idle"}
  \/ p \in AwaitPoints /\ q \in AwaitPoints \cup {"idle"}
  \/ p = "finish" /\ q = "aborted" /\ done

LEMMA StepMoves ==
  ASSUME TypeOK, NEW t \in Threads, Step(t)
  PROVE  /\ GoesOn(pc[t], pc'[t])
         /\ \A u \in Threads \ {t} :
              /\ pc'[u] = pc[u] \/ Wakes(pc[u], pc'[u])
              /\ item'[u] = item[u]
         /\ pc'[t] \in PushPoints => item'[t] = item[t]
         /\ pc'[t] = "pop_notify" => item'[t] \in Items
         /\ done' # done => pc[t] = "finish"
<1> USE DEF TypeOK, GoesOn, Wakes, PushPoints, PopPoints, ResizePoints,
            FinishPoints, AwaitPoints, shared, Goto, NotifyAll
<1>1. CASE PushWait(t) \/ PushRefused(t) \/ PushThrow(t) \/ PushEnqueue(t)
  BY <1>1 DEF PushWait, PushRefused, PushThrow, LeavePush, PushEnqueue
<1>2. CASE PushNotify(t) \/ PopNotify(t)
  BY <1>2 DEF PushNotify, PopNotify, NotifyOne, At
<1>3. CASE PopWait(t) \/ PopEnd(t) \/ PopThrow(t) \/ PopTake(t)
  BY <1>3, HeadTailProperties DEF PopWait, PopEnd, PopThrow, PopTake
<1>4. CASE Resize(t) \/ ResizeNotify(t)
  BY <1>4 DEF Resize, ResizeNotify
<1>5. CASE FinishAssert(t) \/ Finish(t)
  BY <1>5 DEF FinishAssert, Finish
<1>6. CASE \/ FinishNotifyReaders(t) \/ FinishNotifyWriters(t)
           \/ FinishNotifyWatchers(t)
  BY <1>6 DEF FinishNotifyReaders, FinishNotifyWriters, FinishNotifyWatchers
<1>7. CASE AwaitWait(t) \/ AwaitReturn(t)
  BY <1>7 DEF AwaitWait, AwaitReturn
<1> QED BY <1>1, <1>2, <1>3, <1>4, <1>5, <1>6, <1>7 DEF Step

-----------------------------------------------------------------------------
(* Lost wakeups.  The three invariants are inductive as they stand.  They   *)
(* count threads at program points, so the first lemmas say how a step      *)
(* changes those counts.                                                    *)

N(p) == Cardinality(At(p))

(* The threads at a point are finitely many. *)
LEMMA Counts == \A p : IsFiniteSet(At(p)) /\ N(p) \in Nat
  BY ThreadsAssumption, FS_Subset, FS_CardinalityType DEF At, N

LEMMA CountsNext == \A p : IsFiniteSet(At(p)') /\ N(p)' \in Nat
  BY ThreadsAssumption, FS_Subset, FS_CardinalityType DEF At, N

(* A thread that goes from one point to another. *)
LEMMA GotoCounts ==
  ASSUME TypeOK, NEW t \in Threads, NEW from, NEW to, from # to,
         Goto(t, from, to)
  PROVE  /\ At(from)' = At(from) \ {t} /\ At(to)' = At(to) \cup {t}
         /\ N(from)' = N(from) - 1 /\ N(to)' = N(to) + 1
         /\ \A p : p # from /\ p # to => At(p)' = At(p) /\ N(p)' = N(p)
<1>1. t \in At(from) /\ t \notin At(to)
  BY DEF Goto, At
<1>2. At(from)' = At(from) \ {t} /\ At(to)' = At(to) \cup {t}
  BY DEF TypeOK, Goto, At
<1>3. \A p : p # from /\ p # to => At(p)' = At(p)
  BY DEF TypeOK, Goto, At
<1>4. N(from)' = N(from) - 1
  BY <1>1, <1>2, Counts, FS_RemoveElement DEF N
<1>5. N(to)' = N(to) + 1
  BY <1>1, <1>2, Counts, FS_AddElement DEF N
<1> QED BY <1>2, <1>3, <1>4, <1>5 DEF N

(* notify_one() with a sleeper: one thread leaves the wait set. *)
LEMMA NotifyOneCounts ==
  ASSUME TypeOK, NEW t \in Threads, NEW from, NEW waiting, NEW awake,
         NotifyOne(t, from, waiting, awake), At(waiting) # {},
         from # waiting, from # awake, from # "idle",
         waiting # awake, waiting # "idle", awake # "idle"
  PROVE  /\ N(from)' = N(from) - 1 /\ N(awake)' = N(awake) + 1
         /\ At(waiting)' \subseteq At(waiting)
         /\ \A p : p \notin {from, waiting, awake, "idle"} =>
              At(p)' = At(p) /\ N(p)' = N(p)
<1> PICK u \in At(waiting) : pc' = [pc EXCEPT ![t] = "idle", ![u] = awake]
  BY DEF NotifyOne
<1>1. /\ t \in At(from) /\ u \notin At(awake)
      /\ At(from)' = At(from) \ {t} /\ At(awake)' = At(awake) \cup {u}
      /\ At(waiting)' \subseteq At(waiting)
  BY DEF TypeOK, NotifyOne, At
<1>2. \A p : p \notin {from, waiting, awake, "idle"} => At(p)' = At(p)
  BY DEF TypeOK, NotifyOne, At
<1>3. N(from)' = N(from) - 1
  BY <1>1, Counts, FS_RemoveElement DEF N
<1>4. N(awake)' = N(awake) + 1
  BY <1>1, Counts, FS_AddElement DEF N
<1> QED BY <1>1, <1>2, <1>3, <1>4 DEF N

(* notify_all(): the wait set is empty afterwards. *)
LEMMA NotifyAllCounts ==
  ASSUME TypeOK, NEW t \in Threads, NEW from, NEW waiting, NEW awake, NEW to,
         NotifyAll(t, from, waiting, awake, to),
         from # to, from # waiting, from # awake,
         waiting # awake, waiting # to, awake # to
  PROVE  /\ At(waiting)' = {} /\ t \in At(to)'
         /\ N(awake)' >= N(awake)
         /\ \A p : p \notin {from, waiting, awake, to} => At(p)' = At(p) /\ N(p)' = N(p)
<1>1. /\ At(waiting)' = {} /\ t \in At(to)'
      /\ At(awake) \subseteq At(awake)'
  BY DEF TypeOK, NotifyAll, At
<1>2. \A p : p \notin {from, waiting, awake, to} => At(p)' = At(p)
  BY DEF TypeOK, NotifyAll, At
<1>3. N(awake)' >= N(awake)
  BY <1>1, CountsNext, FS_Subset DEF N
<1> QED BY <1>1, <1>2, <1>3 DEF N

-----------------------------------------------------------------------------
(* What no action does to the points and the state an invariant is about.   *)

ReaderPoints == {"pop_wait", "pop", "push_notify", "finish_readers"}

(* A step that concerns neither readers nor the queue they wait for.        *)
LEMMA ReaderQuiet ==
  ASSUME ReaderWakeups, UNCHANGED <<queue, done>>,
         \A p \in ReaderPoints : At(p)' = At(p) /\ N(p)' = N(p)
  PROVE  ReaderWakeups'
  BY DEF ReaderWakeups, ReaderPoints, N

LEMMA ReaderStep ==
  ASSUME TypeOK, ~MayThrow, ReaderWakeups, [Next]_vars
  PROVE  ReaderWakeups'
<1> USE DEF shared, history
<1>1. CASE UNCHANGED vars
  BY <1>1 DEF vars, ReaderWakeups, At
<1>2. CASE Next
  <2> PICK t \in Threads : Call(t) \/ Step(t) \/ SpuriousWakeup(t)
    BY <1>2 DEF Next
  <2>0. Len(queue) \in Nat /\ \A p : N(p) \in Nat /\ N(p)' \in Nat
    BY Counts, CountsNext, LenProperties DEF TypeOK
  <2>1. ASSUME NEW from, NEW to, Goto(t, from, to), from # to,
               from \notin ReaderPoints, to \notin ReaderPoints,
               UNCHANGED <<queue, done>>
        PROVE  ReaderWakeups'
    BY <2>1, GotoCounts, ReaderQuiet DEF ReaderPoints
  <2>2. CASE Call(t)
    <3>1. ASSUME NEW v \in Items, BeginPush(t, v) PROVE ReaderWakeups'
      BY <2>1, <3>1 DEF BeginPush, ReaderPoints
    <3>2. CASE BeginResize(t) \/ BeginFinish(t) \/ BeginAwait(t)
      BY <2>1, <3>2 DEF BeginResize, BeginFinish, BeginAwait, ReaderPoints
    <3>3. CASE BeginPop(t)
      <4>1. /\ Goto(t, "idle", "pop")
            /\ UNCHANGED <<queue, done>>
        BY <3>3 DEF BeginPop
      <4>2. /\ N("pop")' = N("pop") + 1
            /\ \A p \in ReaderPoints \ {"pop"} : At(p)' = At(p) /\ N(p)' = N(p)
        BY <4>1, GotoCounts DEF ReaderPoints
      <4> QED BY <2>0, <4>1, <4>2 DEF ReaderWakeups, ReaderPoints, N
    <3> QED BY <2>2, <3>1, <3>2, <3>3 DEF Call
  <2>3. CASE PushWait(t) \/ PushRefused(t)
    BY <2>1, <2>3 DEF PushWait, PushRefused, LeavePush, ReaderPoints
  <2>4. CASE PushEnqueue(t)
    <3>1. /\ Goto(t, "push", "push_notify") /\ done' = done
          /\ Len(queue') = Len(queue) + 1 /\ Len(queue) \in Nat
      BY <2>4, AppendProperties, LenProperties
      DEF PushEnqueue, TypeOK, Goto, PushPoints
    <3> QED BY <2>0, <3>1, GotoCounts, SMTT(30) DEF ReaderWakeups, N
  <2>5. CASE PushNotify(t)
    <3>1. CASE At("pop_wait") = {}
      BY <2>5, <3>1 DEF PushNotify, NotifyOne, ReaderWakeups, TypeOK, At
    <3>2. CASE At("pop_wait") # {}
      <4>1. /\ N("push_notify")' = N("push_notify") - 1
            /\ N("pop")' = N("pop") + 1
            /\ At("finish_readers")' = At("finish_readers")
        BY <2>5, <3>2, NotifyOneCounts DEF PushNotify
      <4> QED BY <2>0, <2>5, <3>2, <4>1 DEF PushNotify, ReaderWakeups, N, TypeOK
    <3> QED BY <3>1, <3>2
  <2>6. CASE PopWait(t)
    <3>1. Len(queue') = 0 /\ ~done'
      BY <2>6 DEF PopWait
    <3> QED BY <2>0, <3>1 DEF ReaderWakeups, N
  <2>7. CASE PopEnd(t)
    <3>1. Goto(t, "pop", "idle") /\ done /\ done'
      BY <2>7 DEF PopEnd
    <3> QED BY <3>1, GotoCounts DEF ReaderWakeups
  <2>8. CASE PopTake(t)
    <3>1. /\ Goto(t, "pop", "pop_notify") /\ done' = done
          /\ Len(queue') = Len(queue) - 1
      BY <2>8, HeadTailProperties DEF PopTake, TypeOK
    <3>2. /\ N("pop")' = N("pop") - 1
          /\ \A p \in ReaderPoints \ {"pop"} : At(p)' = At(p) /\ N(p)' = N(p)
      BY <3>1, GotoCounts DEF ReaderPoints
    <3> QED BY <2>0, <3>1, <3>2 DEF ReaderWakeups, ReaderPoints, N
  <2>9. CASE PopNotify(t)
    <3>1. CASE At("push_wait") = {}
      BY <2>1, <2>9, <3>1 DEF PopNotify, NotifyOne, Goto, ReaderPoints
    <3>2. CASE At("push_wait") # {}
      BY <2>9, <3>2, NotifyOneCounts, ReaderQuiet DEF PopNotify, ReaderPoints
    <3> QED BY <3>1, <3>2
  <2>10. CASE Resize(t) \/ FinishAssert(t) \/ AwaitWait(t) \/ AwaitReturn(t)
    BY <2>1, <2>10 DEF Resize, FinishAssert, AwaitWait, AwaitReturn,
                       ReaderPoints
  <2>11. CASE ResizeNotify(t)
    BY <2>11, NotifyAllCounts, ReaderQuiet DEF ResizeNotify, ReaderPoints
  <2>12. CASE Finish(t)
    <3>1. Goto(t, "finish", "finish_readers") /\ done'
      BY <2>12 DEF Finish
    <3> QED BY <3>1, GotoCounts DEF ReaderWakeups
  <2>13. CASE FinishNotifyReaders(t)
    <3>1. At("pop_wait")' = {}
      BY <2>13, NotifyAllCounts DEF FinishNotifyReaders
    <3> QED BY <3>1 DEF ReaderWakeups
  <2>14. CASE FinishNotifyWriters(t) \/ FinishNotifyWatchers(t)
    BY <2>14, NotifyAllCounts, ReaderQuiet
    DEF FinishNotifyWriters, FinishNotifyWatchers, ReaderPoints
  <2>15. CASE SpuriousWakeup(t)
    <3>1. CASE Goto(t, "push_wait", "push") \/ Goto(t, "await_wait", "await")
      BY <2>1, <2>15, <3>1 DEF SpuriousWakeup, ReaderPoints
    <3>2. CASE Goto(t, "pop_wait", "pop")
      <4>1. /\ N("pop")' = N("pop") + 1
            /\ At("pop_wait")' = At("pop_wait") \ {t}
            /\ N("push_notify")' = N("push_notify")
            /\ At("finish_readers")' = At("finish_readers")
        BY <3>2, GotoCounts
      <4> QED BY <2>0, <2>15, <4>1 DEF SpuriousWakeup, ReaderWakeups, N
    <3> QED BY <2>15, <3>1, <3>2 DEF SpuriousWakeup
  <2> QED
    BY <2>2, <2>3, <2>4, <2>5, <2>6, <2>7, <2>8, <2>9, <2>10, <2>11, <2>12,
       <2>13, <2>14, <2>15 DEF Step, PushThrow, PopThrow
<1> QED BY <1>1, <1>2

-----------------------------------------------------------------------------
WriterPoints == {"push_wait", "push", "pop_notify", "resize_notify",
                 "finish_readers", "finish_writers"}

(* A step that concerns neither writers nor the room they wait for.         *)
LEMMA WriterQuiet ==
  ASSUME WriterWakeups, UNCHANGED <<queue, done, maxSize>>,
         \A p \in WriterPoints : At(p)' = At(p) /\ N(p)' = N(p)
  PROVE  WriterWakeups'
  BY DEF WriterWakeups, WriterPoints, N

LEMMA WriterStep ==
  ASSUME TypeOK, ~MayThrow, WriterWakeups, [Next]_vars
  PROVE  WriterWakeups'
<1> USE DEF shared, history
<1>1. CASE UNCHANGED vars
  BY <1>1 DEF vars, WriterWakeups, At
<1>2. CASE Next
  <2> PICK t \in Threads : Call(t) \/ Step(t) \/ SpuriousWakeup(t)
    BY <1>2 DEF Next
  <2>0. /\ Len(queue) \in Nat /\ maxSize \in Nat
        /\ \A p : N(p) \in Nat /\ N(p)' \in Nat
    BY Counts, CountsNext, LenProperties, LimitsAssumption DEF TypeOK
  <2>1. ASSUME NEW from, NEW to, Goto(t, from, to), from # to,
               from \notin WriterPoints, to \notin WriterPoints,
               UNCHANGED <<queue, done, maxSize>>
        PROVE  WriterWakeups'
    BY <2>1, GotoCounts, WriterQuiet DEF WriterPoints
  <2>2. CASE Call(t)
    <3>1. ASSUME NEW v \in Items, BeginPush(t, v) PROVE WriterWakeups'
      <4>1. /\ Goto(t, "idle", "push")
            /\ UNCHANGED <<queue, done, maxSize>>
        BY <3>1 DEF BeginPush
      <4>2. /\ N("push")' = N("push") + 1
            /\ \A p \in WriterPoints \ {"push"} : At(p)' = At(p) /\ N(p)' = N(p)
        BY <4>1, GotoCounts DEF WriterPoints
      <4> QED BY <2>0, <4>1, <4>2 DEF WriterWakeups, WriterPoints, N
    <3>2. CASE BeginPop(t) \/ BeginResize(t) \/ BeginFinish(t) \/ BeginAwait(t)
      BY <2>1, <3>2
      DEF BeginPop, BeginResize, BeginFinish, BeginAwait, WriterPoints
    <3> QED BY <2>2, <3>1, <3>2 DEF Call
  <2>3. CASE PushWait(t)
    <3>1. /\ maxSize' > 0 /\ Len(queue') >= maxSize' /\ ~done'
          /\ Len(queue') \in Nat /\ maxSize' \in Nat
      BY <2>0, <2>3 DEF PushWait, Full
    <3> QED BY <2>0, <3>1 DEF WriterWakeups, N
  <2>4. CASE PushRefused(t)
    <3>1. /\ Goto(t, "push", "idle") /\ done /\ done'
      BY <2>4 DEF PushRefused, LeavePush
    <3>2. \A p \in WriterPoints \ {"push"} : At(p)' = At(p)
      BY <3>1, GotoCounts DEF WriterPoints
    <3> QED BY <3>1, <3>2 DEF WriterWakeups, WriterPoints
  <2>5. CASE PushEnqueue(t)
    <3>1. /\ Goto(t, "push", "push_notify") /\ UNCHANGED <<done, maxSize>>
          /\ Len(queue') = Len(queue) + 1 /\ ~done
      BY <2>5, AppendProperties DEF PushEnqueue, TypeOK, Goto, PushPoints
    <3>2. /\ N("push")' = N("push") - 1
          /\ \A p \in WriterPoints \ {"push"} : At(p)' = At(p) /\ N(p)' = N(p)
      BY <3>1, GotoCounts DEF WriterPoints
    <3> QED BY <2>0, <3>1, <3>2 DEF WriterWakeups, WriterPoints, N
  <2>6. CASE PushNotify(t)
    <3>1. CASE At("pop_wait") = {}
      BY <2>1, <2>6, <3>1 DEF PushNotify, NotifyOne, Goto, WriterPoints
    <3>2. CASE At("pop_wait") # {}
      BY <2>6, <3>2, NotifyOneCounts, WriterQuiet DEF PushNotify, WriterPoints
    <3> QED BY <3>1, <3>2
  <2>7. CASE PopWait(t) \/ PopEnd(t)
    BY <2>1, <2>7 DEF PopWait, PopEnd, WriterPoints
  <2>8. CASE PopTake(t)
    <3>1. /\ Goto(t, "pop", "pop_notify") /\ UNCHANGED <<done, maxSize>>
          /\ Len(queue') = Len(queue) - 1
      BY <2>8, HeadTailProperties DEF PopTake, TypeOK
    <3>2. /\ N("pop_notify")' = N("pop_notify") + 1
          /\ \A p \in WriterPoints \ {"pop_notify"} :
               At(p)' = At(p) /\ N(p)' = N(p)
      BY <3>1, GotoCounts DEF WriterPoints
    <3> QED BY <2>0, <3>1, <3>2 DEF WriterWakeups, WriterPoints, N
  <2>9. CASE PopNotify(t)
    <3>1. CASE At("push_wait") = {}
      BY <2>9, <3>1 DEF PopNotify, NotifyOne, WriterWakeups, TypeOK, At
    <3>2. CASE At("push_wait") # {}
      <4>1. /\ N("pop_notify")' = N("pop_notify") - 1
            /\ N("push")' = N("push") + 1
            /\ \A p \in {"resize_notify", "finish_readers", "finish_writers"} :
                 At(p)' = At(p)
        BY <2>9, <3>2, NotifyOneCounts DEF PopNotify
      <4>2. UNCHANGED <<queue, done, maxSize>>
        BY <2>9 DEF PopNotify
      <4> QED BY <2>0, <3>2, <4>1, <4>2 DEF WriterWakeups, N
    <3> QED BY <3>1, <3>2
  <2>10. CASE FinishAssert(t) \/ AwaitWait(t) \/ AwaitReturn(t)
    BY <2>1, <2>10 DEF FinishAssert, AwaitWait, AwaitReturn, WriterPoints
  <2>11. CASE Resize(t)
    <3>1. Goto(t, "resize", "resize_notify") /\ done' = done
      BY <2>11 DEF Resize
    <3>2. /\ At("resize_notify")' # {}
          /\ \A p \in WriterPoints \ {"resize_notify"} : At(p)' = At(p)
      BY <3>1, GotoCounts DEF WriterPoints
    <3> QED BY <3>1, <3>2 DEF WriterWakeups, WriterPoints
  <2>12. CASE ResizeNotify(t) \/ FinishNotifyWriters(t)
    <3>1. At("push_wait")' = {}
      BY <2>12, NotifyAllCounts DEF ResizeNotify, FinishNotifyWriters
    <3> QED BY <3>1 DEF WriterWakeups
  <2>13. CASE Finish(t)
    <3>1. Goto(t, "finish", "finish_readers") /\ done'
      BY <2>13 DEF Finish
    <3> QED BY <3>1, GotoCounts DEF WriterWakeups
  <2>14. CASE FinishNotifyReaders(t)
    <3>1. /\ t \in At("finish_writers")'
          /\ N("push")' = N("push") /\ N("pop_notify")' = N("pop_notify")
          /\ \A p \in {"push_wait", "resize_notify"} : At(p)' = At(p)
      BY <2>14, NotifyAllCounts DEF FinishNotifyReaders
    <3>2. UNCHANGED <<queue, done, maxSize>>
      BY <2>14 DEF FinishNotifyReaders
    <3> QED BY <3>1, <3>2 DEF WriterWakeups, N
  <2>15. CASE FinishNotifyWatchers(t)
    BY <2>15, NotifyAllCounts, WriterQuiet
    DEF FinishNotifyWatchers, WriterPoints
  <2>16. CASE SpuriousWakeup(t)
    <3>1. CASE Goto(t, "pop_wait", "pop") \/ Goto(t, "await_wait", "await")
      BY <2>1, <2>16, <3>1 DEF SpuriousWakeup, WriterPoints
    <3>2. CASE Goto(t, "push_wait", "push")
      <4>1. /\ N("push")' = N("push") + 1
            /\ At("push_wait")' = At("push_wait") \ {t}
            /\ \A p \in WriterPoints \ {"push", "push_wait"} :
                 At(p)' = At(p) /\ N(p)' = N(p)
        BY <3>2, GotoCounts DEF WriterPoints
      <4> QED BY <2>0, <2>16, <4>1
              DEF SpuriousWakeup, WriterWakeups, WriterPoints, N
    <3> QED BY <2>16, <3>1, <3>2 DEF SpuriousWakeup
  <2> QED
    BY <2>2, <2>3, <2>4, <2>5, <2>6, <2>7, <2>8, <2>9, <2>10, <2>11, <2>12,
       <2>13, <2>14, <2>15, <2>16 DEF Step, PushThrow, PopThrow
<1> QED BY <1>1, <1>2

-----------------------------------------------------------------------------
(* The watchers do not depend on what T does: a finished queue still has    *)
(* its last notify_all() to send while a watcher sleeps.                    *)
LEMMA WatcherStep ==
  ASSUME TypeOK, WatcherWakeups, [Next]_vars
  PROVE  WatcherWakeups'
<1> USE DEF shared, history, WatcherWakeups, At, TypeOK
<1>1. CASE UNCHANGED vars
  BY <1>1 DEF vars
<1>2. CASE Next
  <2> PICK t \in Threads : Call(t) \/ Step(t) \/ SpuriousWakeup(t)
    BY <1>2 DEF Next
  <2>1. CASE Call(t) \/ SpuriousWakeup(t)
    BY <2>1 DEF Call, BeginPush, BeginPop, BeginResize, BeginFinish,
                BeginAwait, SpuriousWakeup, Goto
  <2>2. CASE \/ PushWait(t) \/ PushRefused(t) \/ PushThrow(t) \/ PushEnqueue(t)
             \/ PopWait(t) \/ PopEnd(t) \/ PopThrow(t) \/ PopTake(t)
    BY <2>2 DEF PushWait, PushRefused, PushThrow, LeavePush, PushEnqueue,
                PopWait, PopEnd, PopThrow, PopTake, Goto
  <2>3. CASE PushNotify(t) \/ PopNotify(t)
    BY <2>3 DEF PushNotify, PopNotify, NotifyOne
  <2>4. CASE Resize(t) \/ ResizeNotify(t) \/ FinishAssert(t)
    BY <2>4 DEF Resize, ResizeNotify, FinishAssert, NotifyAll, Goto
  <2>5. CASE Finish(t)
    BY <2>5 DEF Finish, Goto
  <2>6. CASE \/ FinishNotifyReaders(t) \/ FinishNotifyWriters(t)
             \/ FinishNotifyWatchers(t)
    BY <2>6 DEF FinishNotifyReaders, FinishNotifyWriters,
                FinishNotifyWatchers, NotifyAll
  <2>7. CASE AwaitWait(t) \/ AwaitReturn(t)
    BY <2>7 DEF AwaitWait, AwaitReturn, Goto
  <2> QED BY <2>1, <2>2, <2>3, <2>4, <2>5, <2>6, <2>7 DEF Step
<1> QED BY <1>1, <1>2

-----------------------------------------------------------------------------
LEMMA InitiallyAwake ==
  Init => ReaderWakeups /\ WriterWakeups /\ WatcherWakeups
  BY DEF Init, At, ReaderWakeups, WriterWakeups, WatcherWakeups

(* No lost wakeup for readers: when T does not throw, the notify_one() of   *)
(* push(), outside the lock, and the notify_all() of finish() suffice       *)
(* (work_queue.h:62, 78-80, 113).                                           *)
THEOREM ReadersWoken == ASSUME ~MayThrow PROVE Spec => []ReaderWakeups
<1>1. TypeOK /\ ReaderWakeups /\ [Next]_vars => ReaderWakeups'
  BY ReaderStep
<1> QED BY <1>1, InitiallyAwake, TypeCorrect, PTL DEF Spec

(* No lost wakeup for writers: when T does not throw, the notify_one() of   *)
(* pop() and the notify_all() of setMaxSize() and finish() suffice          *)
(* (work_queue.h:54-56, 88, 98, 114).                                       *)
THEOREM WritersWoken == ASSUME ~MayThrow PROVE Spec => []WriterWakeups
<1>1. TypeOK /\ WriterWakeups /\ [Next]_vars => WriterWakeups'
  BY WriterStep
<1> QED BY <1>1, InitiallyAwake, TypeCorrect, PTL DEF Spec

(* waitUntilFinished() never sleeps through finish(), whatever T does       *)
(* (work_queue.h:115, 119-124).                                             *)
THEOREM WatchersWoken == Spec => []WatcherWakeups
<1>1. TypeOK /\ WatcherWakeups /\ [Next]_vars => WatcherWakeups'
  BY WatcherStep
<1> QED BY <1>1, InitiallyAwake, TypeCorrect, PTL DEF Spec

-----------------------------------------------------------------------------
(* WorkQueue implements QueueContract. *)

Stage == [t \in Threads |-> StageOf(pc[t])]

(* The contract's stages, one point at a time. *)
LEMMA Stages ==
  /\ \A p \in {"push", "push_wait"} : StageOf(p) = "push"
  /\ \A p \in {"pop", "pop_wait"} : StageOf(p) = "pop"
  /\ \A p \in {"await", "await_wait"} : StageOf(p) = "await"
  /\ \A p \in {"idle", "aborted", "resize", "finish"} : StageOf(p) = p
  /\ \A p \in {"push_notify", "pop_notify", "resize_notify", "finish_readers",
               "finish_writers", "finish_watchers"} : StageOf(p) = "return"
  BY DEF StageOf

LEMMA AbortedStage == \A p \in Points : StageOf(p) = "aborted" <=> p = "aborted"
  BY DEF StageOf, Points, PushPoints, PopPoints, ResizePoints, FinishPoints,
         AwaitPoints

(* A thread that goes from one point to another moves between their stages. *)
LEMMA GotoMoves ==
  ASSUME TypeOK, NEW t \in Threads, NEW from, NEW to, Goto(t, from, to)
  PROVE  /\ Stage[t] = StageOf(from)
         /\ Stage' = [Stage EXCEPT ![t] = StageOf(to)]
  BY DEF TypeOK, Goto, Stage

(* A notification moves nobody but its sender: a woken-up thread is still   *)
(* in the method it called.                                                 *)
LEMMA NotifyOneMoves ==
  ASSUME TypeOK, NEW t \in Threads, NEW from, NEW waiting, NEW awake,
         NotifyOne(t, from, waiting, awake),
         from # waiting, StageOf(waiting) = StageOf(awake)
  PROVE  /\ Stage[t] = StageOf(from)
         /\ Stage' = [Stage EXCEPT ![t] = StageOf("idle")]
  BY DEF TypeOK, NotifyOne, At, Stage

LEMMA NotifyAllMoves ==
  ASSUME TypeOK, NEW t \in Threads, NEW from, NEW waiting, NEW awake, NEW to,
         NotifyAll(t, from, waiting, awake, to),
         from # waiting, StageOf(waiting) = StageOf(awake)
  PROVE  /\ Stage[t] = StageOf(from)
         /\ Stage' = [Stage EXCEPT ![t] = StageOf(to)]
  BY DEF TypeOK, NotifyAll, Stage

(* A thread without an item on its way in or out holds none.                *)
EmptyHanded ==
  \A t \in Threads :
    pc[t] \notin PushPoints \cup {"pop_notify"} => item[t] = NoItem

LEMMA EmptyHandedStep ==
  ASSUME TypeOK, EmptyHanded, [Next]_vars
  PROVE  EmptyHanded'
<1> USE DEF TypeOK, EmptyHanded, PushPoints, shared, history, Goto
<1>1. CASE UNCHANGED vars
  BY <1>1 DEF vars
<1>2. CASE Next
  <2> PICK t \in Threads : Call(t) \/ Step(t) \/ SpuriousWakeup(t)
    BY <1>2 DEF Next
  <2>1. CASE Call(t) \/ SpuriousWakeup(t)
    BY <2>1 DEF Call, SpuriousWakeup, BeginPush, BeginPop, BeginResize,
                BeginFinish, BeginAwait
  <2>2. CASE PushWait(t) \/ PushRefused(t) \/ PushThrow(t) \/ PushEnqueue(t)
    BY <2>2 DEF PushWait, PushRefused, PushThrow, LeavePush, PushEnqueue
  <2>3. CASE PopWait(t) \/ PopEnd(t) \/ PopThrow(t) \/ PopTake(t)
    BY <2>3 DEF PopWait, PopEnd, PopThrow, PopTake
  <2>4. CASE PushNotify(t) \/ PopNotify(t)
    BY <2>4 DEF PushNotify, PopNotify, NotifyOne, At
  <2>5. CASE Resize(t) \/ ResizeNotify(t) \/ FinishAssert(t) \/ Finish(t)
    BY <2>5 DEF Resize, ResizeNotify, FinishAssert, Finish, NotifyAll
  <2>6. CASE \/ FinishNotifyReaders(t) \/ FinishNotifyWriters(t)
             \/ FinishNotifyWatchers(t)
    BY <2>6 DEF FinishNotifyReaders, FinishNotifyWriters,
                FinishNotifyWatchers, NotifyAll
  <2>7. CASE AwaitWait(t) \/ AwaitReturn(t)
    BY <2>7 DEF AwaitWait, AwaitReturn
  <2> QED BY <2>1, <2>2, <2>3, <2>4, <2>5, <2>6, <2>7 DEF Step
<1> QED BY <1>1, <1>2

LEMMA InitMaps == Init => Contract!Init
  BY Stages DEF Init, Contract!Init, Contract!Threads, Threads

LEMMA StepMaps ==
  ASSUME TypeOK, EmptyHanded, [Next]_vars
  PROVE  [Contract!Next]_Contract!vars
<1> USE DEF shared, history
<1>0. Contract!Threads = Threads
  BY DEF Contract!Threads, Threads
<1>1. CASE UNCHANGED vars
  BY <1>1 DEF vars, Contract!vars
<1>2. CASE Next
  <2> PICK t \in Threads : Call(t) \/ Step(t) \/ SpuriousWakeup(t)
    BY <1>2 DEF Next
  <2>1. Contract!Alive
    BY <1>0, <1>2, AbortedStage DEF Next, Alive, At, TypeOK, Contract!Alive
  <2>2. CASE Call(t)
    <3>0. ASSUME NEW to \in {"push", "pop", "resize", "finish", "await"},
                 Goto(t, "idle", to)
          PROVE  Contract!Move(t, "idle", to)
      BY <3>0, GotoMoves, Stages DEF Contract!Move, Stage
    <3>1. ASSUME NEW v \in Items, BeginPush(t, v) PROVE Contract!Call(t)
      <4>1. Contract!Move(t, "idle", "push")
        BY <3>0, <3>1 DEF BeginPush
      <4> QED BY <3>1, <4>1 DEF BeginPush, Contract!Call
    <3>2. ASSUME BeginPop(t) PROVE Contract!Call(t)
      <4>1. Contract!Move(t, "idle", "pop")
        BY <3>0, <3>2 DEF BeginPop
      <4> QED BY <3>2, <4>1 DEF BeginPop, Contract!Call
    <3>3. ASSUME BeginResize(t) PROVE Contract!Call(t)
      <4>1. Contract!Move(t, "idle", "resize")
        BY <3>0, <3>3 DEF BeginResize
      <4> QED BY <3>3, <4>1 DEF BeginResize, Contract!Call
    <3>4. ASSUME BeginFinish(t) PROVE Contract!Call(t)
      <4>1. Contract!Move(t, "idle", "finish")
        BY <3>0, <3>4 DEF BeginFinish
      <4> QED BY <3>4, <4>1 DEF BeginFinish, Contract!Call
    <3>5. ASSUME BeginAwait(t) PROVE Contract!Call(t)
      <4>1. Contract!Move(t, "idle", "await")
        BY <3>0, <3>5 DEF BeginAwait
      <4> QED BY <3>5, <4>1 DEF BeginAwait, Contract!Call
    <3>6. Contract!Call(t)
      BY <2>2, <3>1, <3>2, <3>3, <3>4, <3>5 DEF Call
    <3> QED BY <1>0, <2>1, <3>6 DEF Contract!Next
  <2>3. CASE PushRefused(t)
    <3>1. Contract!Refuse(t)
      BY <2>3, GotoMoves, Stages
      DEF PushRefused, LeavePush, Contract!Refuse, Contract!Move, Stage
    <3> QED BY <1>0, <2>1, <3>1 DEF Contract!Next
  <2>4. CASE PushThrow(t) \/ PopThrow(t)
    <3>1. Contract!Throw(t)
      BY <2>4, GotoMoves, Stages
      DEF PushThrow, LeavePush, PopThrow, Full, Contract!Throw,
          Contract!CanPut, Contract!CanTake, Contract!Full, Stage
    <3> QED BY <1>0, <2>1, <3>1 DEF Contract!Next
  <2>5. CASE PushEnqueue(t)
    <3>1. Contract!Put(t)
      BY <2>5, GotoMoves, Stages
      DEF PushEnqueue, Full, Contract!Put, Contract!CanPut, Contract!Full,
          Contract!Move, Stage
    <3> QED BY <1>0, <2>1, <3>1 DEF Contract!Next
  <2>6. CASE PopEnd(t)
    <3>1. Contract!End(t)
      BY <2>6, GotoMoves, Stages DEF PopEnd, Contract!End, Contract!Move, Stage
    <3> QED BY <1>0, <2>1, <3>1 DEF Contract!Next
  <2>7. CASE PopTake(t)
    <3>1. Contract!Take(t)
      BY <2>7, GotoMoves, Stages
      DEF PopTake, Contract!Take, Contract!CanTake, Contract!Move, Stage
    <3> QED BY <1>0, <2>1, <3>1 DEF Contract!Next
  <2>8. CASE PushNotify(t) \/ PopNotify(t)
    <3>1. Contract!Return(t)
      BY <2>8, NotifyOneMoves, Stages
      DEF PushNotify, PopNotify, Contract!Return, Contract!Move, Stage
    <3> QED BY <1>0, <2>1, <3>1 DEF Contract!Next
  <2>9. CASE Resize(t)
    <3>1. Contract!Resize(t)
      BY <2>9, GotoMoves, Stages
      DEF Resize, Contract!Resize, Contract!Move, Stage
    <3> QED BY <1>0, <2>1, <3>1 DEF Contract!Next
  <2>10. CASE Finish(t)
    <3>1. Contract!Finish(t)
      BY <2>10, GotoMoves, Stages
      DEF Finish, Contract!Finish, Contract!Move, Stage
    <3> QED BY <1>0, <2>1, <3>1 DEF Contract!Next
  <2>11. CASE FinishAssert(t)
    <3>1. Contract!Abort(t)
      BY <2>11, GotoMoves, Stages
      DEF FinishAssert, Contract!Abort, Contract!Move, Stage
    <3> QED BY <1>0, <2>1, <3>1 DEF Contract!Next
  <2>12. CASE AwaitReturn(t)
    <3>1. Contract!Await(t)
      BY <2>12, GotoMoves, Stages
      DEF AwaitReturn, Contract!Await, Contract!Move, Stage
    <3> QED BY <1>0, <2>1, <3>1 DEF Contract!Next
  <2>13. CASE ResizeNotify(t) \/ FinishNotifyWatchers(t)
    <3>1. item' = [item EXCEPT ![t] = NoItem]
      BY <2>13 DEF ResizeNotify, FinishNotifyWatchers, NotifyAll, EmptyHanded,
                   TypeOK, PushPoints
    <3>2. Contract!Return(t)
      BY <2>13, <3>1, NotifyAllMoves, Stages
      DEF ResizeNotify, FinishNotifyWatchers, Contract!Return, Contract!Move,
          Stage
    <3> QED BY <1>0, <2>1, <3>2 DEF Contract!Next
  <2>14. CASE \/ PushWait(t) \/ PopWait(t) \/ AwaitWait(t) \/ SpuriousWakeup(t)
    <3>1. Stage' = [Stage EXCEPT ![t] = Stage[t]]
      BY <2>14, GotoMoves, Stages
      DEF PushWait, PopWait, AwaitWait, SpuriousWakeup
    <3>2. UNCHANGED Contract!vars
      BY <2>14, <3>1
      DEF PushWait, PopWait, AwaitWait, SpuriousWakeup, Contract!vars, Stage
    <3> QED BY <3>2
  <2>15. CASE FinishNotifyReaders(t) \/ FinishNotifyWriters(t)
    <3>1. Stage' = [Stage EXCEPT ![t] = Stage[t]]
      BY <2>15, NotifyAllMoves, Stages
      DEF FinishNotifyReaders, FinishNotifyWriters
    <3>2. UNCHANGED Contract!vars
      BY <2>15, <3>1
      DEF FinishNotifyReaders, FinishNotifyWriters, Contract!vars, Stage
    <3> QED BY <3>2
  <2> QED
    BY <2>2, <2>3, <2>4, <2>5, <2>6, <2>7, <2>8, <2>9, <2>10, <2>11, <2>12,
       <2>13, <2>14, <2>15 DEF Step
<1> QED BY <1>1, <1>2

(* Every method of WorkQueue takes effect at one instant between its call   *)
(* and its return: at the step that ends its critical section               *)
(* (work_queue.h:51-124).                                                   *)
THEOREM Implementation == Spec => ImplementsContract
<1>1. Init => EmptyHanded
  BY DEF Init, EmptyHanded
<1>2. TypeOK /\ EmptyHanded /\ [Next]_vars => EmptyHanded'
  BY EmptyHandedStep
<1>3. TypeOK /\ EmptyHanded /\ [Next]_vars => [Contract!Next]_Contract!vars
  BY StepMaps
<1> QED
  BY <1>1, <1>2, <1>3, InitMaps, TypeCorrect, PTL
  DEF Spec, ImplementsContract, Contract!Spec

-----------------------------------------------------------------------------
(* BatchWorkQueue: the elements in a sequence of buffers. *)

LEMMA WeightIsInteger ==
  ASSUME NEW s \in Seq(Items)
  PROVE  WeightOf(s) \in Int
<1> DEFINE f == [i \in DOMAIN s |-> Weight[s[i]]]
<1>1. IsFiniteSet(DOMAIN s) /\ \A i \in DOMAIN s : f[i] \in Int
  BY LenProperties, FS_Interval, WeightAssumption
<1> HIDE DEF f
<1>2. SumFunctionOnSet(f, DOMAIN s) \in Int
  BY <1>1, SumType
<1> QED BY <1>2 DEF WeightOf, f

(* A buffer that is queued adds its elements. *)
LEMMA WeightAppended ==
  ASSUME NEW s \in Seq(Items), NEW v \in Items
  PROVE  WeightOf(Append(s, v)) = WeightOf(s) + Weight[v]
<1> DEFINE n == Len(s)
           a == Append(s, v)
           f == [i \in DOMAIN s |-> Weight[s[i]]]
           e == [i \in DOMAIN a |-> Weight[a[i]]]
<1>1. /\ n \in Nat /\ DOMAIN s = 1 .. n /\ DOMAIN a = 1 .. n + 1
      /\ \A i \in 1 .. n : a[i] = s[i] /\ s[i] \in Items
      /\ a[n + 1] = v
  BY AppendProperties, LenProperties, ElementOfSeq
<1> HIDE DEF n, a
<1>2. /\ \A i \in 1 .. n : f[i] \in Int /\ e[i] = f[i]
      /\ e[n + 1] = Weight[v] /\ Weight[v] \in Int
  <2>1. \A i \in 1 .. n : i \in 1 .. n + 1
    BY <1>1
  <2>2. n + 1 \in 1 .. n + 1
    BY <1>1
  <2> QED BY <1>1, <2>1, <2>2, WeightAssumption
<1>3. /\ WeightOf(s) = SumFunctionOnSet(f, 1 .. n)
      /\ WeightOf(a) = SumFunctionOnSet(e, 1 .. n + 1)
  BY <1>1 DEF WeightOf
<1> HIDE DEF f, e
<1>4. SumFunctionOnSet(e, 1 .. n + 1) = SumFunctionOnSet(f, 1 .. n) + e[n + 1]
  BY <1>1, <1>2, SumAppend, ZenonT(30)
<1> QED BY <1>2, <1>3, <1>4 DEF a

(* A buffer that is taken from the front subtracts them. *)
LEMMA WeightTaken ==
  ASSUME NEW s \in Seq(Items), s # <<>>
  PROVE  WeightOf(Tail(s)) = WeightOf(s) - Weight[Head(s)]
<1> DEFINE t == Tail(s)
           n == Len(t)
           f == [i \in DOMAIN s |-> Weight[s[i]]]
           e == [i \in DOMAIN t |-> Weight[t[i]]]
<1>1. /\ n \in Nat /\ DOMAIN s = 1 .. n + 1 /\ DOMAIN t = 1 .. n
      /\ \A i \in 1 .. n : t[i] = s[i + 1]
      /\ \A i \in 1 .. n + 1 : s[i] \in Items
      /\ Head(s) = s[1] /\ Head(s) \in Items
  BY HeadTailProperties, LenProperties, ElementOfSeq, EmptySeq
<1> HIDE DEF n, t
<1>2. /\ \A i \in 1 .. n + 1 : f[i] \in Int
      /\ \A i \in 1 .. n : e[i] = f[i + 1]
      /\ f[1] = Weight[Head(s)]
  <2>1. \A i \in 1 .. n : i + 1 \in 1 .. n + 1
    BY <1>1
  <2>2. 1 \in 1 .. n + 1
    BY <1>1
  <2> QED BY <1>1, <2>1, <2>2, WeightAssumption
<1>3. /\ WeightOf(s) = SumFunctionOnSet(f, 1 .. n + 1)
      /\ WeightOf(t) = SumFunctionOnSet(e, 1 .. n)
  BY <1>1 DEF WeightOf
<1>4. t \in Seq(Items) /\ WeightOf(t) \in Int
  BY HeadTailProperties, WeightIsInteger DEF t
<1> HIDE DEF f, e
<1>5. SumFunctionOnSet(f, 1 .. n + 1) = SumFunctionOnSet(e, 1 .. n) + f[1]
  BY <1>1, <1>2, SumTail
<1>6. WeightOf(s) = WeightOf(t) + Weight[Head(s)] /\ Weight[Head(s)] \in Int
  BY <1>1, <1>2, <1>3, <1>5, WeightAssumption
<1> QED BY <1>4, <1>6 DEF t

-----------------------------------------------------------------------------
(* The balance. *)

(* Only a thread that has returned from the inner call has something to     *)
(* settle.                                                                  *)
BatchTypeOK ==
  /\ size \in Int /\ due \in [Threads -> Int]
  /\ \A t \in Threads : due[t] # 0 => pc[t] = "idle"
  /\ \A t \in Threads : pc[t] = "pop_notify" => item[t] \in Items

(* CountBalances without remainders: up to a multiple of Word. *)
Balance == \E k \in Int : size + InFlight = WeightOf(queue) + k * Word

BatchInv == TypeOK /\ BatchTypeOK /\ Balance

LEMMA OwedIs ==
  ASSUME NEW t \in Threads
  PROVE  Owed(t) = IF pc[t] = "push_notify" THEN Weight[item[t]]
                   ELSE IF pc[t] = "pop_notify" THEN - Weight[item[t]] ELSE 0
BY DEF Owed

LEMMA OwedIsInteger ==
  ASSUME TypeOK, BatchTypeOK, NEW t \in Threads
  PROVE  Owed(t) \in Int /\ due[t] + Owed(t) \in Int
<1>1. pc[t] \in {"push_notify", "pop_notify"} => item[t] \in Items
  BY DEF TypeOK, BatchTypeOK, PushPoints
<1>2. Owed(t) \in Int
  BY <1>1, OwedIs, WeightAssumption
<1> QED BY <1>2 DEF BatchTypeOK

LEMMA InFlightIsInteger ==
  ASSUME TypeOK, BatchTypeOK
  PROVE  InFlight \in Int
<1> DEFINE f == [t \in Threads |-> due[t] + Owed(t)]
<1>1. \A t \in Threads : f[t] \in Int
  BY OwedIsInteger
<1> HIDE DEF f
<1>2. SumFunctionOnSet(f, Threads) \in Int
  BY <1>1, SumType, ThreadsAssumption
<1> QED BY <1>2 DEF InFlight, f

(* A step of thread t changes what t has in flight and nobody else's. *)
LEMMA FlightChange ==
  ASSUME TypeOK, BatchTypeOK, TypeOK', BatchTypeOK', NEW t \in Threads,
         \A u \in Threads : u # t => due'[u] + Owed(u)' = due[u] + Owed(u)
  PROVE  InFlight' = InFlight - (due[t] + Owed(t)) + (due'[t] + Owed(t)')
<1> DEFINE old == [u \in Threads |-> due[u] + Owed(u)]
           new == [u \in Threads |-> due'[u] + Owed(u)']
<1>1. ASSUME NEW u \in Threads PROVE old[u] \in Int
  BY OwedIsInteger
<1>2. ASSUME NEW u \in Threads PROVE due'[u] + Owed(u)' \in Int
  <2>1. pc'[u] \in {"push_notify", "pop_notify"} => item'[u] \in Items
    BY DEF TypeOK, BatchTypeOK, PushPoints
  <2>2. Owed(u)' \in Int
    BY <2>1, WeightAssumption DEF Owed
  <2> QED BY <2>2 DEF BatchTypeOK
<1>3. \A u \in Threads : old[u] \in Int /\ new[u] \in Int
  BY <1>1, <1>2
<1>4. \A u \in Threads : u # t => old[u] = new[u]
  OBVIOUS
<1>5. old[t] = due[t] + Owed(t) /\ new[t] = due'[t] + Owed(t)'
  OBVIOUS
<1>6. InFlight = SumFunctionOnSet(old, Threads) /\ InFlight' = SumFunctionOnSet(new, Threads)
  BY DEF InFlight
<1> HIDE DEF old, new
<1>7. SumFunctionOnSet(new, Threads) = SumFunctionOnSet(old, Threads) - old[t] + new[t]
  <2>1. IsFiniteSet(Threads) /\ t \in Threads
    BY ThreadsAssumption
  <2> QED BY <1>3, <1>4, <2>1, SumChange
<1> QED BY <1>5, <1>6, <1>7

(* What a step of the inner queue makes its thread owe is what it does to   *)
(* the queue.                                                               *)
LEMMA StepOwes ==
  ASSUME TypeOK, BatchTypeOK, NEW t \in Threads, Step(t)
  PROVE  /\ Owed(t)' \in Int
         /\ WeightOf(queue') = WeightOf(queue) + Owed(t)'
         /\ Owed(t) # 0 => pc'[t] = "idle"
         /\ pc[t] # "idle"
<1> USE DEF TypeOK, shared, history, Goto, NotifyAll
<1>0. WeightOf(queue) \in Int
  BY WeightIsInteger
<1>1. CASE PushEnqueue(t)
  <2>1. /\ pc[t] = "push" /\ pc'[t] = "push_notify"
        /\ item'[t] = item[t] /\ item[t] \in Items
        /\ queue' = Append(queue, item[t])
    BY <1>1 DEF PushEnqueue, PushPoints
  <2>2. Owed(t)' = Weight[item[t]] /\ Owed(t) = 0 /\ Weight[item[t]] \in Int
    BY <2>1, WeightAssumption DEF Owed
  <2> QED BY <2>1, <2>2, WeightAppended
<1>2. CASE PopTake(t)
  <2>1. /\ pc[t] = "pop" /\ pc'[t] = "pop_notify"
        /\ item'[t] = Head(queue) /\ Head(queue) \in Items
        /\ queue' = Tail(queue) /\ queue # <<>>
    BY <1>2, HeadTailProperties DEF PopTake
  <2>2. Owed(t)' = - Weight[Head(queue)] /\ Owed(t) = 0
        /\ Weight[Head(queue)] \in Int
    BY <2>1, WeightAssumption DEF Owed
  <2>3. WeightOf(queue') = WeightOf(queue) - Weight[Head(queue)]
    BY <2>1, WeightTaken
  <2> QED BY <1>0, <2>1, <2>2, <2>3
<1>3. CASE PushNotify(t) \/ PopNotify(t)
  <2>1. pc'[t] = "idle" /\ queue' = queue /\ pc[t] # "idle"
    BY <1>3 DEF PushNotify, PopNotify, NotifyOne, At
  <2>2. Owed(t)' = 0
    BY <2>1 DEF Owed
  <2> QED BY <1>0, <2>1, <2>2
<1>4. CASE \/ PushWait(t) \/ PushRefused(t) \/ PushThrow(t)
           \/ PopWait(t) \/ PopEnd(t) \/ PopThrow(t)
           \/ Resize(t) \/ ResizeNotify(t) \/ FinishAssert(t) \/ Finish(t)
           \/ FinishNotifyReaders(t) \/ FinishNotifyWriters(t)
           \/ FinishNotifyWatchers(t) \/ AwaitWait(t) \/ AwaitReturn(t)
  <2>1. /\ pc[t] \notin {"idle", "push_notify", "pop_notify"}
        /\ pc'[t] \notin {"push_notify", "pop_notify"}
        /\ queue' = queue
    BY <1>4 DEF PushWait, PushRefused, PushThrow, LeavePush, PopWait, PopEnd,
       PopThrow, Resize, ResizeNotify, FinishAssert, Finish,
       FinishNotifyReaders, FinishNotifyWriters, FinishNotifyWatchers,
       AwaitWait, AwaitReturn
  <2>2. Owed(t)' = 0 /\ Owed(t) = 0
    BY <2>1 DEF Owed
  <2> QED BY <1>0, <2>1, <2>2
<1> QED BY <1>1, <1>2, <1>3, <1>4 DEF Step

(* The others owe what they owed. *)
LEMMA OthersOwe ==
  ASSUME TypeOK, NEW t \in Threads, Step(t), NEW u \in Threads, u # t
  PROVE  /\ Owed(u)' = Owed(u)
         /\ pc[u] = "idle" => pc'[u] = "idle"
         /\ pc'[u] = "pop_notify" => pc[u] = "pop_notify" /\ item'[u] = item[u]
BY StepMoves DEF Wakes, Owed

LEMMA BatchStepBalances ==
  ASSUME BatchInv, TypeOK', NEW t \in Threads, BatchStep(t)
  PROVE  BatchTypeOK' /\ Balance'
<1> USE DEF BatchInv
<1>0. /\ Step(t) /\ size' = size /\ Owed(t) \in Int
      /\ due' = [due EXCEPT ![t] = Owed(t)]
  BY OwedIsInteger DEF BatchStep
<1>1. due[t] = 0 /\ due'[t] = Owed(t)
  BY <1>0, StepOwes DEF BatchTypeOK
<1>2. ASSUME NEW u \in Threads, u # t
      PROVE  due'[u] = due[u] /\ Owed(u)' = Owed(u)
  BY <1>0, <1>2, OthersOwe DEF BatchTypeOK
<1>3. BatchTypeOK'
  <2>1. size' \in Int /\ due' \in [Threads -> Int]
    BY <1>0 DEF BatchTypeOK
  <2>2. ASSUME NEW u \in Threads
        PROVE  /\ due'[u] # 0 => pc'[u] = "idle"
               /\ pc'[u] = "pop_notify" => item'[u] \in Items
    <3>1. CASE u = t
      BY <1>0, <1>1, <3>1, StepOwes, StepMoves
    <3>2. CASE u # t
      BY <1>0, <1>2, <3>2, OthersOwe DEF BatchTypeOK
    <3> QED BY <3>1, <3>2
  <2> QED BY <2>1, <2>2 DEF BatchTypeOK
<1>4. InFlight' = InFlight - (due[t] + Owed(t)) + (due'[t] + Owed(t)')
  BY <1>2, <1>3, FlightChange
<1>5. Owed(t)' \in Int /\ WeightOf(queue') = WeightOf(queue) + Owed(t)'
  BY <1>0, StepOwes
<1>6. InFlight \in Int /\ WeightOf(queue) \in Int
  BY InFlightIsInteger, WeightIsInteger DEF TypeOK
<1>7. PICK k \in Int : size + InFlight = WeightOf(queue) + k * Word
  BY DEF Balance
<1>8. size' + InFlight' = WeightOf(queue') + k * Word
  <2>1. InFlight' = InFlight + Owed(t)'
    BY <1>0, <1>1, <1>4, <1>5, <1>6
  <2>2. k * Word \in Int /\ size \in Int
    BY WordAssumption DEF BatchTypeOK
  <2> HIDE DEF BatchInv
  <2> QED BY <1>0, <1>5, <1>6, <1>7, <2>1, <2>2
<1>9. WeightOf(queue)' = WeightOf(queue')
  BY DEF WeightOf
<1> QED BY <1>3, <1>8, <1>9 DEF Balance

(* Steps that leave the queue and everything in flight alone. *)
LEMMA BatchQuiet ==
  ASSUME BatchInv, UNCHANGED <<queue, size, due>>,
         \A u \in Threads :
           /\ due[u] # 0 => pc'[u] = pc[u]
           /\ pc'[u] \in {"push_notify", "pop_notify"}
                \/ pc[u] \in {"push_notify", "pop_notify"}
              => pc'[u] = pc[u] /\ item'[u] = item[u]
  PROVE  BatchTypeOK' /\ Balance'
<1> USE DEF BatchInv
<1>1. BatchTypeOK'
  BY DEF BatchTypeOK
<1>2. \A u \in Threads : Owed(u)' = Owed(u)
  BY DEF Owed
<1>3. InFlight' = InFlight
  BY <1>2 DEF InFlight
<1>4. WeightOf(queue)' = WeightOf(queue)
  BY DEF WeightOf
<1> QED BY <1>1, <1>3, <1>4 DEF Balance

LEMMA SettleBalances ==
  ASSUME BatchInv, TypeOK', NEW t \in Threads, Settle(t)
  PROVE  BatchTypeOK' /\ Balance'
<1> USE DEF BatchInv
<1>0. /\ size \in Int /\ due[t] \in Int /\ UNCHANGED <<queue, pc, item>>
      /\ size' = (size + due[t]) % Word
      /\ due' = [due EXCEPT ![t] = 0] /\ due'[t] = 0
      /\ Word \in Nat \ {0}
  BY WordAssumption DEF Settle, BatchTypeOK, vars
<1> DEFINE q == (size + due[t]) \div Word
<1>1. q \in Int /\ size' \in Int /\ size + due[t] = q * Word + size'
  <2> DEFINE sum == size + due[t]
             quo == sum \div Word
             rem == sum % Word
  <2>1. sum \in Int /\ Word \in Nat \ {0}
    BY <1>0
  <2> HIDE DEF sum
  <2>2. quo \in Int /\ rem \in 0 .. Word - 1 /\ sum = quo * Word + rem
    BY <2>1, DivisionLaw
  <2>3. rem \in Int
    <3> HIDE DEF rem
    <3> QED BY <2>1, <2>2
  <2>4. size' = rem /\ q = quo
    BY <1>0 DEF sum
  <2> HIDE DEF quo, rem, q
  <2> QED BY <2>2, <2>3, <2>4 DEF sum
<1> HIDE DEF q
<1>2. BatchTypeOK'
  BY <1>0, <1>1 DEF BatchTypeOK
<1>3. \A u \in Threads : Owed(u)' = Owed(u)
  BY <1>0 DEF Owed
<1>4. ASSUME NEW u \in Threads, u # t
      PROVE  due'[u] + Owed(u)' = due[u] + Owed(u)
  BY <1>0, <1>3, <1>4 DEF BatchTypeOK
<1>5. InFlight' = InFlight - (due[t] + Owed(t)) + (due'[t] + Owed(t)')
  BY <1>2, <1>4, FlightChange
<1>6. InFlight \in Int /\ WeightOf(queue) \in Int /\ Owed(t) \in Int
  BY InFlightIsInteger, WeightIsInteger, OwedIsInteger DEF TypeOK
<1>7. InFlight' = InFlight - due[t]
  BY <1>0, <1>3, <1>5, <1>6
<1>8. PICK k \in Int : size + InFlight = WeightOf(queue) + k * Word
  BY DEF Balance
<1>9. size' + InFlight' = WeightOf(queue) + (k - q) * Word
  <2>1. (k - q) * Word = k * Word - q * Word /\ k * Word \in Int /\ q * Word \in Int
    BY <1>0, <1>1
  <2> HIDE DEF BatchInv
  <2> QED BY <1>0, <1>1, <1>6, <1>7, <1>8, <2>1
<1>10. k - q \in Int /\ WeightOf(queue)' = WeightOf(queue)
  BY <1>0, <1>1 DEF WeightOf
<1> QED BY <1>2, <1>9, <1>10 DEF Balance

(* The inner queue makes the steps of a WorkQueue. *)
LEMMA InnerStep == [BatchNext]_batchVars => [Next]_vars
BY DEF BatchNext, batchVars, BatchCall, BatchStep, Settle, Next

LEMMA BatchInvStep == BatchInv /\ [BatchNext]_batchVars => BatchInv'
<1> SUFFICES ASSUME BatchInv, [BatchNext]_batchVars PROVE BatchInv'
  OBVIOUS
<1>1. TypeOK'
  BY InnerStep, TypeStep DEF BatchInv
<1>2. ASSUME NEW t \in Threads, BatchStep(t) PROVE BatchInv'
  BY <1>1, <1>2, BatchStepBalances DEF BatchInv
<1>3. ASSUME NEW t \in Threads, Settle(t) PROVE BatchInv'
  BY <1>1, <1>3, SettleBalances DEF BatchInv
<1>4. ASSUME NEW t \in Threads, BatchCall(t) PROVE BatchInv'
  <2>1. /\ UNCHANGED <<queue, size, due>> /\ due[t] = 0 /\ pc[t] = "idle"
        /\ \E to \in {"push", "pop", "resize", "finish", "await"} :
             pc' = [pc EXCEPT ![t] = to]
        /\ \A u \in Threads : u # t => item'[u] = item[u]
    BY <1>4 DEF BatchCall, Call, BeginPush, BeginPop, BeginResize, BeginFinish,
                BeginAwait, Goto, shared, BatchInv, TypeOK
  <2>2. BatchTypeOK' /\ Balance'
    BY <2>1, BatchQuiet DEF BatchInv, TypeOK
  <2> QED BY <1>1, <2>2 DEF BatchInv
<1>5. ASSUME NEW t \in Threads, SpuriousWakeup(t), UNCHANGED <<size, due>>
      PROVE  BatchInv'
  <2>1. BatchTypeOK' /\ Balance'
    BY <1>5, BatchQuiet
    DEF SpuriousWakeup, Goto, shared, BatchInv, BatchTypeOK, TypeOK
  <2> QED BY <1>1, <2>1 DEF BatchInv
<1>6. CASE UNCHANGED batchVars
  <2>1. BatchTypeOK' /\ Balance'
    BY <1>6, BatchQuiet DEF batchVars, vars
  <2> QED BY <1>1, <2>1 DEF BatchInv
<1> QED BY <1>2, <1>3, <1>4, <1>5, <1>6 DEF BatchNext

(* Initially there is nothing to count. *)
LEMMA BatchInvInit == BatchInit => BatchInv
<1> SUFFICES ASSUME BatchInit PROVE BatchInv
  OBVIOUS
<1>1. TypeOK
  BY TypeInit DEF BatchInit
<1>2. /\ size = 0 /\ queue = <<>>
      /\ \A t \in Threads : due[t] = 0 /\ pc[t] = "idle"
  BY DEF BatchInit, Init
<1>3. BatchTypeOK
  BY <1>2 DEF BatchTypeOK, BatchInit
<1>4. InFlight = 0
  <2> DEFINE flight == [t \in Threads |-> due[t] + Owed(t)]
  <2>1. \A t \in Threads : flight[t] = 0
    BY <1>2 DEF Owed
  <2> HIDE DEF flight
  <2>2. SumFunctionOnSet(flight, Threads) = 0
    BY <2>1, SumZero, ThreadsAssumption
  <2> QED BY <2>2 DEF InFlight, flight
<1>5. WeightOf(queue) = 0
  <2>1. DOMAIN queue = {}
    BY <1>2, LenProperties, EmptySeq
  <2> QED BY <2>1, SumEmpty DEF WeightOf
<1>6. size + InFlight = WeightOf(queue) + 0 * Word
  BY <1>2, <1>4, <1>5, WordAssumption
<1> QED BY <1>1, <1>3, <1>6 DEF BatchInv, Balance

LEMMA BalanceCounts == BatchInv => CountBalances
<1> SUFFICES ASSUME BatchInv PROVE CountBalances
  OBVIOUS
<1> DEFINE counted == size + InFlight
           queued == WeightOf(queue)
<1>1. counted \in Int /\ queued \in Int
  BY InFlightIsInteger, WeightIsInteger DEF BatchInv, BatchTypeOK, TypeOK
<1>2. PICK k \in Int : counted = queued + k * Word
  BY DEF BatchInv, Balance
<1> DEFINE word == Word
<1>3. word \in Nat \ {0} /\ k \in Int /\ counted = queued + k * word
  BY <1>2, WordAssumption
<1> HIDE DEF counted, queued, word
<1>4. counted % word = queued % word
  BY ONLY <1>1, <1>3, SameRemainder, ZenonT(30)
<1> QED BY <1>4 DEF CountBalances, counted, queued, word

(* A BatchWorkQueue uses its WorkQueue as any program may: what is proved   *)
(* of the queue holds for the queue of buffers (work_queue.h:143-156).      *)
THEOREM BatchUsesQueue == BatchSpec => Spec
<1>1. BatchInit => Init
  BY DEF BatchInit
<1> QED BY <1>1, InnerStep, PTL DEF BatchSpec, Spec

(* The count follows the queue: whatever the order in which the threads add *)
(* and subtract outside the mutex, size_ and what they have still to settle *)
(* make up the elements in the queue, modulo the width of size_t            *)
(* (work_queue.h:141-161).  T may throw in push() and in pop().             *)
THEOREM Balances == BatchSpec => []CountBalances
<1>1. BatchInit => BatchInv
  BY BatchInvInit
<1>2. BatchInv /\ [BatchNext]_batchVars => BatchInv'
  BY BatchInvStep
<1>3. BatchInv => CountBalances
  BY BalanceCounts
<1> QED BY <1>1, <1>2, <1>3, PTL DEF BatchSpec
=============================================================================
