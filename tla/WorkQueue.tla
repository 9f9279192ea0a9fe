------------------------------ MODULE WorkQueue ------------------------------
(***************************************************************************)
(* dxu::WorkQueue<T> (include/dxu/concurrency/work_queue.h): a FIFO queue   *)
(* with an adjustable capacity, shared by any number of threads through one *)
(* mutex and three condition variables.                                     *)
(*                                                                         *)
(* Granularity.  queue_, done_ and max_size_ are only touched while mutex_  *)
(* is held, so one critical section -- from locking (or re-locking after a  *)
(* wait) to unlocking or waiting -- is one step.  Every notification is     *)
(* issued after the lock has been released and is a step of its own: what   *)
(* other threads do between the two is what this module is about.           *)
(*                                                                         *)
(* A condition variable is the set of threads that sleep on it, read off    *)
(* their program counters: reader_cv_ is At("pop_wait"), writer_cv_ is      *)
(* At("push_wait"), finish_cv_ is At("await_wait").                         *)
(***************************************************************************)
EXTENDS Integers, Sequences, FiniteSets

CONSTANTS
  Items,      \* what can be pushed; one item stands for one call of push()
  NoItem,     \* a thread's item while it is in neither push() nor pop()
  Writers,    \* the threads that call push()
  Readers,    \* the threads that call pop()
  Tuners,     \* the threads that call setMaxSize()
  Closers,    \* the threads that call finish()
  Watchers,   \* the threads that call waitUntilFinished()
  Limits,     \* capacities given to the constructor and to setMaxSize()
  NDEBUG,     \* TRUE in a build whose assert() is compiled out
  MayThrow    \* TRUE when copying a T (or growing the std::queue) can throw

(* Roles may overlap: any thread may call any method. *)
Threads == Writers \cup Readers \cup Tuners \cup Closers \cup Watchers

ASSUME ThreadsAssumption == IsFiniteSet(Threads)
ASSUME ItemsAssumption   == NoItem \notin Items
ASSUME LimitsAssumption  == Limits \subseteq Nat
ASSUME BuildAssumption   == NDEBUG \in BOOLEAN /\ MayThrow \in BOOLEAN

VARIABLES
  queue,      \* queue_
  done,       \* done_
  maxSize,    \* max_size_, 0 when unbounded
  pc,         \* where each thread is
  item,       \* the item each thread is pushing or has popped
  fate,       \* history: what became of each item's push()
  accepted,   \* history: items in the order in which they entered the queue
  delivered,  \* history: items in the order in which they left the queue
  ended       \* history: some pop() has returned false

vars == <<queue, done, maxSize, pc, item, fate, accepted, delivered, ended>>
shared == <<queue, done, maxSize>>
history == <<fate, accepted, delivered, ended>>

PushPoints   == {"push", "push_wait", "push_notify"}
PopPoints    == {"pop", "pop_wait", "pop_notify"}
ResizePoints == {"resize", "resize_notify"}
FinishPoints == {"finish", "finish_readers", "finish_writers",
                 "finish_watchers"}
AwaitPoints  == {"await", "await_wait"}
Points == {"idle", "aborted"} \cup PushPoints \cup PopPoints
            \cup ResizePoints \cup FinishPoints \cup AwaitPoints

Fates == {"fresh", "offered", "true", "false", "threw"}

(* The threads at point p. *)
At(p) == {t \in Threads : pc[t] = p}

(* A failed assert() kills the process: nothing runs any more. *)
Alive == At("aborted") = {}

Init ==
  /\ queue = <<>>
  /\ done = FALSE
  /\ maxSize \in Limits
  /\ pc = [t \in Threads |-> "idle"]
  /\ item = [t \in Threads |-> NoItem]
  /\ fate = [v \in Items |-> "fresh"]
  /\ accepted = <<>>
  /\ delivered = <<>>
  /\ ended = FALSE

-----------------------------------------------------------------------------
(* Control points and notifications. *)

Goto(t, from, to) ==
  /\ pc[t] = from
  /\ pc' = [pc EXCEPT ![t] = to]

(* Faulty variant: the notification is dropped. *)
NotifyNone(t, from, waiting, awake) == Goto(t, from, "idle")

(* notify_one(), then return: one sleeper, if there is any, goes on to      *)
(* re-lock the mutex and test its condition again.                          *)
NotifyOne(t, from, waiting, awake) ==
  /\ pc[t] = from
  /\ \/ /\ At(waiting) = {}
        /\ pc' = [pc EXCEPT ![t] = "idle"]
     \/ \E u \in At(waiting) : pc' = [pc EXCEPT ![t] = "idle", ![u] = awake]

(* Faulty variant: notify_one() where every sleeper must be woken. *)
NotifyAllWakesOne(t, from, waiting, awake, to) ==
  /\ pc[t] = from
  /\ \/ /\ At(waiting) = {}
        /\ pc' = [pc EXCEPT ![t] = to]
     \/ \E u \in At(waiting) : pc' = [pc EXCEPT ![t] = to, ![u] = awake]

(* notify_all(), then on to point "to". *)
NotifyAll(t, from, waiting, awake, to) ==
  /\ pc[t] = from
  /\ pc' = [u \in Threads |-> IF u = t THEN to
                              ELSE IF pc[u] = waiting THEN awake
                              ELSE pc[u]]

-----------------------------------------------------------------------------
(* push() *)

Full == maxSize > 0 /\ Len(queue) >= maxSize

(* Faulty variant: the value does not survive the wait. *)
BeginPushEmpty(t, v) ==
  /\ t \in Writers
  /\ fate[v] = "fresh"
  /\ Goto(t, "idle", "push")
  /\ fate' = [fate EXCEPT ![v] = "offered"]
  /\ UNCHANGED <<shared, item, accepted, delivered, ended>>

BeginPush(t, v) ==
  /\ t \in Writers
  /\ fate[v] = "fresh"
  /\ Goto(t, "idle", "push")
  /\ item' = [item EXCEPT ![t] = v]
  /\ fate' = [fate EXCEPT ![v] = "offered"]
  /\ UNCHANGED <<shared, accepted, delivered, ended>>

PushWait(t) ==
  /\ Full /\ ~done
  /\ Goto(t, "push", "push_wait")
  /\ UNCHANGED <<shared, item, history>>

(* push() returns or throws without having pushed. *)
LeavePush(t, outcome) ==
  /\ Goto(t, "push", "idle")
  /\ item' = [item EXCEPT ![t] = NoItem]
  /\ fate' = [fate EXCEPT ![item[t]] = outcome]
  /\ UNCHANGED <<shared, accepted, delivered, ended>>

(* Faulty variant: a refused push() claims success. *)
PushRefusedAsPushed(t) == done /\ LeavePush(t, "true")

PushRefused(t) == done /\ LeavePush(t, "false")

PushThrow(t) == MayThrow /\ ~done /\ ~Full /\ LeavePush(t, "threw")

(* Faulty variant: done_ is not tested again once there is room. *)
PushEnqueueAnyway(t) ==
  /\ ~Full
  /\ Goto(t, "push", "push_notify")
  /\ queue' = Append(queue, item[t])
  /\ accepted' = Append(accepted, item[t])
  /\ UNCHANGED <<done, maxSize, item, fate, delivered, ended>>

(* Faulty variant: a woken writer does not test the limit again. *)
PushEnqueueUnbounded(t) ==
  /\ ~done
  /\ Goto(t, "push", "push_notify")
  /\ queue' = Append(queue, item[t])
  /\ accepted' = Append(accepted, item[t])
  /\ UNCHANGED <<done, maxSize, item, fate, delivered, ended>>

PushEnqueue(t) ==
  /\ ~done /\ ~Full
  /\ Goto(t, "push", "push_notify")
  /\ queue' = Append(queue, item[t])
  /\ accepted' = Append(accepted, item[t])
  /\ UNCHANGED <<done, maxSize, item, fate, delivered, ended>>

PushNotify(t) ==
  /\ NotifyOne(t, "push_notify", "pop_wait", "pop")
  /\ item' = [item EXCEPT ![t] = NoItem]
  /\ fate' = [fate EXCEPT ![item[t]] = "true"]
  /\ UNCHANGED <<shared, accepted, delivered, ended>>

-----------------------------------------------------------------------------
(* pop() *)

BeginPop(t) ==
  /\ t \in Readers
  /\ Goto(t, "idle", "pop")
  /\ UNCHANGED <<shared, item, history>>

PopWait(t) ==
  /\ queue = <<>> /\ ~done
  /\ Goto(t, "pop", "pop_wait")
  /\ UNCHANGED <<shared, item, history>>

PopEnd(t) ==
  /\ queue = <<>> /\ done
  /\ Goto(t, "pop", "idle")
  /\ ended' = TRUE
  /\ UNCHANGED <<shared, item, fate, accepted, delivered>>

(* Faulty variant: the front is copied out but stays in the queue. *)
PopPeek(t) ==
  /\ queue # <<>>
  /\ Goto(t, "pop", "pop_notify")
  /\ item' = [item EXCEPT ![t] = Head(queue)]
  /\ delivered' = Append(delivered, Head(queue))
  /\ UNCHANGED <<shared, fate, accepted, ended>>

(* Faulty variant: the newest item is taken. *)
PopNewest(t) ==
  /\ queue # <<>>
  /\ Goto(t, "pop", "pop_notify")
  /\ item' = [item EXCEPT ![t] = queue[Len(queue)]]
  /\ queue' = SubSeq(queue, 1, Len(queue) - 1)
  /\ delivered' = Append(delivered, queue[Len(queue)])
  /\ UNCHANGED <<done, maxSize, fate, accepted, ended>>

PopTake(t) ==
  /\ queue # <<>>
  /\ Goto(t, "pop", "pop_notify")
  /\ item' = [item EXCEPT ![t] = Head(queue)]
  /\ queue' = Tail(queue)
  /\ delivered' = Append(delivered, Head(queue))
  /\ UNCHANGED <<done, maxSize, fate, accepted, ended>>

(* The assignment out of the front throws: the item stays queued. *)
PopThrow(t) ==
  /\ MayThrow /\ queue # <<>>
  /\ Goto(t, "pop", "idle")
  /\ UNCHANGED <<shared, item, history>>

PopNotify(t) ==
  /\ NotifyOne(t, "pop_notify", "push_wait", "push")
  /\ item' = [item EXCEPT ![t] = NoItem]
  /\ UNCHANGED <<shared, history>>

-----------------------------------------------------------------------------
(* setMaxSize() *)

BeginResize(t) ==
  /\ t \in Tuners
  /\ Goto(t, "idle", "resize")
  /\ UNCHANGED <<shared, item, history>>

Resize(t) ==
  /\ Goto(t, "resize", "resize_notify")
  /\ maxSize' \in Limits
  /\ UNCHANGED <<queue, done, item, history>>

ResizeNotify(t) ==
  /\ NotifyAll(t, "resize_notify", "push_wait", "push", "idle")
  /\ UNCHANGED <<shared, item, history>>

-----------------------------------------------------------------------------
(* finish() *)

BeginFinish(t) ==
  /\ t \in Closers
  /\ Goto(t, "idle", "finish")
  /\ UNCHANGED <<shared, item, history>>

FinishAssert(t) ==
  /\ ~NDEBUG /\ done
  /\ Goto(t, "finish", "aborted")
  /\ UNCHANGED <<shared, item, history>>

(* Faulty variant: nothing is asserted. *)
FinishUnchecked(t) ==
  /\ Goto(t, "finish", "finish_readers")
  /\ done' = TRUE
  /\ UNCHANGED <<queue, maxSize, item, history>>

Finish(t) ==
  /\ NDEBUG \/ ~done
  /\ Goto(t, "finish", "finish_readers")
  /\ done' = TRUE
  /\ UNCHANGED <<queue, maxSize, item, history>>

FinishNotifyReaders(t) ==
  /\ NotifyAll(t, "finish_readers", "pop_wait", "pop", "finish_writers")
  /\ UNCHANGED <<shared, item, history>>

FinishNotifyWriters(t) ==
  /\ NotifyAll(t, "finish_writers", "push_wait", "push", "finish_watchers")
  /\ UNCHANGED <<shared, item, history>>

(* Faulty variant: finish_cv_ is not notified. *)
FinishForgetsWatchers(t) ==
  /\ Goto(t, "finish_watchers", "idle")
  /\ UNCHANGED <<shared, item, history>>

FinishNotifyWatchers(t) ==
  /\ NotifyAll(t, "finish_watchers", "await_wait", "await", "idle")
  /\ UNCHANGED <<shared, item, history>>

-----------------------------------------------------------------------------
(* waitUntilFinished() *)

BeginAwait(t) ==
  /\ t \in Watchers
  /\ Goto(t, "idle", "await")
  /\ UNCHANGED <<shared, item, history>>

AwaitWait(t) ==
  /\ ~done
  /\ Goto(t, "await", "await_wait")
  /\ UNCHANGED <<shared, item, history>>

AwaitReturn(t) ==
  /\ done
  /\ Goto(t, "await", "idle")
  /\ UNCHANGED <<shared, item, history>>

-----------------------------------------------------------------------------
(* std::condition_variable::wait() may return without a notification. *)
SpuriousWakeup(t) ==
  /\ \/ Goto(t, "push_wait", "push")
     \/ Goto(t, "pop_wait", "pop")
     \/ Goto(t, "await_wait", "await")
  /\ UNCHANGED <<shared, item, history>>

(* A thread calls a method. *)
Call(t) ==
  \/ \E v \in Items : BeginPush(t, v)
  \/ BeginPop(t)
  \/ BeginResize(t)
  \/ BeginFinish(t)
  \/ BeginAwait(t)

(* A thread goes on with the method it is in. *)
Step(t) ==
  \/ PushWait(t) \/ PushRefused(t) \/ PushThrow(t)
  \/ PushEnqueue(t) \/ PushNotify(t)
  \/ PopWait(t) \/ PopEnd(t) \/ PopThrow(t) \/ PopTake(t) \/ PopNotify(t)
  \/ Resize(t) \/ ResizeNotify(t)
  \/ FinishAssert(t) \/ Finish(t)
  \/ FinishNotifyReaders(t) \/ FinishNotifyWriters(t)
  \/ FinishNotifyWatchers(t)
  \/ AwaitWait(t) \/ AwaitReturn(t)

Next == Alive /\ \E t \in Threads : Call(t) \/ Step(t) \/ SpuriousWakeup(t)

(* The scheduler runs every thread that can run, and a thread that wants    *)
(* the mutex gets it in the end.  No call and no spurious wakeup is owed.   *)
Fairness == \A t \in Threads : WF_vars(Alive /\ Step(t))

Spec == Init /\ [][Next]_vars
FairSpec == Spec /\ Fairness

-----------------------------------------------------------------------------
(* Properties. *)

TypeOK ==
  /\ queue \in Seq(Items)
  /\ done \in BOOLEAN
  /\ maxSize \in Limits
  /\ pc \in [Threads -> Points]
  /\ item \in [Threads -> Items \cup {NoItem}]
  /\ \A t \in Threads : pc[t] \in PushPoints => item[t] \in Items
  /\ fate \in [Items -> Fates]
  /\ accepted \in Seq(Items)
  /\ delivered \in Seq(Items)
  /\ ended \in BOOLEAN

(* Whatever the threads do, items leave the queue in the order in which     *)
(* they entered it: none is lost, none comes out twice (work_queue.h:60 and *)
(* 85-86 run in critical sections of different threads).                    *)
FifoDelivery == accepted = delivered \o queue

(* No item enters the queue twice, and push() returned true for an item     *)
(* exactly when it did: "An item was pushed iff push() returns true."       *)
(* (work_queue.h:48).  An item still "offered" is inside its push().        *)
PushVerdict ==
  /\ \A i, j \in DOMAIN accepted : accepted[i] = accepted[j] => i = j
  /\ \A i \in DOMAIN accepted : fate[accepted[i]] \in {"offered", "true"}
  /\ \A v \in Items : fate[v] = "true" => \E i \in DOMAIN accepted :
                                            accepted[i] = v

(* Once any pop() has returned false every accepted item has been handed to *)
(* a reader, and no later push() adds one: a reader that stops on false     *)
(* leaves nothing behind (work_queue.h:72-73).                              *)
NothingStranded == ended => done /\ delivered = accepted

(* No lost wakeup for readers.  While readers sleep, there are at least as  *)
(* many readers about to test the queue, or notify_one() calls on their way,*)
(* as there are queued items (work_queue.h:62 is outside the lock); after   *)
(* finish() the notify_all() of line 113 is on its way.                     *)
ReaderWakeups ==
  At("pop_wait") # {} =>
    IF done
    THEN At("finish_readers") # {}
    ELSE Len(queue) <= Cardinality(At("push_notify")) + Cardinality(At("pop"))

(* No lost wakeup for writers.  While writers sleep, the free slots are     *)
(* covered by writers about to test the limit and by notify_one() calls of  *)
(* readers that made room (work_queue.h:88), or setMaxSize() is about to    *)
(* wake all of them (line 98); after finish() line 114 is still to come.    *)
WriterWakeups ==
  At("push_wait") # {} =>
    IF done
    THEN At("finish_readers") \cup At("finish_writers") # {}
    ELSE \/ At("resize_notify") # {}
         \/ /\ maxSize > 0
            /\ maxSize - Len(queue)
                 <= Cardinality(At("pop_notify")) + Cardinality(At("push"))

(* No lost wakeup for waitUntilFinished(): a sleeper of a finished queue    *)
(* has the notify_all() of work_queue.h:115 before it.                      *)
WatcherWakeups ==
  At("await_wait") # {} /\ done =>
    At("finish_readers") \cup At("finish_writers") \cup At("finish_watchers")
      # {}

(* A queue at its limit, or over a limit that setMaxSize() has lowered,     *)
(* never grows, however many blocked writers are woken (work_queue.h:54).   *)
NeverGrowsWhenFull == [][Full => Len(queue') <= Len(queue)]_vars
(* "It will block until data is available" (work_queue.h:67-68): it never   *)
(* happens that all calls but that of one reader have come to an end, and   *)
(* the reader sleeps beside an item for good.                               *)
BlocksUntilData ==
  \A t \in Readers :
    []<>~(/\ pc[t] = "pop_wait" /\ queue # <<>>
          /\ \A u \in Threads \ {t} : pc[u] = "idle")
=============================================================================
