---------------------------- MODULE QueueContract ----------------------------
(***************************************************************************)
(* What dxu::WorkQueue<T> promises its callers: every method takes effect   *)
(* at one instant between its call and its return.  There is no mutex, no   *)
(* sleeping and no notification here; WorkQueue.tla is shown to implement   *)
(* this module.                                                             *)
(***************************************************************************)
EXTENDS Integers, Sequences, FiniteSets

CONSTANTS
  Items,      \* what can be pushed
  NoItem,     \* a thread's item while it is in neither push() nor pop()
  Writers,    \* the threads that call push()
  Readers,    \* the threads that call pop()
  Tuners,     \* the threads that call setMaxSize()
  Closers,    \* the threads that call finish()
  Watchers,   \* the threads that call waitUntilFinished()
  Limits,     \* capacities given to the constructor and to setMaxSize()
  NDEBUG,     \* TRUE in a build whose assert() is compiled out
  MayThrow    \* TRUE when copying a T can throw

Threads == Writers \cup Readers \cup Tuners \cup Closers \cup Watchers

VARIABLES
  queue,      \* the items in the queue, oldest first
  done,       \* finish() has been called
  maxSize,    \* the capacity, 0 when unbounded
  stage,      \* the method a thread has called, "return" once it took effect
  item        \* the item a thread is pushing or has popped

vars == <<queue, done, maxSize, stage, item>>

Stages == {"idle", "push", "pop", "resize", "finish", "await", "return",
           "aborted"}

Alive == \A t \in Threads : stage[t] # "aborted"

Full == maxSize > 0 /\ Len(queue) >= maxSize

Init ==
  /\ queue = <<>>
  /\ done = FALSE
  /\ maxSize \in Limits
  /\ stage = [t \in Threads |-> "idle"]
  /\ item = [t \in Threads |-> NoItem]

Move(t, from, to) ==
  /\ stage[t] = from
  /\ stage' = [stage EXCEPT ![t] = to]

-----------------------------------------------------------------------------
(* A thread calls a method. *)
Call(t) ==
  /\ \/ /\ t \in Writers
        /\ Move(t, "idle", "push")
        /\ \E v \in Items : item' = [item EXCEPT ![t] = v]
     \/ t \in Readers /\ Move(t, "idle", "pop") /\ UNCHANGED item
     \/ t \in Tuners /\ Move(t, "idle", "resize") /\ UNCHANGED item
     \/ t \in Closers /\ Move(t, "idle", "finish") /\ UNCHANGED item
     \/ t \in Watchers /\ Move(t, "idle", "await") /\ UNCHANGED item
  /\ UNCHANGED <<queue, done, maxSize>>

(* push() has room. *)
CanPut(t) == stage[t] = "push" /\ ~Full /\ ~done

Put(t) ==
  /\ CanPut(t)
  /\ Move(t, "push", "return")
  /\ queue' = Append(queue, item[t])
  /\ UNCHANGED <<done, maxSize, item>>

(* push() returns false: finish() has been called. *)
Refuse(t) ==
  /\ done
  /\ Move(t, "push", "idle")
  /\ item' = [item EXCEPT ![t] = NoItem]
  /\ UNCHANGED <<queue, done, maxSize>>

(* pop() has something to return. *)
CanTake(t) == stage[t] = "pop" /\ queue # <<>>

Take(t) ==
  /\ CanTake(t)
  /\ Move(t, "pop", "return")
  /\ queue' = Tail(queue)
  /\ item' = [item EXCEPT ![t] = Head(queue)]
  /\ UNCHANGED <<done, maxSize>>

(* pop() returns false: finished and exhausted. *)
End(t) ==
  /\ done /\ queue = <<>>
  /\ Move(t, "pop", "idle")
  /\ UNCHANGED <<queue, done, maxSize, item>>

(* An operation of T throws out of push() or pop(), without effect. *)
Throw(t) ==
  /\ MayThrow /\ (CanPut(t) \/ CanTake(t))
  /\ stage' = [stage EXCEPT ![t] = "idle"]
  /\ item' = IF stage[t] = "push" THEN [item EXCEPT ![t] = NoItem] ELSE item
  /\ UNCHANGED <<queue, done, maxSize>>

Resize(t) ==
  /\ Move(t, "resize", "return")
  /\ maxSize' \in Limits
  /\ UNCHANGED <<queue, done, item>>

Finish(t) ==
  /\ NDEBUG \/ ~done
  /\ Move(t, "finish", "return")
  /\ done' = TRUE
  /\ UNCHANGED <<queue, maxSize, item>>

(* finish() called a second time in a build with assertions. *)
Abort(t) ==
  /\ ~NDEBUG /\ done
  /\ Move(t, "finish", "aborted")
  /\ UNCHANGED <<queue, done, maxSize, item>>

Await(t) ==
  /\ done
  /\ Move(t, "await", "idle")
  /\ UNCHANGED <<queue, done, maxSize, item>>

(* The method comes back to its caller. *)
Return(t) ==
  /\ Move(t, "return", "idle")
  /\ item' = [item EXCEPT ![t] = NoItem]
  /\ UNCHANGED <<queue, done, maxSize>>

Next ==
  /\ Alive
  /\ \E t \in Threads :
       \/ Call(t) \/ Put(t) \/ Refuse(t) \/ Take(t) \/ End(t) \/ Throw(t)
       \/ Resize(t) \/ Finish(t) \/ Abort(t) \/ Await(t) \/ Return(t)

Spec == Init /\ [][Next]_vars

-----------------------------------------------------------------------------
(* Progress.  These are weak fairness conditions, with what enables each    *)
(* action written out: ENABLED is not evaluated under a refinement mapping. *)

(* While items can be taken some pop() takes one, and while there is room   *)
(* some push() puts one.                                                    *)
Served ==
  /\ []<>(Alive => \A t \in Threads : ~CanTake(t))
       \/ []<><<\E t \in Threads : Take(t)>>_vars
  /\ []<>(Alive => \A t \in Threads : ~CanPut(t))
       \/ []<><<\E t \in Threads : Put(t)>>_vars

(* A call that nothing holds back any more returns. *)
Released ==
  \A t \in Threads :
    /\ []<>(Alive => ~(stage[t] = "push" /\ done))
    /\ []<>(Alive => ~(stage[t] = "pop" /\ done /\ queue = <<>>))
    /\ []<>(Alive => ~(stage[t] = "await" /\ done))
    /\ []<>(Alive => stage[t] \notin {"resize", "finish", "return"})

FairSpec == Spec /\ Served /\ Released
=============================================================================
