------------------------- MODULE WorkQueueImplements -------------------------
(***************************************************************************)
(* WorkQueue, with its mutex, wait sets and notifications, implements the   *)
(* atomic queue of QueueContract.  A sleeping or woken-up thread is still   *)
(* in the method it called; a thread with notifications to send has already *)
(* done what it was called for.                                             *)
(***************************************************************************)
EXTENDS WorkQueue

StageOf(p) ==
  CASE p \in {"push", "push_wait"}   -> "push"
    [] p \in {"pop", "pop_wait"}     -> "pop"
    [] p \in {"await", "await_wait"} -> "await"
    [] p \in {"idle", "aborted", "resize", "finish"} -> p
    [] OTHER -> "return"

Contract == INSTANCE QueueContract
              WITH stage <- [t \in Threads |-> StageOf(pc[t])]

(* Every method takes effect atomically between its call and its return     *)
(* (work_queue.h:51-124).                                                   *)
ImplementsContract == Contract!Spec

(* No wakeup that the contract owes gets lost: with T's operations not      *)
(* throwing, the notifications of work_queue.h:62, 88, 98 and 113-115 are   *)
(* enough for a queue with items to serve a reader, for one with room to    *)
(* serve a writer, and for finish() to release everybody.                   *)
ContractServed == Contract!Served

(* Calls that nothing holds back return: those that finish() ends, and      *)
(* those that have only their notifications left (work_queue.h:98, 113-115).*)
ContractReleased == Contract!Released
=============================================================================
