---------------------------- MODULE BatchWorkQueue ----------------------------
(***************************************************************************)
(* dxu::BatchWorkQueue<Array> (work_queue.h:131-170): a WorkQueue of        *)
(* buffers and an atomic count of the elements in them.  The count is       *)
(* adjusted after the inner push() or pop() has returned, outside its       *)
(* mutex, so the order of the adjustments is not that of the queue.         *)
(***************************************************************************)
EXTENDS WorkQueue, Functions

CONSTANTS
  Weight,     \* Weight[v]: the number of elements in buffer v
  Word        \* std::size_t counts modulo Word

ASSUME WeightAssumption == Weight \in [Items -> Nat]
ASSUME WordAssumption   == Word \in Nat \ {0}

VARIABLES
  size,       \* size_, what size() returns
  due         \* what a thread, back from the inner call, still has to add

batchVars == <<vars, size, due>>

BatchInit == Init /\ size = 0 /\ due = [t \in Threads |-> 0]

(* Faulty variant: the size is read from a buffer that was moved from. *)
OwedAfterMove(t) ==
  CASE pc[t] = "push_notify" -> 0
    [] pc[t] = "pop_notify"  -> - Weight[item[t]]
    [] OTHER                 -> 0

(* What a thread will add to size_ once the inner call has returned true. *)
Owed(t) ==
  CASE pc[t] = "push_notify" -> Weight[item[t]]
    [] pc[t] = "pop_notify"  -> - Weight[item[t]]
    [] OTHER                 -> 0

BatchCall(t) ==
  /\ due[t] = 0
  /\ Call(t)
  /\ UNCHANGED <<size, due>>

(* A step of the inner queue. *)
BatchStep(t) ==
  /\ Step(t)
  /\ due' = [due EXCEPT ![t] = Owed(t)]
  /\ UNCHANGED size

(* size_.fetch_add() or size_.fetch_sub() *)
Settle(t) ==
  /\ due[t] # 0
  /\ size' = (size + due[t]) % Word
  /\ due' = [due EXCEPT ![t] = 0]
  /\ UNCHANGED vars

BatchNext ==
  /\ Alive
  /\ \E t \in Threads :
       \/ BatchCall(t) \/ BatchStep(t) \/ Settle(t)
       \/ SpuriousWakeup(t) /\ UNCHANGED <<size, due>>

BatchSpec == BatchInit /\ [][BatchNext]_batchVars

-----------------------------------------------------------------------------
(* The elements in a sequence of buffers. *)
WeightOf(seq) == SumFunctionOnSet([i \in DOMAIN seq |-> Weight[seq[i]]], DOMAIN seq)

(* The adjustments that are still to come. *)
InFlight == SumFunctionOnSet([t \in Threads |-> due[t] + Owed(t)], Threads)

(* The count is that of the elements in the queue but for the adjustments   *)
(* of calls still in progress, modulo the width of size_t: no adjustment is *)
(* lost, made twice or made for a call that returned false                  *)
(* (work_queue.h:141-161).                                                  *)
CountBalances == (size + InFlight) % Word = WeightOf(queue) % Word

(* "count the number of elements in the queue" (work_queue.h:128-129): a    *)
(* count never exceeds the number of elements that were ever queued.        *)
SizeCounts == size <= WeightOf(accepted)
=============================================================================
