------------------------------- MODULE Pipeline -------------------------------
(***************************************************************************)
(* The way programs use a WorkQueue (test/work_queue_test.cc, "SPMC",       *)
(* "MPMC", "BoundedSizeMPMC"): pushers push their ranges and exit, the main *)
(* thread joins them, calls finish() and joins the poppers, which pop until *)
(* pop() returns false.                                                     *)
(***************************************************************************)
EXTENDS WorkQueue

CONSTANTS
  Share,      \* Share[w]: the items of pusher w, in the order it pushes them
  Main        \* the thread that joins the others and calls finish()

ASSUME ShareAssumption ==
  /\ Share \in [Writers -> Seq(Items)]
  /\ \A w, x \in Writers : \A i \in DOMAIN Share[w], j \in DOMAIN Share[x] :
       Share[w][i] = Share[x][j] => w = x /\ i = j
ASSUME RolesAssumption ==
  /\ Closers = {Main} /\ Tuners = {} /\ Watchers = {}
  /\ Main \notin Writers \cup Readers /\ Writers \cap Readers = {}

VARIABLES
  pushed,     \* how many items of its range a pusher has got to
  results,    \* what each popper has got, in the order it got them
  quit,       \* the poppers whose pop() returned false
  finished    \* main has called finish()

pipelineVars == <<vars, pushed, results, quit, finished>>

PipelineInit ==
  /\ Init
  /\ pushed = [w \in Writers |-> 0]
  /\ results = [r \in Readers |-> <<>>]
  /\ quit = {}
  /\ finished = FALSE

(* for (int j = min; j < max; ++j) queue.push(j); *)
PusherLoop(w) ==
  /\ pushed[w] < Len(Share[w])
  /\ BeginPush(w, Share[w][pushed[w] + 1])
  /\ pushed' = [pushed EXCEPT ![w] = @ + 1]
  /\ UNCHANGED <<results, quit, finished>>

Exited(w) == pc[w] = "idle" /\ pushed[w] = Len(Share[w])

(* while (queue->pop(result)) *)
PopperLoop(r) ==
  /\ r \notin quit
  /\ BeginPop(r)
  /\ UNCHANGED <<pushed, results, quit, finished>>

(* Faulty variant: the pushers are not joined first. *)
MainFinishesEarly ==
  /\ ~finished
  /\ BeginFinish(Main)
  /\ finished' = TRUE
  /\ UNCHANGED <<pushed, results, quit>>

(* thread.join() for every pusher, then queue.finish() *)
MainFinishes ==
  /\ ~finished
  /\ \A w \in Writers : Exited(w)
  /\ BeginFinish(Main)
  /\ finished' = TRUE
  /\ UNCHANGED <<pushed, results, quit>>

(* A step inside the queue; a pop() that returns true stores its result,    *)
(* one that returns false ends its popper.                                  *)
QueueStep(t) ==
  /\ Step(t)
  /\ results' = IF pc[t] = "pop_notify"
                THEN [results EXCEPT ![t] = Append(@, item[t])]
                ELSE results
  /\ quit' = IF pc[t] = "pop" /\ pc'[t] = "idle" THEN quit \cup {t} ELSE quit
  /\ UNCHANGED <<pushed, finished>>

Woken(t) == SpuriousWakeup(t) /\ UNCHANGED <<pushed, results, quit, finished>>

PipelineNext ==
  \/ \E w \in Writers : PusherLoop(w)
  \/ \E r \in Readers : PopperLoop(r)
  \/ MainFinishes
  \/ \E t \in Threads : QueueStep(t) \/ Woken(t)

(* Threads run their loops to the end. *)
PipelineSpec ==
  /\ PipelineInit
  /\ [][PipelineNext]_pipelineVars
  /\ \A w \in Writers : WF_pipelineVars(PusherLoop(w))
  /\ \A r \in Readers : WF_pipelineVars(PopperLoop(r))
  /\ WF_pipelineVars(MainFinishes)
  /\ \A t \in Threads : WF_pipelineVars(QueueStep(t))

-----------------------------------------------------------------------------
(* Every popper gets the items of one pusher in the order in which they     *)
(* were pushed, although the items of several pushers interleave and other  *)
(* poppers take some of them (work_queue.h:60 and 85-88).                   *)
PushersInOrder ==
  \A r \in Readers, w \in Writers :
    \A i, j \in DOMAIN results[r], m, n \in DOMAIN Share[w] :
      /\ results[r][i] = Share[w][m]
      /\ results[r][j] = Share[w][n]
      /\ i < j
      => m < n

(* The poppers that are about to store item v, and where it is stored. *)
Holders(v) == {r \in Readers : item[r] = v}
Places(v) ==
  UNION {{r} \X {k \in DOMAIN results[r] : results[r][k] = v} : r \in Readers}

(* When a popper has seen false, whatever was pushed has been stored or is  *)
(* in the hands of another popper, once: REQUIRE(results[i] == i) cannot    *)
(* fail (work_queue_test.cc:147-149).                                       *)
NothingMissing ==
  quit # {} =>
    \A w \in Writers : \A i \in DOMAIN Share[w] :
      Cardinality(Holders(Share[w][i])) + Cardinality(Places(Share[w][i])) = 1

(* The joins return: every popper sees false and main leaves finish()       *)
(* (work_queue_test.cc:138-145).                                            *)
Joins == <>(quit = Readers /\ finished /\ \A t \in Threads : pc[t] = "idle")
=============================================================================
