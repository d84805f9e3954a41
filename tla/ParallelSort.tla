----------------------------- MODULE ParallelSort -----------------------------
(***************************************************************************)
(* parallel_sort (con_algo.h:14-51).  The calls of do_sort form a tree:    *)
(* call 1 sorts the whole list, call n gives its lower chunk to call 2n,   *)
(* which is a task, and its higher chunk to call 2n + 1, a plain call.  A  *)
(* chunk is a set, because std::partition leaves the elements in no        *)
(* particular order: any of them may come first and be the divi_val.       *)
(***************************************************************************)
EXTENDS AlgoPool, FiniteSets

CONSTANT Keys      \* Keys[e] is what operator< compares of element e

Elements == DOMAIN Keys

ASSUME KeysAssumption ==
  /\ IsFiniteSet(Elements) /\ Keys \in [Elements -> Int]
  /\ 1 \in Jobs /\ 2 ^ (Cardinality(Elements) + 1) - 1 <= MaxJobs

Split == 0  Higher == 1  Lower == 2     \* where a call of do_sort is

VARIABLES
  chunk, divi_val, sorted,   \* of each call: its elements, its divi_val, its result
  raised                     \* a comparison threw

sortVars == <<chunk, divi_val, sorted, raised>>

SortInit ==
  /\ AlgoPoolInit
  /\ chunk = [n \in Jobs |-> {}]
  /\ divi_val = [n \in Jobs |-> 0]
  /\ sorted = [n \in Jobs |-> << >>]
  /\ raised = FALSE

(* A task ends in its future, call 1 with the user; the others in a call.  *)
IsTask(n) == n % 2 = 0
Outermost(n) == IsTask(n) \/ n = 1

SortCall ==
  /\ phase = "none"
  /\ phase' = "sort"
  /\ chunk' = [chunk EXCEPT ![1] = Elements]
  /\ running' = [running EXCEPT ![Caller] = Begins(@, 1)]
  /\ UNCHANGED <<jobs, dozing, promised, divi_val, sorted, raised>>

(* Call n returns r: to the call around it, to its future, or to the user. *)
Returns(t, n, r) ==
  /\ sorted' = [sorted EXCEPT ![n] = r]
  /\ running' = [running EXCEPT ![t] =
                   IF Outermost(n) THEN Front(@) ELSE Moves(Front(@), Lower)]
  /\ promised' = IF IsTask(n) THEN [promised EXCEPT ![n] = "value"] ELSE promised
  /\ phase' = IF n = 1 THEN "sorted" ELSE phase
  /\ UNCHANGED <<jobs, dozing, chunk, divi_val, raised>>

(* An exception leaves the innermost call of t and the ones around it, up  *)
(* to one that no other called; their lower chunks are destroyed.          *)
Throws(t) ==
  LET first == Max({i \in DOMAIN running[t] : Outermost(running[t][i].job)})
      outer == running[t][first].job
  IN /\ running' = [running EXCEPT ![t] = SubSeq(@, 1, first - 1)]
     /\ promised' = IF IsTask(outer) THEN [promised EXCEPT ![outer] = "exception"] ELSE promised
     /\ phase' = IF outer = 1 THEN "sort_threw" ELSE phase
     /\ raised' = TRUE
     /\ UNCHANGED <<jobs, dozing, chunk, divi_val, sorted>>

SortEmpty(t, n) == At(t, n, Split) /\ chunk[n] = {} /\ Returns(t, n, << >>)

(* Partition, submission of the lower chunk and call for the higher one.   *)
(* There are numbers for all calls (KeysAssumption): MaxJobs never bites.  *)
SortSplit(t, n) ==
  /\ At(t, n, Split) /\ 2 * n + 1 <= MaxJobs
  /\ \E e \in chunk[n] :
       LET low == {d \in chunk[n] : Keys[d] < Keys[e]} IN
       /\ divi_val' = [divi_val EXCEPT ![n] = e]
       /\ chunk' = [chunk EXCEPT ![n] = {}, ![2 * n] = low,
                                 ![2 * n + 1] = chunk[n] \ (low \cup {e})]
  /\ SubmitJob(2 * n)
  /\ running' = [running EXCEPT ![t] = Begins(Moves(@, Higher), 2 * n + 1)]
  /\ UNCHANGED <<phase, promised, sorted, raised>>

SortCompareThrows(t, n) == At(t, n, Split) /\ Cardinality(chunk[n]) > 1 /\ Throws(t)

(* Mutant: the loop only yields. *)
SortYields(t, n) ==
  /\ At(t, n, Lower) /\ promised[2 * n] = "none"
  /\ UNCHANGED <<algoPoolVars, sortVars>>

(* The loop while the lower chunk's future is not ready. *)
SortHelps(t, n) ==
  /\ At(t, n, Lower) /\ promised[2 * n] = "none"
  /\ Pulls(t)
  /\ UNCHANGED sortVars

(* Mutant: the lower chunk is spliced behind. *)
SortJoinBehind(t, n) ==
  /\ At(t, n, Lower)
  /\ \/ /\ promised[2 * n] = "value"
        /\ Returns(t, n, <<divi_val[n]>> \o sorted[2 * n + 1] \o sorted[2 * n])
     \/ promised[2 * n] = "exception" /\ Throws(t)

SortJoin(t, n) ==
  /\ At(t, n, Lower)
  /\ \/ /\ promised[2 * n] = "value"
        /\ Returns(t, n, sorted[2 * n] \o <<divi_val[n]>> \o sorted[2 * n + 1])
     \/ promised[2 * n] = "exception" /\ Throws(t)

SortStep(t) ==
  Sorting /\ \E n \in Jobs : SortEmpty(t, n) \/ SortSplit(t, n) \/ SortHelps(t, n) \/ SortJoin(t, n)

SortNext ==
  \/ SortCall
  \/ \E t \in AlgoThreads : SortStep(t)
  \/ /\ Sorting
     /\ \/ \E t \in AlgoThreads, n \in Jobs : SortCompareThrows(t, n)
        \/ \E w \in PoolWorkers : (WorkerTakes(w) \/ WorkerDozes(w)) /\ UNCHANGED sortVars

(* Threads that run a call are scheduled; no worker need ever take a task. *)
SortFairness == \A t \in AlgoThreads : WF_<<algoPoolVars, sortVars>>(SortStep(t))

SortSpec == SortInit /\ [][SortNext]_<<algoPoolVars, sortVars>> /\ SortFairness

-----------------------------------------------------------------------------
(* Every variable of the sorting keeps its type. *)
SortTypeOK ==
  /\ chunk \in [Jobs -> SUBSET Elements] /\ divi_val \in [Jobs -> {0} \cup Elements]
  /\ sorted \in [Jobs -> Seq(Elements)] /\ raised \in BOOLEAN

Frames(t, n) == {i \in DOMAIN running[t] : running[t][i].job = n}
Pending(n) == Contains(jobs, n) \/ \E t \in AlgoThreads : Frames(t, n) # {}

(* However the calls are spread over threads and stacked on top of one     *)
(* another: the list that is returned is the one given, in order.  A task  *)
(* sorts the lower chunk, a local list, of a call that waits for it,       *)
(* unless an exception took that call away.                                *)
SortIsSound ==
  /\ phase = "sorted" =>
       /\ Len(sorted[1]) = Cardinality(Elements) /\ ToSet(sorted[1]) = Elements
       /\ \A i, j \in DOMAIN sorted[1] : i < j => Keys[sorted[1][i]] <= Keys[sorted[1][j]]
  /\ Sorting /\ ~raised =>
       \A n \in Jobs : IsTask(n) /\ Pending(n) => \E t \in AlgoThreads : Frames(t, n \div 2) # {}

(* parallel_sort ends although threads that wait run other calls on top of *)
(* the ones that wait, and even if no worker takes a task.                 *)
SortReturns == (phase = "sort") ~> (phase \in {"sorted", "sort_threw"})
=============================================================================
