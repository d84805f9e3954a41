----------------------------- MODULE MCBasePool -----------------------------
(* default_pool and what is built on its queue, for TLC, one state space   *)
(* each: "which" says the one that runs, nothing of the others begins.     *)
(* The helping calls of all threads and the spurious wake-ups of the pool  *)
(* are bounded; the submissions are bounded by Tasks.                      *)
EXTENDS BasePool, Dispatcher, ParallelSort, ParallelForEach

CONSTANTS MaxHelps, MaxWakes

VARIABLES which, helps, wakes

MCKeys == <<2, 1, 2, 3>>     \* what parallel_sort compares

mcPoolVars == <<poolVars, helps, wakes>>
mcAlgoVars == <<algoPoolVars, sortVars, eachVars>>
mcvars == <<which, mcPoolVars, mcAlgoVars, dispatchVars>>

MCInit ==
  /\ which \in {"pool", "messages", "sort", "for_each"}
  /\ PoolInit /\ helps = 0 /\ wakes = 0
  /\ DispatchInit /\ SortInit /\ EachInit

PoolStep ==
  \/ Ends /\ UNCHANGED <<helps, wakes>>
  \/ \E t \in Threads :
       \/ (Progress(t) \/ Submits(t)) /\ UNCHANGED <<helps, wakes>>
       \/ helps < MaxHelps /\ Helps(t) /\ helps' = helps + 1 /\ UNCHANGED wakes
       \/ wakes < MaxWakes /\ Wakes(t) /\ wakes' = wakes + 1 /\ UNCHANGED helps

MCPool == which = "pool" /\ PoolStep /\ UNCHANGED <<mcAlgoVars, dispatchVars>>
MCDispatch == which = "messages" /\ DispatchNext /\ UNCHANGED <<mcPoolVars, mcAlgoVars>>
MCSort == which = "sort" /\ SortNext /\ UNCHANGED <<mcPoolVars, dispatchVars, eachVars>>
MCForEach == which = "for_each" /\ EachNext /\ UNCHANGED <<mcPoolVars, dispatchVars, sortVars>>

MCNext == (MCPool \/ MCDispatch \/ MCSort \/ MCForEach) /\ UNCHANGED which

MCSpec ==
  /\ MCInit /\ [][MCNext]_mcvars
  /\ \A t \in Threads : WF_poolVars(which = "pool" /\ Progress(t))
  /\ DispatchFairness /\ SortFairness /\ EachFairness

(* Every variable of every part keeps its type. *)
TypesOK ==
  PoolTypeOK /\ DispatchTypeOK /\ AlgoPoolTypeOK /\ SortTypeOK /\ EachTypeOK

(* Destroying the pool waits for nothing but the tasks that run, and for   *)
(* workers that are asleep on the condition variable.                      *)
OnlySleepersDelayJoin ==
  (life = "closing") ~> (life = "gone" \/ terminated \/ waiters # {})

(* The destructor of an efficient and robust pool returns (README.md:11):  *)
(* it closes the queue, which wakes every worker, and joins them.          *)
DestructorReturns == (life = "closing") ~> (life = "gone" \/ terminated)

(* Both algorithms end: parallel_sort in any case, parallel_for_each       *)
(* unless the workers slept through a submission.                          *)
AlgosReturn == SortReturns /\ ForEachReturns
=============================================================================
