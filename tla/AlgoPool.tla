------------------------------- MODULE AlgoPool -------------------------------
(***************************************************************************)
(* The thread pool as con_algo.h uses it: a queue of tasks that the        *)
(* caller submits to, and workers that run them.  A worker that finds the  *)
(* queue empty goes to sleep, and misses what is submitted before it does. *)
(* The algorithms are over where the destructor of the pool begins, which  *)
(* is in BasePool.                                                         *)
(***************************************************************************)
EXTENDS Integers, Sequences, SequencesExt

CONSTANTS PoolWorkers, Caller,
          MaxJobs      \* of an algorithm: chunks, or calls of do_sort

ASSUME AlgoAssumption == Caller \notin PoolWorkers /\ MaxJobs \in Nat

AlgoThreads == PoolWorkers \cup {Caller}
Jobs == 1 .. MaxJobs

VARIABLES
  phase,      \* of the caller: "none", "sort", "sorted" and "sort_threw" when it is over,
              \* "submit", "get", "visited" and "visit_threw" when it is over
  jobs,       \* the queue
  dozing,     \* dozing[w]: "awake", "window" (the queue was empty), "asleep"
  running,    \* running[t]: what t works on, the innermost last: [job, at]
  promised    \* promised[j]: what the future of j holds: "none", "value", "exception"

algoPoolVars == <<phase, jobs, dozing, running, promised>>

AlgoPoolInit ==
  /\ phase = "none" /\ jobs = << >>
  /\ dozing = [w \in PoolWorkers |-> "awake"]
  /\ running = [t \in AlgoThreads |-> << >>]
  /\ promised = [j \in Jobs |-> "none"]

Sorting == phase \in {"sort", "sorted", "sort_threw"}
Visiting == phase \in {"submit", "get", "visited", "visit_threw"}
Busy == phase \in {"sort", "submit", "get"}

(* Thread t is at step a of job j; it goes on at step a; j begins. *)
At(t, j, a) == running[t] # << >> /\ Last(running[t]) = [job |-> j, at |-> a]
Moves(s, a) == Front(s) \o <<[job |-> Last(s).job, at |-> a]>>
Begins(s, j) == Append(s, [job |-> j, at |-> 0])

(* submit(): the task is pushed, and one worker that is asleep is woken.   *)
SubmitJob(j) ==
  /\ jobs' = Append(jobs, j)
  /\ \/ \E w \in PoolWorkers : dozing[w] = "asleep" /\ dozing' = [dozing EXCEPT ![w] = "awake"]
     \/ (\A w \in PoolWorkers : dozing[w] # "asleep") /\ UNCHANGED dozing

(* A worker, or a helper in try_executing_one(), pulls a task and runs it. *)
Pulls(t) ==
  /\ jobs # << >>
  /\ jobs' = Tail(jobs)
  /\ running' = [running EXCEPT ![t] = Begins(@, Head(jobs))]
  /\ UNCHANGED <<phase, dozing, promised>>

OutOfWork(w) == Busy /\ running[w] = << >>

WorkerTakes(w) == OutOfWork(w) /\ dozing[w] = "awake" /\ Pulls(w)

WorkerDozes(w) ==
  /\ OutOfWork(w)
  /\ \/ dozing[w] = "awake" /\ jobs = << >> /\ dozing' = [dozing EXCEPT ![w] = "window"]
     \/ dozing[w] = "window" /\ dozing' = [dozing EXCEPT ![w] = "asleep"]
  /\ UNCHANGED <<phase, jobs, running, promised>>

-----------------------------------------------------------------------------
(* Every variable of the pool keeps its type. *)
AlgoPoolTypeOK ==
  /\ phase = "none" \/ Sorting \/ Visiting
  /\ jobs \in Seq(Jobs)
  /\ dozing \in [PoolWorkers -> {"awake", "window", "asleep"}]
  /\ running \in [AlgoThreads -> Seq([job : Jobs, at : Nat])]
  /\ promised \in [Jobs -> {"none", "value", "exception"}]

(* Every worker sleeps while there are tasks: it missed the notification.  *)
WorkersMissed == jobs # << >> /\ \A w \in PoolWorkers : dozing[w] = "asleep" /\ running[w] = << >>
=============================================================================
