------------------------------ MODULE BasePool ------------------------------
(***************************************************************************)
(* default_pool (thread_pool_base.h, base_thread_pool over normal_queue):  *)
(* an owner thread starts the workers, submits tasks and destroys the      *)
(* pool; every thread that runs a task may itself submit tasks or help     *)
(* with try_executing_one().  Every queue operation is the one of          *)
(* SyncQueue, step by step, so its interleavings are those of the code.    *)
(***************************************************************************)
EXTENDS SyncQueue, FiniteSets

CONSTANTS Workers, Owner

ASSUME ThreadsAssumption == Threads = Workers \cup {Owner} /\ Owner \notin Workers

Tasks == Values

VARIABLES
  life,        \* the pool: "ctor", "open", "closing" (close() called), "joining", "gone"
  work,        \* work[w]: where worker w is in worker_thread()
  stack,       \* stack[t]: the tasks t is running, the innermost last
  tried,       \* the tasks some thread has submitted
  rejected,    \* those submit() threw for
  done,        \* those that have run to their end
  terminated   \* std::terminate was called

poolState == <<life, work, stack, tried, rejected, done, terminated>>
poolVars == <<vars, poolState>>

PoolInit ==
  /\ Init
  /\ life = "ctor"
  /\ work = [w \in Workers |-> "none"]
  /\ stack = [t \in Threads |-> << >>]
  /\ tried = {} /\ rejected = {} /\ done = {}
  /\ terminated = FALSE

(* The threads that may call the pool: its owner, and whoever runs a task. *)
InPool(t) == stack[t] # << >> \/ (t = Owner /\ life = "open")

Push(t, k) == stack' = [stack EXCEPT ![t] = Append(@, k)]

-----------------------------------------------------------------------------
(* The constructor, the destructor and the joiner *)

Spawn(w) ==
  /\ life = "ctor"
  /\ work[w] = "none"
  /\ work' = [work EXCEPT ![w] = "loop"]
  /\ life' = IF \A v \in Workers \ {w} : work[v] # "none" THEN "open" ELSE "ctor"
  /\ UNCHANGED <<vars, stack, tried, rejected, done, terminated>>

(* A thread cannot be started: the constructor closes the queue and throws. *)
SpawnFails ==
  /\ life = "ctor"
  /\ Call(Owner, "close", Null)
  /\ life' = "closing"
  /\ UNCHANGED <<work, stack, tried, rejected, done, terminated>>

Destroy ==
  /\ life = "open"
  /\ stack[Owner] = << >>
  /\ Call(Owner, "close", Null)
  /\ life' = "closing"
  /\ UNCHANGED <<work, stack, tried, rejected, done, terminated>>

CloseReturns ==
  /\ call[Owner].op = "close"
  /\ Return(Owner)
  /\ life' = "joining"
  /\ UNCHANGED <<work, stack, tried, rejected, done, terminated>>

(* Mutant: the threads are not joined. *)
JoinsNobody ==
  /\ life = "joining"
  /\ life' = "gone"
  /\ UNCHANGED <<vars, work, stack, tried, rejected, done, terminated>>

(* Every started thread is joined, then the queue and the threads are destroyed. *)
Join ==
  /\ life = "joining"
  /\ \A w \in Workers : work[w] \in {"none", "exited"}
  /\ life' = "gone"
  /\ UNCHANGED <<vars, work, stack, tried, rejected, done, terminated>>

-----------------------------------------------------------------------------
(* worker_thread *)

WorkerLoop(w) ==
  /\ work[w] = "loop"
  /\ work' = [work EXCEPT ![w] = IF closed_ THEN "exited" ELSE "pull"]
  /\ UNCHANGED <<vars, life, stack, tried, rejected, done, terminated>>

WorkerPull(w) ==
  /\ work[w] = "pull"
  /\ Call(w, "pull", Null)
  /\ UNCHANGED poolState

(* Mutant: the worker runs whatever pull() left in task. *)
PullRunsAnyway(w) ==
  /\ call[w].op = "pull"
  /\ Return(w)
  /\ work' = [work EXCEPT ![w] = "run"]
  /\ Push(w, ret[w].val)
  /\ UNCHANGED <<life, tried, rejected, done, terminated>>

(* Mutant: the worker pulls again when the queue is closed. *)
PullTriesAgain(w) ==
  /\ call[w].op = "pull"
  /\ Return(w)
  /\ IF ret[w].status = "closed"
     THEN work' = [work EXCEPT ![w] = "pull"] /\ UNCHANGED stack
     ELSE work' = [work EXCEPT ![w] = "run"] /\ Push(w, ret[w].val)
  /\ UNCHANGED <<life, tried, rejected, done, terminated>>

PullReturns(w) ==
  /\ call[w].op = "pull"
  /\ Return(w)
  /\ IF ret[w].status = "closed"
     THEN work' = [work EXCEPT ![w] = "exited"] /\ UNCHANGED stack
     ELSE work' = [work EXCEPT ![w] = "run"] /\ Push(w, ret[w].val)
  /\ UNCHANGED <<life, tried, rejected, done, terminated>>

(* The task returns, to worker_thread or to the helper that ran it. *)
TaskDone(t) ==
  LET n == Len(stack[t]) IN
  /\ n > 0 /\ call[t] = Idle
  /\ stack' = [stack EXCEPT ![t] = SubSeq(@, 1, n - 1)]
  /\ done' = done \cup {stack[t][n]}
  /\ work' = IF t # Owner /\ n = 1 THEN [work EXCEPT ![t] = "loop"] ELSE work
  /\ UNCHANGED <<vars, life, tried, rejected, terminated>>

-----------------------------------------------------------------------------
(* submit, try_executing_one *)

Submit(t, k) ==
  /\ InPool(t)
  /\ k \notin tried
  /\ Call(t, "push", k)
  /\ tried' = tried \cup {k}
  /\ UNCHANGED <<life, work, stack, rejected, done, terminated>>

(* push() threw sync_queue_closed.  Either the task that submitted lets it *)
(* out and worker_thread calls std::terminate, or the task catches it.     *)
SubmitReturns(t) ==
  /\ call[t].op = "push"
  /\ Return(t)
  /\ IF ret[t].status = "throw"
     THEN rejected' = rejected \cup {call[t].arg} /\ terminated' \in BOOLEAN
     ELSE UNCHANGED <<rejected, terminated>>
  /\ UNCHANGED <<life, work, stack, tried, done>>

TryExecutingOne(t) ==
  /\ InPool(t)
  /\ Call(t, "try_pull", Null)
  /\ UNCHANGED poolState

(* Mutant: the task that was pulled is dropped. *)
TryPullDrops(t) ==
  /\ call[t].op = "try_pull"
  /\ Return(t)
  /\ UNCHANGED poolState

TryPullReturns(t) ==
  /\ call[t].op = "try_pull"
  /\ Return(t)
  /\ IF ret[t].status = "success" THEN Push(t, ret[t].val) ELSE UNCHANGED stack
  /\ UNCHANGED <<life, work, tried, rejected, done, terminated>>

-----------------------------------------------------------------------------
(* A step of the queue, short of the return to its caller. *)
QueueStep(t) == pc[t] # "return" /\ Run(t) /\ UNCHANGED poolState

(* What thread t does next without a decision of the pool's user. *)
Progress(t) ==
  /\ ~terminated
  /\ \/ QueueStep(t)
     \/ SubmitReturns(t) \/ TryPullReturns(t) \/ TaskDone(t)
     \/ t # Owner /\ (Spawn(t) \/ WorkerLoop(t) \/ WorkerPull(t) \/ PullReturns(t))
     \/ t = Owner /\ (CloseReturns \/ Join)

(* What the user of the pool decides, in the owner or in a task. *)
Submits(t) == ~terminated /\ \E k \in Tasks : Submit(t, k)
Helps(t) == ~terminated /\ TryExecutingOne(t)
Ends == ~terminated /\ (SpawnFails \/ Destroy)
Wakes(t) == ~terminated /\ SpuriousWake(t) /\ UNCHANGED poolState

PoolNext ==
  \/ Ends
  \/ \E t \in Threads : Progress(t) \/ Submits(t) \/ Helps(t) \/ Wakes(t)

PoolSpec == PoolInit /\ [][PoolNext]_poolVars

-----------------------------------------------------------------------------
(* Every pool variable keeps its type. *)
PoolTypeOK ==
  /\ life \in {"ctor", "open", "closing", "joining", "gone"}
  /\ work \in [Workers -> {"none", "loop", "pull", "run", "exited"}]
  /\ stack \in [Threads -> Seq(Tasks)]
  /\ tried \subseteq Tasks /\ rejected \subseteq Tasks /\ done \subseteq Tasks
  /\ terminated \in BOOLEAN

(* Where task k is: on its way in, in the queue, in the hands of a thread  *)
(* that pulled it, on a thread's stack, and at its end.                    *)
Entering(k) == {t \in Threads : call[t].op = "push" /\ call[t].arg = k /\ ret[t].status # "success"}
Queued(k) == {i \in DOMAIN Contents : Contents[i] = k}
Holding(k) == {t \in Threads : ret[t].val = k}
Running(k) == UNION {{<<t, i>> : i \in {j \in DOMAIN stack[t] : stack[t][j] = k}} : t \in Threads}
Ended(k) == {e \in {"done", "rejected"} : k \in IF e = "done" THEN done ELSE rejected}

Places(k) ==
  ({"entering"} \X Entering(k)) \cup ({"queued"} \X Queued(k)) \cup ({"holding"} \X Holding(k))
    \cup ({"running"} \X Running(k)) \cup ({"ended"} \X Ended(k))

(* A submitted task is in exactly one place, whatever the interleaving: no *)
(* task is run twice and none is lost, and those left when the pool dies   *)
(* are those still in its queue.  A task is rejected, or ends the process, *)
(* only once the pool is closing.                                          *)
EachTaskOnce ==
  /\ rejected # {} => closed_ /\ life # "open"
  /\ terminated => rejected # {}
  /\ \A k \in tried : \E p \in Places(k) : Places(k) = {p}

(* When the pool is gone no thread is inside its queue, asleep on its      *)
(* condition variable, or running one of its tasks.                        *)
NoUseAfterDestroy ==
  life = "gone" =>
    /\ waiters = {}
    /\ \A t \in Threads : call[t] = Idle /\ stack[t] = << >>
=============================================================================
