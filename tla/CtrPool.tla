------------------------------- MODULE CtrPool -------------------------------
(***************************************************************************)
(* ctr_pool (thread_pool_base.h:76-171) and its intr_thread workers: every *)
(* worker has a steal_queue of its own, tasks submitted from outside go to *)
(* a main queue, and a thread looks for a task in its own queue, then in   *)
(* the main queue, then in everyone's.  The destructor interrupts the      *)
(* workers one by one and joins them.                                      *)
(*                                                                         *)
(* A steal_queue is a deque under one mutex, so each operation of it is a  *)
(* step; the main queue is a normal_queue, whose operations take effect in *)
(* one step (SyncQueue implements FifoQueue).                              *)
(***************************************************************************)
EXTENDS Integers, Sequences, FiniteSets

CONSTANTS N,          \* the number of workers
          Tasks

ASSUME NAssumption == N \in Nat \ {0}

Workers == 0 .. N - 1       \* a worker is its index _M_idx
Owner == N                  \* the thread that has the pool
Threads == Workers \cup {Owner}

VARIABLES
  life,        \* the pool: "none", "ctor", "open", "interrupting", "joining", "gone"
  work,        \* work[w]: "none", "alive", "leaving" (callable()() runs), "exited"
  seek,        \* seek[t]: where try_executing_one() looks next, or "none"
  off,         \* off[t]: the __off of steal_from_other_tasks
  stack,       \* stack[t]: the tasks t is running, the innermost last
  local, main, \* the queues, the next task to be pulled first
  interrupted, \* interrupted[w]: the flag of worker w
  flagLive,    \* flagLive[w]: that thread_local flag exists
  next, half,  \* the destructor is at worker next, between the two halves of set()
  tried, done, aborted,   \* the tasks submitted, run to their end, left by an exception
  terminated   \* std::terminate was called

ctrQueues == <<local, main>>
ctrDestroy == <<life, next, half>>
ctrFlags == <<interrupted, flagLive>>
ctrTasks == <<tried, done, aborted>>
ctrVars == <<ctrDestroy, work, seek, off, stack, ctrQueues, ctrFlags, ctrTasks, terminated>>

CtrInit ==
  /\ life = "none" /\ next = 0 /\ half = FALSE
  /\ work = [w \in Workers |-> "none"]
  /\ seek = [t \in Threads |-> "none"]
  /\ off = [t \in Threads |-> 0]
  /\ stack = [t \in Threads |-> << >>]
  /\ local = [w \in Workers |-> << >>]
  /\ main = << >>
  /\ interrupted = [w \in Workers |-> FALSE]
  /\ flagLive = [w \in Workers |-> FALSE]
  /\ tried = {} /\ done = {} /\ aborted = {}
  /\ terminated = FALSE

(* _M_idx, which only workers set. *)
Idx(t) == IF t = Owner THEN 0 ELSE t

(* steal_queue, used at one end: push(), and a try_pull() that finds a task. *)
PushFront(d, k) == <<k>> \o d
PopFront(d) == Tail(d)

Seeks(t, from, to) == seek[t] = from /\ seek' = [seek EXCEPT ![t] = to]
Runs(t, k) == stack' = [stack EXCEPT ![t] = Append(@, k)]

(* Thread t is in code of the pool's user: in a task, or it is the owner.  *)
InUserCode(t) == seek[t] = "none" /\ (stack[t] # << >> \/ (t = Owner /\ life = "open"))

-----------------------------------------------------------------------------
(* The constructor *)

CtrConstruct ==
  /\ life = "none"
  /\ life' = "ctor"
  /\ UNCHANGED <<next, half, work, seek, off, stack, ctrQueues, ctrFlags, ctrTasks, terminated>>

(* intr_thread's constructor returns when the new thread has told it where *)
(* its flag is.                                                            *)
CtrSpawn(w) ==
  /\ life = "ctor" /\ work[w] = "none"
  /\ \A v \in 0 .. w - 1 : work[v] # "none"
  /\ work' = [work EXCEPT ![w] = "alive"]
  /\ flagLive' = [flagLive EXCEPT ![w] = TRUE]
  /\ life' = IF w = N - 1 THEN "open" ELSE "ctor"
  /\ UNCHANGED <<next, half, seek, off, stack, ctrQueues, interrupted, ctrTasks, terminated>>

(* A thread cannot be started: the members are destroyed, the joiner       *)
(* first, and nobody interrupts the workers that run already.              *)
CtrSpawnFails ==
  /\ life = "ctor"
  /\ life' = "joining"
  /\ UNCHANGED <<next, half, work, seek, off, stack, ctrQueues, ctrFlags, ctrTasks, terminated>>

-----------------------------------------------------------------------------
(* The loop of a worker *)

(* Mutant: the loop has no interrupt_point(). *)
CtrLoopForever(w) ==
  /\ work[w] = "alive" /\ stack[w] = << >>
  /\ Seeks(w, "none", "local")
  /\ UNCHANGED <<ctrDestroy, work, off, stack, ctrQueues, ctrFlags, ctrTasks, terminated>>

CtrLoop(w) ==
  /\ work[w] = "alive" /\ stack[w] = << >> /\ seek[w] = "none"
  /\ \/ /\ ~interrupted[w]
        /\ Seeks(w, "none", "local")
        /\ UNCHANGED work
     \/ /\ interrupted[w]
        /\ work' = [work EXCEPT ![w] = "leaving"]
        /\ UNCHANGED seek
  /\ UNCHANGED <<ctrDestroy, off, stack, ctrQueues, ctrFlags, ctrTasks, terminated>>

(* The thread ends, and its thread_local flag with it. *)
CtrExit(w) ==
  /\ work[w] = "leaving"
  /\ work' = [work EXCEPT ![w] = "exited"]
  /\ flagLive' = [flagLive EXCEPT ![w] = FALSE]
  /\ UNCHANGED <<ctrDestroy, seek, off, stack, ctrQueues, interrupted, ctrTasks, terminated>>

-----------------------------------------------------------------------------
(* try_executing_one *)

CtrTryExecutingOne(t) ==
  /\ InUserCode(t)
  /\ Seeks(t, "none", "local")
  /\ UNCHANGED <<ctrDestroy, work, off, stack, ctrQueues, ctrFlags, ctrTasks, terminated>>

FromLocalTasks(t) ==
  LET mine == IF t = Owner THEN << >> ELSE local[t] IN
  /\ \/ /\ mine = << >>
        /\ Seeks(t, "local", "main")
        /\ UNCHANGED <<stack, local>>
     \/ /\ mine # << >>
        /\ Seeks(t, "local", "none")
        /\ Runs(t, Head(mine))
        /\ local' = [local EXCEPT ![t] = PopFront(@)]
  /\ UNCHANGED <<ctrDestroy, work, off, main, ctrFlags, ctrTasks, terminated>>

(* Mutant: the main queue is never looked at. *)
FromNoMainTasks(t) ==
  /\ Seeks(t, "main", "steal")
  /\ UNCHANGED <<ctrDestroy, work, off, stack, ctrQueues, ctrFlags, ctrTasks, terminated>>

FromMainTasks(t) ==
  /\ \/ /\ main = << >>
        /\ Seeks(t, "main", "steal")
        /\ UNCHANGED <<stack, main>>
     \/ /\ main # << >>
        /\ Seeks(t, "main", "none")
        /\ Runs(t, Head(main))
        /\ main' = Tail(main)
  /\ UNCHANGED <<ctrDestroy, work, off, local, ctrFlags, ctrTasks, terminated>>

(* Mutant: the task is copied from one end and removed at the other. *)
StealsBackPopsFront(t) ==
  LET v == (Idx(t) + off[t] + 1) % N IN
  /\ \/ /\ local[v] # << >>
        /\ Seeks(t, "steal", "none")
        /\ Runs(t, local[v][Len(local[v])])
        /\ local' = [local EXCEPT ![v] = PopFront(@)]
        /\ off' = [off EXCEPT ![t] = 0]
     \/ /\ local[v] = << >>
        /\ Seeks(t, "steal", IF off[t] + 1 = N THEN "none" ELSE "steal")
        /\ off' = [off EXCEPT ![t] = (@ + 1) % N]
        /\ UNCHANGED <<stack, local>>
  /\ UNCHANGED <<ctrDestroy, work, main, ctrFlags, ctrTasks, terminated>>

(* The queues after _M_idx, round to its own; then the thread gives up.    *)
StealFromOtherTasks(t) ==
  LET v == (Idx(t) + off[t] + 1) % N IN
  /\ \/ /\ local[v] # << >>
        /\ Seeks(t, "steal", "none")
        /\ Runs(t, Head(local[v]))
        /\ local' = [local EXCEPT ![v] = PopFront(@)]
        /\ off' = [off EXCEPT ![t] = 0]
     \/ /\ local[v] = << >>
        /\ Seeks(t, "steal", IF off[t] + 1 = N THEN "none" ELSE "steal")
        /\ off' = [off EXCEPT ![t] = (@ + 1) % N]
        /\ UNCHANGED <<stack, local>>
  /\ UNCHANGED <<ctrDestroy, work, main, ctrFlags, ctrTasks, terminated>>

-----------------------------------------------------------------------------
(* Tasks *)

CtrSubmit(t, k) ==
  /\ InUserCode(t)
  /\ k \notin tried
  /\ tried' = tried \cup {k}
  /\ IF t = Owner THEN main' = Append(main, k) /\ UNCHANGED local
                  ELSE local' = [local EXCEPT ![t] = PushFront(@, k)] /\ UNCHANGED main
  /\ UNCHANGED <<ctrDestroy, work, seek, off, stack, ctrFlags, done, aborted, terminated>>

CtrTaskDone(t) ==
  LET n == Len(stack[t]) IN
  /\ n > 0 /\ seek[t] = "none"
  /\ stack' = [stack EXCEPT ![t] = SubSeq(@, 1, n - 1)]
  /\ done' = done \cup {stack[t][n]}
  /\ UNCHANGED <<ctrDestroy, work, seek, off, ctrQueues, ctrFlags, tried, aborted, terminated>>

(* An exception leaves the innermost tasks of t; m tasks are left, the     *)
(* next one of which caught it.                                            *)
Unwinds(t, m) ==
  /\ seek[t] = "none" /\ m \in 0 .. Len(stack[t]) - 1
  /\ stack' = [stack EXCEPT ![t] = SubSeq(@, 1, m)]
  /\ aborted' = aborted \cup {stack[t][i] : i \in m + 1 .. Len(stack[t])}
  /\ UNCHANGED <<ctrDestroy, seek, off, ctrQueues, ctrFlags, tried, done>>

(* A task reaches an interrupt_point(); the thread ends with it. *)
CtrTaskInterrupted(w) ==
  /\ interrupted[w]
  /\ \E m \in 0 .. Cardinality(Tasks) :
       /\ Unwinds(w, m)
       /\ work' = IF m = 0 THEN [work EXCEPT ![w] = "leaving"] ELSE work
  /\ UNCHANGED terminated

(* A task throws.  Out of a worker's task the exception reaches            *)
(* intr_thread, whose promise has its value already: set_exception throws  *)
(* and the process ends.                                                   *)
CtrTaskThrows(t) ==
  /\ \E m \in 0 .. Cardinality(Tasks) :
       /\ Unwinds(t, m)
       /\ terminated' = (t # Owner /\ m = 0)
  /\ UNCHANGED work

-----------------------------------------------------------------------------
(* The destructor *)

CtrDestroys ==
  /\ life = "open" /\ stack[Owner] = << >> /\ seek[Owner] = "none"
  /\ life' = "interrupting"
  /\ UNCHANGED <<next, half, work, seek, off, stack, ctrQueues, ctrFlags, ctrTasks, terminated>>

(* set(): interrupted.store(true) *)
CtrSetStores ==
  /\ life = "interrupting" /\ ~half
  /\ half' = TRUE
  /\ interrupted' = [interrupted EXCEPT ![next] = TRUE]
  /\ UNCHANGED <<life, next, work, seek, off, stack, ctrQueues, flagLive, ctrTasks, terminated>>

(* Mutant: the loop over the workers takes one step too many. *)
CtrSetOneMore ==
  /\ life = "interrupting" /\ half
  /\ half' = FALSE
  /\ next' = next + 1
  /\ life' = IF next = N THEN "joining" ELSE "interrupting"
  /\ UNCHANGED <<work, seek, off, stack, ctrQueues, ctrFlags, ctrTasks, terminated>>

(* set(): lock condi_mutex of the flag and notify. *)
CtrSetNotifies ==
  /\ life = "interrupting" /\ half
  /\ half' = FALSE
  /\ next' = next + 1
  /\ life' = IF next = N - 1 THEN "joining" ELSE "interrupting"
  /\ UNCHANGED <<work, seek, off, stack, ctrQueues, ctrFlags, ctrTasks, terminated>>

(* Mutant: a worker that has run out of tasks is not waited for. *)
CtrJoinsSome ==
  /\ life = "joining"
  /\ \A w \in Workers : stack[w] = << >>
  /\ life' = "gone"
  /\ UNCHANGED <<next, half, work, seek, off, stack, ctrQueues, ctrFlags, ctrTasks, terminated>>

(* The joiner; then the queues are destroyed with the tasks left in them.  *)
CtrJoin ==
  /\ life = "joining"
  /\ \A w \in Workers : work[w] \in {"none", "exited"}
  /\ life' = "gone"
  /\ UNCHANGED <<next, half, work, seek, off, stack, ctrQueues, ctrFlags, ctrTasks, terminated>>

-----------------------------------------------------------------------------
(* What a thread does next without a decision of the pool's user. *)
CtrProgress(t) ==
  \/ FromLocalTasks(t) \/ FromMainTasks(t) \/ StealFromOtherTasks(t)
  \/ t \in Workers /\ (CtrSpawn(t) \/ CtrLoop(t) \/ CtrExit(t))
  \/ t = Owner /\ (CtrSetStores \/ CtrSetNotifies \/ CtrJoin)

CtrUser(t) ==
  \/ \E k \in Tasks : CtrSubmit(t, k)
  \/ CtrTryExecutingOne(t) \/ CtrTaskThrows(t)
  \/ t \in Workers /\ CtrTaskInterrupted(t)
  \/ t = Owner /\ (CtrConstruct \/ CtrSpawnFails \/ CtrDestroys)

CtrNext == ~terminated /\ \E t \in Threads : CtrProgress(t) \/ CtrUser(t) \/ CtrTaskDone(t)

(* Threads are scheduled, and a task ends, even one that helps in between. *)
CtrFairness ==
  /\ \A t \in 0 .. N : WF_ctrVars(~terminated /\ CtrProgress(t))
  /\ \A t \in 0 .. N : SF_ctrVars(~terminated /\ CtrTaskDone(t))

CtrSpec == CtrInit /\ [][CtrNext]_ctrVars /\ CtrFairness

-----------------------------------------------------------------------------
(* Every variable of the pool keeps its type. *)
CtrTypeOK ==
  /\ life \in {"none", "ctor", "open", "interrupting", "joining", "gone"}
  /\ next \in 0 .. N /\ half \in BOOLEAN
  /\ work \in [Workers -> {"none", "alive", "leaving", "exited"}]
  /\ seek \in [Threads -> {"none", "local", "main", "steal"}]
  /\ off \in [Threads -> 0 .. N - 1]
  /\ stack \in [Threads -> Seq(Tasks)]
  /\ local \in [Workers -> Seq(Tasks)] /\ main \in Seq(Tasks)
  /\ interrupted \in [Workers -> BOOLEAN] /\ flagLive \in [Workers -> BOOLEAN]
  /\ tried \subseteq Tasks /\ done \subseteq Tasks /\ aborted \subseteq Tasks
  /\ terminated \in BOOLEAN

CtrQueued(k) == \E s \in {local[w] : w \in Workers} \cup {main} : \E i \in DOMAIN s : s[i] = k

(* The lists of tasks, and the places where task k is: at the positions    *)
(* of the lists that hold it, or among the tasks that ended.               *)
Lists == ({"local"} \X Workers) \cup {<<"main", 0>>} \cup ({"stack"} \X Threads)

TasksAt(q) == IF q[1] = "local" THEN local[q[2]] ELSE IF q[1] = "main" THEN main ELSE stack[q[2]]

PlacesIn(s, k) == {i \in DOMAIN s : s[i] = k}

CtrPlaces(k) ==
  (UNION {{q} \X PlacesIn(TasksAt(q), k) : q \in Lists})
    \cup {p \in {<<<<"done", 0>>, 0>>} : k \in done}
    \cup {p \in {<<<<"aborted", 0>>, 0>>} : k \in aborted}

(* A submitted task is in exactly one place, whoever pulls or steals it:   *)
(* once in one queue, once on one thread's stack, or ended.                *)
CtrEachTaskOnce == \A k \in tried : \E p \in CtrPlaces(k) : CtrPlaces(k) = {p}

(* When the pool is gone no worker is left in its loop, in its queues or   *)
(* in a task.                                                              *)
CtrNoUseAfterDestroy ==
  life = "gone" =>
    /\ \A w \in Workers : work[w] \in {"none", "exited"}
    /\ \A t \in Threads : seek[t] = "none" /\ stack[t] = << >>

(* The destructor interrupts and joins every worker, however many tasks    *)
(* are left in the queues.                                                 *)
CtrDestructorReturns == life = "interrupting" ~> life = "gone" \/ terminated

(* In an open pool a task is not left in a queue: its own worker, another  *)
(* one or a helper takes it.                                               *)
CtrTasksStart == \A k \in Tasks : CtrQueued(k) ~> ~CtrQueued(k) \/ life # "open" \/ terminated

(* set() uses the flag of a thread that still exists: the pool is to       *)
(* "fully control child thread in every details" (thread_pool_base.h:76).  *)
CtrFlagAlive == half => flagLive[next]
=============================================================================
