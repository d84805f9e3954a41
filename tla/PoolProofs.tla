------------------------------ MODULE PoolProofs ------------------------------
(***************************************************************************)
(* default_pool, for any number of workers and tasks: the pool calls its   *)
(* queue as the queue expects, so that the invariant of the queue holds in *)
(* it; when it is gone nobody is left inside; and every task that was      *)
(* submitted is in one place.                                              *)
(***************************************************************************)
EXTENDS BasePool, SyncQueueProofs

USE ThreadsAssumption DEF ThreadsAssumption

-----------------------------------------------------------------------------
(* The inductive invariant, part by part. *)

(* What is pushed is a task, and what pull() and try_pull() leave in the   *)
(* task is one, unless they say that there is none.                        *)
PullOps == {"pull", "try_pull"}

ResultInv ==
  \A t \in Threads :
    /\ call[t].op \in PullOps /\ ret[t].status = "success" => ret[t].val \in Tasks
    /\ call[t].op = "push" => call[t].arg \in Tasks
    /\ call[t].op = "pull" /\ ret[t] # NoRet => ret[t].status \in {"closed", "success"}

(* A worker is in the queue only while it pulls or runs a task, and calls  *)
(* pull() only between two tasks.                                          *)
WorkerInv ==
  \A w \in Workers :
    /\ work[w] \notin {"pull", "run"} => call[w] = Idle
    /\ work[w] = "run" <=> stack[w] # << >>
    /\ call[w].op = "pull" <=> work[w] = "pull" /\ call[w] # Idle
    /\ call[w].op # "close"

(* The owner closes the queue once, and nothing is left for it to do then. *)
OwnerInv ==
  /\ life \in {"ctor", "joining", "gone"} => call[Owner] = Idle
  /\ life # "open" => stack[Owner] = << >>
  /\ call[Owner].op = "close" <=> life = "closing"
  /\ call[Owner].op # "pull"

(* The joiner has seen every worker end. *)
GoneInv == life = "gone" => \A w \in Workers : work[w] \in {"none", "exited"}

PoolInv == IInv /\ ResultInv /\ PoolTypeOK /\ WorkerInv /\ OwnerInv /\ GoneInv

-----------------------------------------------------------------------------
(* The queue *)

(* Every step of the pool is a step of the queue or leaves it alone. *)
LEMMA PoolStepIsQueueStep == [PoolNext]_poolVars => [Next]_vars
<1> SUFFICES ASSUME PoolNext PROVE [Next]_vars
  BY DEF poolVars
<1>1. ASSUME NEW t \in Threads, Run(t) \/ CallAny(t) \/ SpuriousWake(t)
      PROVE  Next
  BY <1>1 DEF Next
<1>2. \A t \in Threads : Return(t) => Run(t)
  BY DEF Run
<1>3. \A t \in Threads : Call(t, "close", Null) \/ Call(t, "pull", Null) \/ Call(t, "try_pull", Null)
                           => CallAny(t)
  BY DEF CallAny, Ops, Pushes
<1>4. \A t \in Threads, k \in Tasks : Call(t, "push", k) => CallAny(t)
  BY DEF CallAny, Pushes, Tasks
<1>5. CASE Ends
  BY <1>1, <1>3, <1>5 DEF Ends, SpawnFails, Destroy
<1>6. ASSUME NEW t \in Threads, Progress(t)
      PROVE  [Next]_vars
  BY <1>1, <1>2, <1>3, <1>6
     DEF Progress, QueueStep, SubmitReturns, TryPullReturns, TaskDone, Spawn, WorkerLoop, WorkerPull,
         PullReturns, CloseReturns, Join
<1>7. ASSUME NEW t \in Threads, Submits(t) \/ Helps(t) \/ Wakes(t)
      PROVE  Next
  BY <1>1, <1>3, <1>4, <1>7 DEF Submits, Submit, Helps, TryExecutingOne, Wakes
<1> QED
  BY <1>5, <1>6, <1>7 DEF PoolNext

(* A step of a thread inside the queue is seen by the pool only when the   *)
(* call returns.                                                           *)
LEMMA InsideTheQueue ==
  ASSUME NEW t \in Threads, (Run(t) /\ pc[t] # "return") \/ SpuriousWake(t)
  PROVE  UNCHANGED call
  BY DEF Run, Step, PushCheckClosed, PushLock, PushData, PushNext, PushTail, PushNotify, PullLock,
         PullCheckEmpty, PullPredClosed, Block, PullCheckClosed, TryLock, TryCheckEmpty, EmptyCheck,
         PopNext, PopData, PopHead, Unlock, Closed, CloseStore, CloseNotify, Return, SpuriousWake

(* The queue gives its callers elements. *)
LEMMA ResultStep ==
  ASSUME IInv, ResultInv, [Next]_vars
  PROVE  ResultInv'
<1> USE DEF ResultInv, PullOps, Step, Tasks, locals, IInv, TypeOK
<1>1. CASE UNCHANGED vars
  BY <1>1 DEF vars
<1>2. ASSUME NEW t \in Threads, Run(t)
      PROVE  ResultInv'
  <2>1. CASE UNCHANGED <<call, ret>>
    BY <2>1
  <2>2. ASSUME NEW st \in Statuses, NEW v \in Values \cup {Null},
               UNCHANGED call, TakesEffect(t, st, v),
               call[t].op \in PullOps /\ st = "success" => v \in Values,
               call[t].op = "pull" => st \in {"closed", "success"}
        PROVE  ResultInv'
    BY <2>2 DEF TakesEffect, Result
  <2>3. CASE Return(t)
    BY <2>3 DEF Return, Idle, NoRet
  <2>4. CASE PopHead(t)
    <3>1. val[t] \in Values
      BY <2>4 DEF PopHead, EndsInv
    <3> QED
      BY <2>2, <2>4, <3>1 DEF PopHead, Statuses
  <2>5. CASE TryCheckEmpty(t) \/ EmptyCheck(t)
    <3>1. call[t].op \in {"try_pull", "empty"}
      BY <2>5 DEF TryCheckEmpty, EmptyCheck, CallInv, CallOf
    <3> QED
      BY <2>1, <2>2, <2>5, <3>1 DEF TryCheckEmpty, EmptyCheck, Statuses
  <2>6. CASE Closed(t) \/ CloseStore(t) \/ PushTail(t) \/ PushCheckClosed(t)
    <3>1. call[t].op \notin PullOps
      BY <2>6 DEF Closed, CloseStore, PushTail, PushCheckClosed, CallInv, CallOf, PushLabels, Pushes
    <3> QED
      BY <2>1, <2>2, <2>6, <3>1 DEF Closed, CloseStore, PushTail, PushCheckClosed, Statuses
  <2>7. CASE PullCheckClosed(t)
    BY <2>1, <2>2, <2>7 DEF PullCheckClosed, Statuses
  <2> QED
    BY <1>2, <2>1, <2>3, <2>4, <2>5, <2>6, <2>7
       DEF Run, PushLock, PushData, PushNext, PushNotify, PullLock, PullCheckEmpty, PullPredClosed,
           Block, TryLock, PopNext, PopData, Unlock, CloseNotify
<1>3. ASSUME NEW t \in Threads, CallAny(t)
      PROVE  ResultInv'
  <2>1. ret[t] = NoRet /\ UNCHANGED ret
    BY <1>3 DEF CallAny, Call, CallInv, CallOf, EndLabels
  <2>2. \A s \in Threads \ {t} : call'[s] = call[s]
    BY <1>3 DEF CallAny, Call
  <2>3. call'[t].op = "push" => call'[t].arg \in Tasks
    BY <1>3 DEF CallAny, Call, Ops, Pushes
  <2>4. ret'[t].status = "none"
    BY <2>1 DEF NoRet
  <2>5. ret' = ret
    BY <2>1
  <2> QED
    BY <2>1, <2>2, <2>3, <2>4, <2>5
<1>4. ASSUME NEW t \in Threads, SpuriousWake(t)
      PROVE  ResultInv'
  BY <1>4 DEF SpuriousWake
<1> QED
  BY <1>1, <1>2, <1>3, <1>4 DEF Next

-----------------------------------------------------------------------------
(* The pool *)

(* A step that is not seen outside the queue, and does not return from it. *)
LEMMA PoolQuietInv ==
  ASSUME PoolInv, UNCHANGED <<call, poolState>>
  PROVE  PoolTypeOK' /\ WorkerInv' /\ OwnerInv' /\ GoneInv'
  BY DEF PoolInv, PoolTypeOK, WorkerInv, OwnerInv, GoneInv, poolState

(* The pool before its constructor has run. *)
LEMMA PoolInitInv == PoolInit => PoolInv
<1> SUFFICES ASSUME PoolInit
             PROVE  PoolInv
  OBVIOUS
<1>1. IInv
  BY InitInv DEF PoolInit
<1>2. ResultInv
  BY DEF PoolInit, Init, ResultInv, Idle, NoRet, PullOps
<1>3. stack \in [Threads -> Seq(Tasks)]
  BY DEF PoolInit
<1> QED
  BY <1>1, <1>2, <1>3
     DEF PoolInit, Init, Idle, PoolInv, PoolTypeOK, WorkerInv, OwnerInv, GoneInv

(* What a call and its return do to call[t]. *)
LEMMA Calls ==
  ASSUME PoolInv, NEW t \in Threads, NEW o \in {"push", "pull", "try_pull", "close"}, NEW v,
         Call(t, o, v)
  PROVE  /\ call[t] = Idle /\ call'[t] # Idle /\ call'[t].op = o
         /\ \A s \in Threads \ {t} : call'[s] = call[s]
  BY DEF PoolInv, IInv, TypeOK, CallInv, CallOf, Call, Step, Idle

(* Return(t) ends the call of t, which had its result, and no other. *)
LEMMA PullEnded ==
  ASSUME PoolInv, NEW t \in Threads, Return(t)
  PROVE  /\ ret[t] # NoRet /\ call'[t] = Idle
         /\ \A s \in Threads \ {t} : call'[s] = call[s]
  BY DEF PoolInv, IInv, TypeOK, CallInv, CallOf, EndLabels, Return, Step

(* The constructor, the destructor and the joiner. *)
LEMMA LifeStep ==
  ASSUME PoolInv, SpawnFails \/ Destroy \/ CloseReturns \/ Join \/ \E w \in Workers : Spawn(w)
  PROVE  PoolTypeOK' /\ WorkerInv' /\ OwnerInv' /\ GoneInv'
<1> USE DEF PoolInv, PoolTypeOK, WorkerInv, OwnerInv, GoneInv
<1>1. CASE SpawnFails \/ Destroy
  <2>1. /\ life \in {"ctor", "open"} /\ life' = "closing"
        /\ Call(Owner, "close", Null)
        /\ UNCHANGED <<work, stack, tried, rejected, done, terminated>>
        /\ stack[Owner] = << >>
    BY <1>1 DEF SpawnFails, Destroy
  <2>2. /\ call[Owner] = Idle /\ call'[Owner] # Idle /\ call'[Owner].op = "close"
        /\ \A s \in Threads \ {Owner} : call'[s] = call[s]
    BY <2>1, Calls
  <2>3. PoolTypeOK'
    BY <2>1
  <2>4. WorkerInv'
    BY <2>1, <2>2
  <2>5. OwnerInv'
    BY <2>1, <2>2
  <2>6. GoneInv'
    BY <2>1, <2>2
  <2> QED
    BY <2>3, <2>4, <2>5, <2>6
<1>2. CASE CloseReturns
  <2>1. call[Owner].op = "close" /\ life' = "joining" /\ Return(Owner)
        /\ UNCHANGED <<work, stack, tried, rejected, done, terminated>>
    BY <1>2 DEF CloseReturns
  <2>2. call'[Owner] = Idle /\ \A s \in Threads \ {Owner} : call'[s] = call[s]
    BY <2>1, PullEnded
  <2>3. PoolTypeOK'
    BY <2>1, <2>2 DEF Idle
  <2>4. WorkerInv'
    BY <2>1, <2>2 DEF Idle
  <2>5. OwnerInv'
    BY <2>1, <2>2 DEF Idle
  <2>6. GoneInv'
    BY <2>1, <2>2 DEF Idle
  <2> QED
    BY <2>3, <2>4, <2>5, <2>6
<1>3. CASE Join
  <2>1. /\ life = "joining" /\ life' = "gone" /\ \A w \in Workers : work[w] \in {"none", "exited"}
        /\ UNCHANGED <<call, work, stack, tried, rejected, done, terminated>>
    BY <1>3 DEF Join, vars
  <2>2. PoolTypeOK'
    BY <2>1
  <2>3. WorkerInv'
    BY <2>1
  <2>4. OwnerInv'
    BY <2>1
  <2>5. GoneInv'
    BY <2>1
  <2> QED
    BY <2>2, <2>3, <2>4, <2>5
<1>4. ASSUME NEW w \in Workers, Spawn(w)
      PROVE  PoolTypeOK' /\ WorkerInv' /\ OwnerInv' /\ GoneInv'
  <2>1. /\ life = "ctor" /\ life' \in {"ctor", "open"} /\ work[w] = "none"
        /\ work' = [work EXCEPT ![w] = "loop"]
        /\ UNCHANGED <<call, stack, tried, rejected, done, terminated>>
    BY <1>4 DEF Spawn, vars
  <2>2. PoolTypeOK'
    BY <2>1 DEF Idle
  <2>3. WorkerInv'
    BY <2>1 DEF Idle
  <2>4. OwnerInv'
    BY <2>1 DEF Idle
  <2>5. GoneInv'
    BY <2>1 DEF Idle
  <2> QED
    BY <2>2, <2>3, <2>4, <2>5
<1> QED
  BY <1>1, <1>2, <1>3, <1>4

(* The loop of a worker. *)
LEMMA LoopStep ==
  ASSUME PoolInv, NEW w \in Workers, WorkerLoop(w) \/ WorkerPull(w) \/ PullReturns(w)
  PROVE  PoolTypeOK' /\ WorkerInv' /\ OwnerInv' /\ GoneInv'
<1> USE DEF PoolInv, PoolTypeOK, WorkerInv, OwnerInv, GoneInv
<1>1. CASE WorkerLoop(w)
  <2>1. /\ work[w] = "loop"
        /\ work' = [work EXCEPT ![w] = IF closed_ THEN "exited" ELSE "pull"]
        /\ UNCHANGED <<call, life, stack, tried, rejected, done, terminated>>
    BY <1>1 DEF WorkerLoop, vars
  <2>2. PoolTypeOK'
    BY <2>1 DEF Idle
  <2>3. WorkerInv'
    BY <2>1 DEF Idle
  <2>4. OwnerInv'
    BY <2>1 DEF Idle
  <2>5. GoneInv'
    BY <2>1 DEF Idle
  <2> QED
    BY <2>2, <2>3, <2>4, <2>5
<1>2. CASE WorkerPull(w)
  <2>1. /\ call[w] = Idle /\ call'[w] # Idle /\ call'[w].op = "pull"
        /\ \A s \in Threads \ {w} : call'[s] = call[s]
    BY <1>2, Calls DEF WorkerPull
  <2>2. work[w] = "pull" /\ UNCHANGED <<life, work, stack, tried, rejected, done, terminated>>
    BY <1>2 DEF WorkerPull, poolState
  <2>3. PoolTypeOK'
    BY <2>1, <2>2 DEF Idle
  <2>4. WorkerInv'
    BY <2>1, <2>2 DEF Idle
  <2>5. OwnerInv'
    BY <2>1, <2>2 DEF Idle
  <2>6. GoneInv'
    BY <2>1, <2>2 DEF Idle
  <2> QED
    BY <2>3, <2>4, <2>5, <2>6
<1>3. CASE PullReturns(w)
  <2>1. work[w] = "pull" /\ stack[w] = << >>
    BY <1>3 DEF PullReturns
  <2>2. ret[w] # NoRet /\ call'[w] = Idle /\ \A s \in Threads \ {w} : call'[s] = call[s]
    BY <1>3, PullEnded DEF PullReturns
  <2>3. CASE ret[w].status = "closed"
    <3>1. /\ work' = [work EXCEPT ![w] = "exited"]
          /\ UNCHANGED <<life, stack, tried, rejected, done, terminated>>
      BY <1>3, <2>3 DEF PullReturns
    <3>2. PoolTypeOK'
      BY <2>1, <2>2, <3>1 DEF Idle
    <3>3. WorkerInv'
      <4>1. \A v \in Workers \ {w} : call'[v] = call[v] /\ work'[v] = work[v] /\ stack'[v] = stack[v]
        BY <2>2, <3>1
      <4>2. call'[w] = Idle /\ call'[w].op = "none" /\ work'[w] = "exited" /\ stack'[w] = << >>
        BY <2>1, <2>2, <3>1 DEF Idle
      <4> QED
        BY <4>1, <4>2
    <3>4. OwnerInv'
      BY <2>1, <2>2, <3>1 DEF Idle
    <3>5. GoneInv'
      BY <2>1, <2>2, <3>1 DEF Idle
    <3> QED
      BY <3>2, <3>3, <3>4, <3>5
  <2>4. CASE ret[w].status # "closed"
    <3>1. ret[w].val \in Tasks
      BY <1>3, <2>2, <2>4 DEF PullReturns, ResultInv, PullOps
    <3>2. stack' = [stack EXCEPT ![w] = Append(@, ret[w].val)] /\ work' = [work EXCEPT ![w] = "run"]
      BY <1>3, <2>4 DEF PullReturns, Push
    <3>3. stack' \in [Threads -> Seq(Tasks)] /\ stack'[w] # << >>
      BY <3>1, <3>2
    <3>4. /\ UNCHANGED <<life, tried, rejected, done, terminated>>
          /\ \A v \in Threads \ {w} : stack'[v] = stack[v]
      BY <1>3, <3>2 DEF PullReturns
    <3>5. PoolTypeOK'
      BY <2>1, <2>2, <3>2, <3>3, <3>4 DEF Idle
    <3>6. WorkerInv'
      <4>1. \A v \in Workers \ {w} : call'[v] = call[v] /\ work'[v] = work[v] /\ stack'[v] = stack[v]
        BY <2>2, <3>2, <3>4
      <4>2. call'[w] = Idle /\ call'[w].op = "none" /\ work'[w] = "run"
        BY <2>2, <3>2 DEF Idle
      <4> QED
        BY <3>3, <4>1, <4>2
    <3>7. OwnerInv'
      BY <2>1, <2>2, <3>2, <3>3, <3>4 DEF Idle
    <3>8. GoneInv'
      BY <2>1, <2>2, <3>2, <3>3, <3>4 DEF Idle
    <3> QED
      BY <3>5, <3>6, <3>7, <3>8
  <2> QED
    BY <2>3, <2>4
<1> QED
  BY <1>1, <1>2, <1>3

(* Whoever uses the pool: the owner while it is open, or a task. *)
LEMMA WhoIsInPool ==
  ASSUME PoolInv, NEW t \in Threads, InPool(t) \/ call[t].op \in {"push", "try_pull"}
  PROVE  IF t = Owner THEN life = "open" ELSE work[t] = "run"
  BY DEF PoolInv, WorkerInv, OwnerInv, PoolTypeOK, InPool, Idle

(* submit() and try_executing_one(), and the end of a task. *)
LEMMA UseStep ==
  ASSUME PoolInv, NEW t \in Threads,
         \/ \E k \in Tasks : Submit(t, k)
         \/ SubmitReturns(t) \/ TryExecutingOne(t)
  PROVE  PoolTypeOK' /\ WorkerInv' /\ OwnerInv' /\ GoneInv'
<1> USE DEF PoolInv, PoolTypeOK, WorkerInv, OwnerInv, GoneInv
<1>1. IF t = Owner THEN life = "open" ELSE work[t] = "run"
  BY WhoIsInPool DEF Submit, SubmitReturns, TryExecutingOne
<1>2. /\ UNCHANGED <<life, work, stack, done>>
      /\ tried' \subseteq Tasks /\ rejected' \subseteq Tasks /\ terminated' \in BOOLEAN
  <2>1. call[t].op = "push" => call[t].arg \in Tasks
    BY DEF ResultInv
  <2> QED
    BY <2>1 DEF Submit, SubmitReturns, TryExecutingOne, poolState
<1>3. /\ call[t].op # "pull" /\ call'[t].op \notin {"pull", "close"}
      /\ \A s \in Threads \ {t} : call'[s] = call[s]
  <2>1. CASE SubmitReturns(t)
    <3>1. call[t].op = "push" /\ Return(t)
      BY <2>1 DEF SubmitReturns
    <3>2. call'[t] = Idle /\ \A s \in Threads \ {t} : call'[s] = call[s]
      BY <3>1, PullEnded
    <3> QED
      BY <3>1, <3>2 DEF Idle
  <2>2. CASE \E k \in Tasks : Submit(t, k)
    BY <2>2, Calls DEF Submit, Idle
  <2>3. CASE TryExecutingOne(t)
    BY <2>3, Calls DEF TryExecutingOne, Idle
  <2> QED
    BY <2>1, <2>2, <2>3
<1>4. PoolTypeOK'
  BY <1>1, <1>2, <1>3 DEF Idle
<1>5. WorkerInv'
  BY <1>1, <1>2, <1>3 DEF Idle
<1>6. OwnerInv'
  BY <1>1, <1>2, <1>3 DEF Idle
<1>7. GoneInv'
  BY <1>1, <1>2, <1>3 DEF Idle
<1> QED
  BY <1>4, <1>5, <1>6, <1>7

(* try_executing_one() comes back, with a task or without. *)
LEMMA HelpStep ==
  ASSUME PoolInv, NEW t \in Threads, TryPullReturns(t)
  PROVE  PoolTypeOK' /\ WorkerInv' /\ OwnerInv' /\ GoneInv'
<1> USE DEF PoolInv, PoolTypeOK, WorkerInv, OwnerInv, GoneInv
<1>1. IF t = Owner THEN life = "open" ELSE work[t] = "run"
  BY WhoIsInPool DEF TryPullReturns
<1>2. /\ call[t].op = "try_pull" /\ call'[t].op = "none"
      /\ \A s \in Threads \ {t} : call'[s] = call[s]
  <2>1. call[t].op = "try_pull" /\ Return(t)
    BY DEF TryPullReturns
  <2>2. call'[t] = Idle /\ \A s \in Threads \ {t} : call'[s] = call[s]
    BY <2>1, PullEnded
  <2> QED
    BY <2>1, <2>2 DEF Idle
<1>3. /\ UNCHANGED <<life, work, tried, rejected, done, terminated>>
      /\ \A s \in Threads \ {t} : stack'[s] = stack[s]
  BY DEF TryPullReturns, Push
<1>4. stack' \in [Threads -> Seq(Tasks)] /\ (stack[t] # << >> => stack'[t] # << >>)
  <2>1. CASE ret[t].status = "success"
    <3>1. ret[t].val \in Tasks
      BY <1>2, <2>1 DEF ResultInv, PullOps
    <3>2. stack' = [stack EXCEPT ![t] = Append(@, ret[t].val)]
      BY <2>1 DEF TryPullReturns, Push
    <3>3. stack[t] \in Seq(Tasks)
      OBVIOUS
    <3>4. Append(stack[t], ret[t].val) \in Seq(Tasks) /\ Append(stack[t], ret[t].val) # << >>
      BY <3>1, <3>3, AppendProperties
    <3> QED
      BY <3>2, <3>4
  <2>2. CASE ret[t].status # "success"
    BY <2>2 DEF TryPullReturns
  <2> QED
    BY <2>1, <2>2
<1>5. PoolTypeOK'
  BY <1>1, <1>2, <1>3, <1>4
<1>6. WorkerInv'
  BY <1>1, <1>2, <1>3, <1>4, SMTT(30)
<1>7. OwnerInv'
  BY <1>1, <1>2, <1>3, <1>4
<1>8. GoneInv'
  BY <1>1, <1>2, <1>3, <1>4
<1> QED
  BY <1>5, <1>6, <1>7, <1>8

(* A task ends, for the worker or for the helper that ran it. *)
LEMMA DoneStep ==
  ASSUME PoolInv, NEW t \in Threads, TaskDone(t)
  PROVE  PoolTypeOK' /\ WorkerInv' /\ OwnerInv' /\ GoneInv'
<1> USE DEF PoolInv, PoolTypeOK, WorkerInv, OwnerInv, GoneInv
<1> DEFINE n == Len(stack[t])
<1>1. /\ n \in Nat /\ n > 0 /\ stack[t] \in Seq(Tasks) /\ stack[t] # << >> /\ call[t] = Idle
      /\ stack' = [stack EXCEPT ![t] = SubSeq(stack[t], 1, n - 1)]
      /\ UNCHANGED <<call, life, tried, rejected, terminated>>
  BY DEF TaskDone, vars
<1>2. /\ SubSeq(stack[t], 1, n - 1) \in Seq(Tasks)
      /\ Len(SubSeq(stack[t], 1, n - 1)) = n - 1
  BY <1>1, SubSeqProperties
<1>3. stack' \in [Threads -> Seq(Tasks)] /\ \A s \in Threads \ {t} : stack'[s] = stack[s]
  BY <1>1, <1>2
<1>4. stack'[t] # << >> <=> n # 1
  <2>1. stack'[t] = SubSeq(stack[t], 1, n - 1)
    BY <1>1
  <2>2. SubSeq(stack[t], 1, n - 1) = << >> <=> Len(SubSeq(stack[t], 1, n - 1)) = 0
    BY <1>2, EmptySeq
  <2>3. n - 1 = 0 <=> n = 1
    BY <1>1
  <2> QED
    BY <1>2, <2>1, <2>2, <2>3
<1>5. done' \subseteq Tasks
  <2>1. stack[t][n] \in Tasks
    BY <1>1
  <2> QED
    BY <2>1 DEF TaskDone
<1>6. work' = IF t # Owner /\ n = 1 THEN [work EXCEPT ![t] = "loop"] ELSE work
  BY DEF TaskDone
<1>7. IF t = Owner THEN life = "open" ELSE work[t] = "run"
  BY <1>1
<1> HIDE DEF n
<1>8. PoolTypeOK'
  BY <1>1, <1>3, <1>4, <1>5, <1>6, <1>7
<1>9. WorkerInv'
  BY <1>1, <1>3, <1>4, <1>5, <1>6, <1>7
<1>10. OwnerInv'
  BY <1>1, <1>3, <1>4, <1>5, <1>6, <1>7
<1>11. GoneInv'
  BY <1>1, <1>3, <1>4, <1>5, <1>6, <1>7
<1> QED
  BY <1>8, <1>9, <1>10, <1>11

(* Every step keeps the invariant. *)
LEMMA PoolStepInv == PoolInv /\ [PoolNext]_poolVars => PoolInv'
<1> SUFFICES ASSUME PoolInv, [PoolNext]_poolVars
             PROVE  PoolInv'
  OBVIOUS
<1>1. IInv' /\ ResultInv'
  <2>1. [Next]_vars
    BY PoolStepIsQueueStep
  <2> QED
    BY <2>1, TypeStep, MutexStep, CallStep, LateStep, ShapeStep, EndsStep, ChainStep, ResultStep
       DEF PoolInv, IInv
<1>2. PoolTypeOK' /\ WorkerInv' /\ OwnerInv' /\ GoneInv'
  <2>1. CASE UNCHANGED poolVars
    BY <2>1, PoolQuietInv DEF poolVars, vars
  <2>2. CASE Ends
    BY <2>2, LifeStep DEF Ends
  <2>3. ASSUME NEW t \in Threads, QueueStep(t) \/ Wakes(t)
        PROVE  UNCHANGED <<call, poolState>>
    BY <2>3, InsideTheQueue DEF QueueStep, Wakes
  <2>4. ASSUME NEW t \in Threads, Progress(t)
        PROVE  PoolTypeOK' /\ WorkerInv' /\ OwnerInv' /\ GoneInv'
    BY <2>3, <2>4, PoolQuietInv, LifeStep, LoopStep, UseStep, HelpStep, DoneStep DEF Progress
  <2>5. ASSUME NEW t \in Threads, Submits(t) \/ Helps(t) \/ Wakes(t)
        PROVE  PoolTypeOK' /\ WorkerInv' /\ OwnerInv' /\ GoneInv'
    BY <2>3, <2>5, PoolQuietInv, UseStep DEF Submits, Helps
  <2> QED
    BY <2>1, <2>2, <2>4, <2>5 DEF PoolNext
<1> QED
  BY <1>1, <1>2 DEF PoolInv

-----------------------------------------------------------------------------
(* The invariant of the pool, with that of its queue: every reachable      *)
(* state satisfies it.                                                     *)
THEOREM PoolInvariance == PoolSpec => []PoolInv
<1> QED
  BY PoolInitInv, PoolStepInv, PTL DEF PoolSpec

(* The pool uses its queue as the queue expects: every behaviour of the    *)
(* pool is one of the queue, so that all that is proved of the queue holds *)
(* in the pool.                                                            *)
THEOREM PoolUsesQueue == PoolSpec => Spec
<1>1. PoolInit => Init
  BY DEF PoolInit
<1> QED
  BY <1>1, PoolStepIsQueueStep, PTL DEF PoolSpec, Spec

(* The threads of a pool are in their code and their tasks are tasks. *)
THEOREM PoolTypeCorrect == PoolSpec => []PoolTypeOK
<1>1. PoolInv => PoolTypeOK
  BY DEF PoolInv
<1> QED
  BY <1>1, PoolInvariance, PTL

(* When the pool is gone no thread is in its queue, asleep on its          *)
(* condition variable, or in one of its tasks.                             *)
THEOREM PoolSafeDestruction == PoolSpec => []NoUseAfterDestroy
<1>1. ASSUME PoolInv, life = "gone"
      PROVE  waiters = {} /\ \A t \in Threads : call[t] = Idle /\ stack[t] = << >>
  <2>1. \A t \in Threads : call[t] = Idle /\ stack[t] = << >>
    BY <1>1 DEF PoolInv, WorkerInv, OwnerInv, GoneInv
  <2>2. \A t \in Threads : t \notin waiters
    BY <1>1, <2>1 DEF PoolInv, IInv, CallInv, CallOf, MutexInv
  <2>3. waiters \subseteq Threads
    BY <1>1 DEF PoolInv, IInv, TypeOK
  <2> QED
    BY <2>1, <2>2, <2>3
<1>2. PoolInv => NoUseAfterDestroy
  BY <1>1 DEF NoUseAfterDestroy
<1> QED
  BY <1>2, PoolInvariance, PTL
-----------------------------------------------------------------------------
(* Where a task is: the inductive invariant, part by part. *)

(* How the pool uses its queue, and which results carry a task. *)
UseInv ==
  \A t \in Threads :
    /\ call[t].op \in PullOps \cup {"none", "push", "close"}
    /\ ret[t].val \in Tasks => call[t].op \in PullOps /\ ret[t].status = "success"
    /\ call[t].op = "push" /\ ret[t] # NoRet => ret[t].status \in {"success", "throw"}
    /\ ret[t].status = "throw" => closed_

(* The queue is closed by the destructor, or by a constructor that fails. *)
ClosedInv == closed_ => life \in {"closing", "joining", "gone"}

RejectInv == (rejected # {} => closed_ /\ life # "open") /\ (terminated => rejected # {})

(* Task k is nowhere, or in one place. *)
Absent(k) ==
  Entering(k) = {} /\ Queued(k) = {} /\ Holding(k) = {} /\ Running(k) = {} /\ Ended(k) = {}

Lone(k) ==
  \/ /\ \E x : Entering(k) = {x}
     /\ Queued(k) = {} /\ Holding(k) = {} /\ Running(k) = {} /\ Ended(k) = {}
  \/ /\ \E x : Queued(k) = {x}
     /\ Entering(k) = {} /\ Holding(k) = {} /\ Running(k) = {} /\ Ended(k) = {}
  \/ /\ \E x : Holding(k) = {x}
     /\ Entering(k) = {} /\ Queued(k) = {} /\ Running(k) = {} /\ Ended(k) = {}
  \/ /\ \E x : Running(k) = {x}
     /\ Entering(k) = {} /\ Queued(k) = {} /\ Holding(k) = {} /\ Ended(k) = {}
  \/ /\ \E x : Ended(k) = {x}
     /\ Entering(k) = {} /\ Queued(k) = {} /\ Holding(k) = {} /\ Running(k) = {}

PlaceInv == \A k \in Tasks : IF k \in tried THEN Lone(k) ELSE Absent(k)

PoolOnceInv == UseInv /\ ClosedInv /\ RejectInv /\ PlaceInv

(* A task that is in one place has one place. *)
LEMMA LoneHasPlace ==
  ASSUME NEW k, Lone(k)
  PROVE  \E p \in Places(k) : Places(k) = {p}
<1>1. ASSUME NEW x, Entering(k) = {x}, Queued(k) = {}, Holding(k) = {}, Running(k) = {}, Ended(k) = {}
      PROVE  Places(k) = {<<"entering", x>>}
  BY <1>1 DEF Places
<1>2. ASSUME NEW x, Entering(k) = {}, Queued(k) = {x}, Holding(k) = {}, Running(k) = {}, Ended(k) = {}
      PROVE  Places(k) = {<<"queued", x>>}
  BY <1>2 DEF Places
<1>3. ASSUME NEW x, Entering(k) = {}, Queued(k) = {}, Holding(k) = {x}, Running(k) = {}, Ended(k) = {}
      PROVE  Places(k) = {<<"holding", x>>}
  BY <1>3 DEF Places
<1>4. ASSUME NEW x, Entering(k) = {}, Queued(k) = {}, Holding(k) = {}, Running(k) = {x}, Ended(k) = {}
      PROVE  Places(k) = {<<"running", x>>}
  BY <1>4 DEF Places
<1>5. ASSUME NEW x, Entering(k) = {}, Queued(k) = {}, Holding(k) = {}, Running(k) = {}, Ended(k) = {x}
      PROVE  Places(k) = {<<"ended", x>>}
  BY <1>5 DEF Places
<1> QED
  BY <1>1, <1>2, <1>3, <1>4, <1>5 DEF Lone

(* What happens to no task leaves every task where it is. *)
LEMMA NoTaskMoves ==
  ASSUME PlaceInv, UNCHANGED <<Contents, stack, done, rejected, tried>>,
         \A t \in Threads, k \in Tasks :
           /\ (call'[t].op = "push" /\ call'[t].arg = k /\ ret'[t].status # "success")
                <=> (call[t].op = "push" /\ call[t].arg = k /\ ret[t].status # "success")
           /\ ret'[t].val = k <=> ret[t].val = k
  PROVE  PlaceInv'
<1> SUFFICES ASSUME NEW k \in Tasks
             PROVE  (IF k \in tried THEN Lone(k) ELSE Absent(k))'
  BY DEF PlaceInv
<1>1. Entering(k)' = Entering(k) /\ Holding(k)' = Holding(k)
  BY DEF Entering, Holding
<1>2. Queued(k)' = Queued(k) /\ Running(k)' = Running(k) /\ Ended(k)' = Ended(k)
  BY DEF Queued, Running, Ended
<1> QED
  BY <1>1, <1>2 DEF PlaceInv, Lone, Absent

(* What a step inside the queue does, as its caller sees it. *)
LEMMA QueueEffect ==
  ASSUME IInv, IInv', NEW t \in Threads, (Run(t) /\ pc[t] # "return") \/ SpuriousWake(t)
  PROVE  /\ call' = call
         /\ \/ Contents' = Contents /\ ret' = ret /\ closed_' = closed_
            \/ \E s \in Threads : Fifo!Enq(s) \/ Fifo!Deq(s)
            \/ \E s \in Threads, st \in Statuses :
                 /\ Contents' = Contents
                 /\ ret[s] = NoRet /\ ret' = [ret EXCEPT ![s] = Result(st, Null)]
                 /\ call[s].op = "push" => st = "throw"
                 /\ st = "throw" => closed_
                 /\ (closed_' = closed_) \/ (closed_' /\ call[s].op = "close")
<1>1. call' = call
  BY InsideTheQueue
<1>2. [Next]_vars
  BY DEF Next
<1>3. [Fifo!Next]_(Fifo!vars)
  BY <1>2, StepRefines
<1>4. CASE UNCHANGED Fifo!vars
  BY <1>1, <1>4 DEF Fifo!vars
<1>5. ASSUME NEW s \in Threads, NEW o \in Fifo!Ops, NEW v, Fifo!Call(s, o, v)
      PROVE  FALSE
  BY <1>1, <1>5 DEF Fifo!Call, Fifo!Ops, Fifo!Idle, IInv, TypeOK
<1>6. ASSUME NEW s \in Threads, Fifo!Return(s)
      PROVE  FALSE
  BY <1>1, <1>6 DEF Fifo!Return, Fifo!Idle, IInv, TypeOK
<1>7. ASSUME NEW s \in Threads, Fifo!EnqClosed(s) \/ Fifo!DeqClosed(s) \/ Fifo!DeqEmpty(s) \/ Fifo!Observe(s) \/ Fifo!Close(s)
      PROVE  \E st \in Statuses :
                 /\ Contents' = Contents
                 /\ ret[s] = NoRet /\ ret' = [ret EXCEPT ![s] = Result(st, Null)]
                 /\ call[s].op = "push" => st = "throw"
                 /\ st = "throw" => closed_
                 /\ (closed_' = closed_) \/ (closed_' /\ call[s].op = "close")
  BY <1>7 DEF Fifo!EnqClosed, Fifo!DeqClosed, Fifo!DeqEmpty, Fifo!Observe, Fifo!Close, Fifo!Pending,
              Fifo!TakesEffect, Fifo!Result, Fifo!NoRet, Result, NoRet, Statuses
<1> QED
  BY <1>1, <1>3, <1>4, <1>5, <1>6, <1>7 DEF Fifo!Next, Fifo!Ops, Fifo!Pushes

(* The pusher's task joins the queue. *)
LEMMA EnqPlaces ==
  ASSUME PoolInv, PoolOnceInv, NEW t \in Threads, Fifo!Enq(t),
         UNCHANGED <<stack, done, rejected, tried>>
  PROVE  PlaceInv'
<1> DEFINE a == call[t].arg
<1> USE DEF Tasks
<1>1. /\ call[t].op = "push" /\ a \in Tasks /\ ret[t] = NoRet /\ call' = call
      /\ Contents' = Append(Contents, a) /\ ret' = [ret EXCEPT ![t] = Result("success", Null)]
  BY DEF Fifo!Enq, Fifo!Pending, Fifo!Pushes, Fifo!TakesEffect, Fifo!Result, Fifo!NoRet, Result, NoRet,
         PoolOnceInv, UseInv, PullOps, PoolInv, ResultInv
<1>2. ret \in [Threads -> [status : Statuses, val : Values \cup {Null}]] /\ Contents \in Seq(Values)
  BY ContentsType DEF PoolInv, IInv, TypeOK, ContentsOK
<1>3. ret'[t].status = "success" /\ ret'[t].val = Null /\ \A s \in Threads \ {t} : ret'[s] = ret[s]
  BY <1>1, <1>2 DEF Result
<1>4. ret[t].status = "none" /\ ret[t].val = Null
  BY <1>1 DEF NoRet
<1>5. /\ DOMAIN Contents = 1 .. Len(Contents) /\ Len(Contents) \in Nat
      /\ DOMAIN Contents' = 1 .. Len(Contents) + 1
      /\ Contents'[Len(Contents) + 1] = a /\ \A i \in 1 .. Len(Contents) : Contents'[i] = Contents[i]
  BY <1>1, <1>2, AppendProperties
<1> SUFFICES ASSUME NEW k \in Tasks
             PROVE  (IF k \in tried THEN Lone(k) ELSE Absent(k))'
  BY DEF PlaceInv
<1>6. IF k \in tried THEN Lone(k) ELSE Absent(k)
  BY DEF PoolOnceInv, PlaceInv
<1>7. Holding(k)' = Holding(k)
  BY <1>3, <1>4 DEF Holding
<1>8. Running(k)' = Running(k) /\ Ended(k)' = Ended(k) /\ tried' = tried
  BY DEF Running, Ended
<1>9. Entering(k)' = Entering(k) \ {t}
  BY <1>1, <1>3, <1>4 DEF Entering
<1>10. CASE k # a
  <2>1. Entering(k)' = Entering(k)
    BY <1>1, <1>9, <1>10 DEF Entering
  <2>2. Queued(k)' = Queued(k)
    BY <1>5, <1>10 DEF Queued
  <2> QED
    BY <1>6, <1>7, <1>8, <2>1, <2>2 DEF Lone, Absent
<1>11. CASE k = a
  <2>1. t \in Entering(k)
    BY <1>1, <1>4, <1>11 DEF Entering
  <2>2. /\ k \in tried /\ Entering(k) = {t}
        /\ Queued(k) = {} /\ Holding(k) = {} /\ Running(k) = {} /\ Ended(k) = {}
    BY <1>6, <2>1 DEF Lone, Absent
  <2>3. Queued(k)' = {Len(Contents) + 1}
    BY <1>5, <1>11, <2>2 DEF Queued
  <2> QED
    BY <1>7, <1>8, <1>9, <2>2, <2>3 DEF Lone
<1> QED
  BY <1>10, <1>11

(* The oldest task goes to the puller. *)
LEMMA DeqPlaces ==
  ASSUME PoolInv, PoolOnceInv, NEW t \in Threads, Fifo!Deq(t),
         UNCHANGED <<stack, done, rejected, tried>>
  PROVE  PlaceInv'
<1> DEFINE a == Head(Contents)
<1> USE DEF Tasks
<1>1. /\ call[t].op \in PullOps /\ ret[t] = NoRet /\ call' = call /\ Contents # << >>
      /\ Contents' = Tail(Contents) /\ ret' = [ret EXCEPT ![t] = Result("success", a)]
  BY DEF Fifo!Deq, Fifo!Pending, Fifo!TakesEffect, Fifo!Result, Fifo!NoRet, Result, NoRet, PullOps
<1>2. ret \in [Threads -> [status : Statuses, val : Values \cup {Null}]] /\ Contents \in Seq(Values)
  BY ContentsType DEF PoolInv, IInv, TypeOK, ContentsOK
<1>3. ret'[t].status = "success" /\ ret'[t].val = a /\ \A s \in Threads \ {t} : ret'[s] = ret[s]
  BY <1>1, <1>2 DEF Result
<1>4. ret[t].status = "none" /\ ret[t].val = Null
  BY <1>1 DEF NoRet
<1>5. /\ DOMAIN Contents = 1 .. Len(Contents) /\ Len(Contents) \in Nat \ {0} /\ a \in Tasks
      /\ DOMAIN Contents' = 1 .. Len(Contents) - 1
      /\ Contents[1] = a /\ \A i \in 1 .. Len(Contents) - 1 : Contents'[i] = Contents[i + 1]
  BY <1>1, <1>2, HeadTailProperties, EmptySeq
<1> SUFFICES ASSUME NEW k \in Tasks
             PROVE  (IF k \in tried THEN Lone(k) ELSE Absent(k))'
  BY DEF PlaceInv
<1>6. IF k \in tried THEN Lone(k) ELSE Absent(k)
  BY DEF PoolOnceInv, PlaceInv
<1>7. Entering(k)' = Entering(k)
  BY <1>1, <1>3 DEF Entering, PullOps
<1>8. Running(k)' = Running(k) /\ Ended(k)' = Ended(k) /\ tried' = tried
  BY DEF Running, Ended
<1>9. \A i \in 1 .. Len(Contents) - 1 : i + 1 \in 1 .. Len(Contents) /\ (i \in Queued(k)' <=> i + 1 \in Queued(k))
  BY <1>5 DEF Queued
<1>10. CASE k # a
  <2>1. Holding(k)' = Holding(k)
    <3>1. ret'[t].val # k /\ ret[t].val # k
      BY <1>3, <1>4, <1>10, NullAssumption DEF NullAssumption
    <3>2. \A s \in Threads \ {t} : ret'[s].val = ret[s].val
      BY <1>3
    <3> QED
      BY <3>1, <3>2 DEF Holding
  <2>2. Queued(k) = {} => Queued(k)' = {}
    BY <1>5, <1>9 DEF Queued
  <2>3. ASSUME NEW x, Queued(k) = {x}
        PROVE  \E y : Queued(k)' = {y}
    <3>1. x \in 2 .. Len(Contents)
      <4>1. x \in 1 .. Len(Contents) /\ Contents[x] = k
        BY <1>5, <2>3 DEF Queued
      <4>2. x # 1
        BY <1>5, <1>10, <4>1
      <4> QED
        BY <1>5, <4>1, <4>2
    <3>2. x - 1 \in 1 .. Len(Contents) - 1 /\ (x - 1) + 1 = x
      BY <1>5, <3>1
    <3>3. Queued(k)' \subseteq 1 .. Len(Contents) - 1
      BY <1>5 DEF Queued
    <3>4. x - 1 \in Queued(k)'
      BY <1>9, <2>3, <3>2
    <3>5. \A i \in Queued(k)' : i = x - 1
      BY <1>5, <1>9, <2>3, <3>1, <3>3
    <3> QED
      BY <3>4, <3>5
  <2> QED
    BY <1>6, <1>7, <1>8, <2>1, <2>2, <2>3 DEF Lone, Absent
<1>11. CASE k = a
  <2>1. 1 \in Queued(k)
    BY <1>5, <1>11 DEF Queued
  <2>2. /\ k \in tried /\ Queued(k) = {1}
        /\ Entering(k) = {} /\ Holding(k) = {} /\ Running(k) = {} /\ Ended(k) = {}
    BY <1>6, <2>1 DEF Lone, Absent
  <2>3. Queued(k)' = {}
    <3>1. \A i \in 1 .. Len(Contents) - 1 : i + 1 # 1
      BY <1>5
    <3>2. Queued(k)' \subseteq 1 .. Len(Contents) - 1
      BY <1>5 DEF Queued
    <3> QED
      BY <1>9, <2>2, <3>1, <3>2
  <2>4. Holding(k)' = {t}
    BY <1>3, <1>11, <2>2 DEF Holding
  <2> QED
    BY <1>7, <1>8, <2>2, <2>3, <2>4 DEF Lone
<1> QED
  BY <1>10, <1>11

(* A step of a thread inside the queue. *)
LEMMA QueueStepOnce ==
  ASSUME PoolInv, PoolInv', PoolOnceInv, NEW t \in Threads, QueueStep(t) \/ Wakes(t)
  PROVE  PoolOnceInv'
<1>1. /\ (Run(t) /\ pc[t] # "return") \/ SpuriousWake(t)
      /\ IInv /\ IInv' /\ UNCHANGED poolState
  BY DEF QueueStep, Wakes, PoolInv
<1>2. call' = call /\ UNCHANGED <<life, stack, tried, rejected, done, terminated>>
  BY <1>1, QueueEffect DEF poolState
<1>3. CASE Contents' = Contents /\ ret' = ret /\ closed_' = closed_
  <2>1. PlaceInv'
    BY <1>2, <1>3, NoTaskMoves DEF PoolOnceInv
  <2> QED
    BY <1>2, <1>3, <2>1 DEF PoolOnceInv, UseInv, ClosedInv, RejectInv
<1>4. ASSUME NEW s \in Threads, Fifo!Enq(s)
      PROVE  PoolOnceInv'
  <2>1. PlaceInv'
    BY <1>2, <1>4, EnqPlaces
  <2>2. /\ call[s].op = "push" /\ closed_' = closed_
        /\ ret' = [ret EXCEPT ![s] = Result("success", Null)]
    BY <1>4 DEF Fifo!Enq, Fifo!Pending, Fifo!Pushes, Fifo!TakesEffect, Fifo!Result, Result,
                PoolOnceInv, UseInv, PullOps
  <2>3. UseInv'
    BY <1>2, <2>2 DEF PoolOnceInv, UseInv, Result, PoolInv, IInv, TypeOK, Tasks
  <2> QED
    BY <1>2, <2>1, <2>2, <2>3 DEF PoolOnceInv, ClosedInv, RejectInv
<1>5. ASSUME NEW s \in Threads, Fifo!Deq(s)
      PROVE  PoolOnceInv'
  <2>1. PlaceInv'
    BY <1>2, <1>5, DeqPlaces
  <2>2. /\ call[s].op \in PullOps /\ closed_' = closed_
        /\ ret' = [ret EXCEPT ![s] = Result("success", Head(Contents))]
    BY <1>5 DEF Fifo!Deq, Fifo!Pending, Fifo!TakesEffect, Fifo!Result, Result, PullOps
  <2>3. UseInv'
    BY <1>2, <2>2 DEF PoolOnceInv, UseInv, Result, PoolInv, IInv, TypeOK, PullOps
  <2> QED
    BY <1>2, <2>1, <2>2, <2>3 DEF PoolOnceInv, ClosedInv, RejectInv
<1>6. ASSUME NEW s \in Threads, NEW st \in Statuses,
             Contents' = Contents,
             ret[s] = NoRet, ret' = [ret EXCEPT ![s] = Result(st, Null)],
             call[s].op = "push" => st = "throw",
             st = "throw" => closed_,
             (closed_' = closed_) \/ (closed_' /\ call[s].op = "close")
      PROVE  PoolOnceInv'
  <2>1. /\ ret'[s] = Result(st, Null) /\ ret'[s].status = st /\ ret'[s].val = Null
        /\ \A r \in Threads \ {s} : ret'[r] = ret[r]
        /\ ret[s].status = "none" /\ ret[s].val = Null
    BY <1>6 DEF Result, NoRet, PoolInv, IInv, TypeOK
  <2>2. PlaceInv'
    <3>1. \A r \in Threads, k \in Tasks :
           /\ (call'[r].op = "push" /\ call'[r].arg = k /\ ret'[r].status # "success")
                <=> (call[r].op = "push" /\ call[r].arg = k /\ ret[r].status # "success")
           /\ ret'[r].val = k <=> ret[r].val = k
      BY <1>2, <1>6, <2>1 DEF Tasks
    <3> QED
      BY <1>2, <1>6, <3>1, NoTaskMoves DEF PoolOnceInv
  <2>3. closed_ => closed_'
    BY <1>6
  <2>4. UseInv'
    BY <1>2, <1>6, <2>1, <2>3 DEF PoolOnceInv, UseInv, Tasks
  <2>5. call[s].op = "close" => life = "closing"
    BY DEF PoolInv, WorkerInv, OwnerInv
  <2>6. ClosedInv' /\ RejectInv'
    BY <1>2, <1>6, <2>3, <2>5 DEF PoolOnceInv, ClosedInv, RejectInv
  <2> QED
    BY <2>2, <2>4, <2>6 DEF PoolOnceInv
<1> QED
  BY <1>1, <1>3, <1>4, <1>5, <1>6, QueueEffect

(* What a call and its return do to the calls and the results. *)
LEMMA CallOrReturn ==
  ASSUME IInv, NEW t \in Threads, NEW o \in Ops, NEW v, Call(t, o, v) \/ Return(t)
  PROVE  /\ Contents' = Contents /\ closed_' = closed_
         /\ \A s \in Threads \ {t} : call'[s] = call[s] /\ ret'[s] = ret[s]
         /\ Call(t, o, v) => call[t] = Idle /\ call'[t].op = o /\ call'[t].arg = v /\ ret' = ret /\ ret[t] = NoRet
         /\ Return(t) => call'[t] = Idle /\ ret'[t] = NoRet /\ ret[t] # NoRet
<1>1. Contents' = Contents
  <2>1. UNCHANGED <<head, tail, data, val, head_mutex>>
    BY DEF Call, Return, list, locks, locals
  <2> QED
    BY <2>1, ContentsKept
<1>2. CASE Call(t, o, v)
  <2>1. pc[t] = "idle" /\ ret' = ret /\ closed_' = closed_
        /\ call' = [call EXCEPT ![t] = [op |-> o, arg |-> v, late |-> closed_]]
    BY <1>2 DEF Call, Step
  <2>2. call[t] = Idle /\ ret[t] = NoRet
    BY <2>1 DEF IInv, CallInv, CallOf, EndLabels
  <2>3. ~Return(t)
    BY <2>1 DEF Return, Step
  <2> QED
    BY <1>1, <2>1, <2>2, <2>3 DEF IInv, TypeOK
<1>3. CASE Return(t)
  <2>1. pc[t] = "return" /\ closed_' = closed_
        /\ call' = [call EXCEPT ![t] = Idle] /\ ret' = [ret EXCEPT ![t] = NoRet]
    BY <1>3 DEF Return, Step
  <2>2. ret[t] # NoRet
    BY <2>1 DEF IInv, CallInv, CallOf, EndLabels
  <2>3. ~Call(t, o, v)
    BY <2>1 DEF Call, Step
  <2> QED
    BY <1>1, <2>1, <2>2, <2>3 DEF IInv, TypeOK
<1> QED
  BY <1>2, <1>3

(* A call that pushes nothing, and a return that brings no task, move none. *)
LEMMA CallMovesNothing ==
  ASSUME PoolInv, PoolOnceInv, NEW t \in Threads,
         \/ \E o \in {"pull", "try_pull", "close"} : Call(t, o, Null)
         \/ Return(t) /\ ret[t].val \notin Tasks /\ (call[t].op = "push" => ret[t].status # "throw"),
         UNCHANGED <<stack, tried, rejected, done>>
  PROVE  PlaceInv' /\ UseInv' /\ closed_' = closed_
<1> USE NullAssumption DEF NullAssumption, Tasks
<1>1. CASE \E o \in {"pull", "try_pull", "close"} : Call(t, o, Null)
  <2>1. PICK o \in {"pull", "try_pull", "close"} : Call(t, o, Null)
    BY <1>1
  <2>2. o \in Ops
    BY DEF Ops
  <2>3. /\ Contents' = Contents /\ closed_' = closed_ /\ ret' = ret /\ ret[t] = NoRet
        /\ \A s \in Threads \ {t} : call'[s] = call[s]
        /\ call[t] = Idle /\ call'[t].op = o
    BY <2>1, <2>2, CallOrReturn DEF PoolInv
  <2>4. PlaceInv'
    BY <2>3, NoTaskMoves DEF PoolOnceInv, Idle
  <2>5. UseInv'
    BY <2>3 DEF PoolOnceInv, UseInv, NoRet, PullOps
  <2> QED
    BY <2>3, <2>4, <2>5
<1>2. CASE Return(t) /\ ret[t].val \notin Tasks /\ (call[t].op = "push" => ret[t].status # "throw")
  <2>1. /\ Contents' = Contents /\ closed_' = closed_
        /\ \A s \in Threads \ {t} : call'[s] = call[s] /\ ret'[s] = ret[s]
        /\ call'[t] = Idle /\ ret'[t] = NoRet /\ ret[t] # NoRet
    <3>1. "pull" \in Ops
      BY DEF Ops
    <3> QED
      BY <1>2, <3>1, CallOrReturn DEF PoolInv
  <2>2. call[t].op = "push" => ret[t].status = "success"
    BY <1>2, <2>1 DEF PoolOnceInv, UseInv
  <2>3. PlaceInv'
    <3>1. \A r \in Threads, k \in Tasks :
           /\ (call'[r].op = "push" /\ call'[r].arg = k /\ ret'[r].status # "success")
                <=> (call[r].op = "push" /\ call[r].arg = k /\ ret[r].status # "success")
           /\ ret'[r].val = k <=> ret[r].val = k
      BY <1>2, <2>1, <2>2 DEF Idle, NoRet
    <3> QED
      BY <2>1, <3>1, NoTaskMoves DEF PoolOnceInv
  <2>4. UseInv'
    BY <2>1 DEF PoolOnceInv, UseInv, NoRet, Idle, PullOps
  <2> QED
    BY <2>1, <2>3, <2>4
<1> QED
  BY <1>1, <1>2

(* A task is submitted: it enters. *)
LEMMA SubmitOnce ==
  ASSUME PoolInv, PoolOnceInv, NEW t \in Threads, NEW a \in Tasks, Submit(t, a)
  PROVE  PoolOnceInv'
<1> USE NullAssumption DEF NullAssumption, Tasks
<1>1. a \notin tried /\ tried' = tried \cup {a} /\ Call(t, "push", a)
      /\ UNCHANGED <<life, work, stack, rejected, done, terminated>>
  BY DEF Submit
<1>2. /\ Contents' = Contents /\ closed_' = closed_ /\ ret' = ret /\ ret[t] = NoRet
      /\ \A s \in Threads \ {t} : call'[s] = call[s]
      /\ call[t] = Idle /\ call'[t].op = "push" /\ call'[t].arg = a
  <2>1. "push" \in Ops
    BY DEF Ops
  <2> QED
    BY <1>1, <2>1, CallOrReturn DEF PoolInv
<1>3. UseInv'
  BY <1>2 DEF PoolOnceInv, UseInv, NoRet
<1>4. PlaceInv'
  <2> SUFFICES ASSUME NEW k \in Tasks
               PROVE  (IF k \in tried THEN Lone(k) ELSE Absent(k))'
    BY DEF PlaceInv
  <2>1. IF k \in tried THEN Lone(k) ELSE Absent(k)
    BY DEF PoolOnceInv, PlaceInv
  <2>2. /\ Queued(k)' = Queued(k) /\ Holding(k)' = Holding(k)
        /\ Running(k)' = Running(k) /\ Ended(k)' = Ended(k)
    BY <1>1, <1>2 DEF Queued, Holding, Running, Ended
  <2>3. CASE k # a
    <3>1. Entering(k)' = Entering(k)
      BY <1>2, <2>3 DEF Entering, Idle
    <3> QED
      BY <1>1, <2>1, <2>2, <2>3, <3>1 DEF Lone, Absent
  <2>4. CASE k = a
    <3>1. Entering(k) = {}
      BY <1>1, <2>1, <2>4 DEF Absent
    <3>2. Entering(k)' = {t}
      BY <1>2, <2>4, <3>1 DEF Entering, NoRet
    <3> QED
      BY <1>1, <2>1, <2>2, <2>4, <3>2 DEF Lone, Absent
  <2> QED
    BY <2>3, <2>4
<1> QED
  BY <1>1, <1>2, <1>3, <1>4 DEF PoolOnceInv, ClosedInv, RejectInv

(* The queue was closed: the task is rejected. *)
LEMMA RejectOnce ==
  ASSUME PoolInv, PoolOnceInv, NEW t \in Threads, SubmitReturns(t)
  PROVE  PoolOnceInv'
<1> DEFINE a == call[t].arg
<1> USE NullAssumption DEF NullAssumption, Tasks
<1>1. /\ call[t].op = "push" /\ Return(t) /\ a \in Tasks
      /\ UNCHANGED <<life, work, stack, tried, done>>
  BY DEF SubmitReturns, PoolInv, ResultInv
<1>2. CASE ret[t].status # "throw"
  <2>1. UNCHANGED <<rejected, terminated>>
    BY <1>2 DEF SubmitReturns
  <2>2. ret[t].val \notin Tasks
    BY <1>1 DEF PoolOnceInv, UseInv, PullOps
  <2>3. PlaceInv' /\ UseInv' /\ closed_' = closed_
    BY <1>1, <1>2, <2>1, <2>2, CallMovesNothing
  <2> QED
    BY <1>1, <2>1, <2>3 DEF PoolOnceInv, ClosedInv, RejectInv
<1>3. CASE ret[t].status = "throw"
  <2>1. rejected' = rejected \cup {a} /\ closed_ /\ life # "open"
    BY <1>3 DEF SubmitReturns, PoolOnceInv, UseInv, ClosedInv
  <2>2. /\ Contents' = Contents /\ closed_' = closed_
        /\ \A s \in Threads \ {t} : call'[s] = call[s] /\ ret'[s] = ret[s]
        /\ call'[t] = Idle /\ ret'[t] = NoRet
    <3>1. "push" \in Ops
      BY DEF Ops
    <3> QED
      BY <1>1, <3>1, CallOrReturn DEF PoolInv
  <2>3. UseInv'
    BY <2>2 DEF PoolOnceInv, UseInv, NoRet, Idle
  <2>4. PlaceInv'
    <3> SUFFICES ASSUME NEW k \in Tasks
                 PROVE  (IF k \in tried THEN Lone(k) ELSE Absent(k))'
      BY DEF PlaceInv
    <3>1. IF k \in tried THEN Lone(k) ELSE Absent(k)
      BY DEF PoolOnceInv, PlaceInv
    <3>2. Queued(k)' = Queued(k) /\ Running(k)' = Running(k)
      BY <1>1, <2>2 DEF Queued, Running
    <3>3. Holding(k)' = Holding(k)
      <4>1. ret[t].val # k /\ ret'[t].val # k
        BY <1>1, <2>2 DEF PoolOnceInv, UseInv, PullOps, NoRet
      <4> QED
        BY <2>2, <4>1 DEF Holding
    <3>4. CASE k # a
      <4>1. Entering(k)' = Entering(k) /\ Ended(k)' = Ended(k)
        BY <1>1, <2>1, <2>2, <3>4 DEF Entering, Ended, Idle
      <4> QED
        BY <1>1, <3>1, <3>2, <3>3, <4>1 DEF Lone, Absent
    <3>5. CASE k = a
      <4>1. t \in Entering(k)
        BY <1>1, <1>3, <3>5 DEF Entering
      <4>2. /\ k \in tried /\ Entering(k) = {t}
            /\ Queued(k) = {} /\ Holding(k) = {} /\ Running(k) = {} /\ Ended(k) = {}
        BY <3>1, <4>1 DEF Lone, Absent
      <4>3. Entering(k)' = {}
        BY <2>2, <4>2 DEF Entering, Idle
      <4>4. Ended(k)' = {"rejected"}
        BY <1>1, <2>1, <3>5, <4>2 DEF Ended
      <4> QED
        BY <1>1, <3>2, <3>3, <4>2, <4>3, <4>4 DEF Lone
    <3> QED
      BY <3>4, <3>5
  <2> QED
    BY <1>1, <2>1, <2>2, <2>3, <2>4 DEF PoolOnceInv, ClosedInv, RejectInv
<1> QED
  BY <1>2, <1>3

(* Where task k is on the stack of thread t. *)
Depths(t, k) == {j \in DOMAIN stack[t] : stack[t][j] = k}

(* A task is on a stack where one of the threads runs it. *)
LEMMA RunningAtDepths ==
  ASSUME NEW k
  PROVE  /\ Running(k) = {} <=> \A t \in Threads : Depths(t, k) = {}
         /\ \A t \in Threads : \A n \in Depths(t, k) : <<t, n>> \in Running(k)
         /\ \A x \in Running(k) : \E t \in Threads : \E n \in Depths(t, k) : x = <<t, n>>
<1>1. \A t \in Threads : \A n \in Depths(t, k) : <<t, n>> \in Running(k)
  BY DEF Running, Depths
<1>2. \A x \in Running(k) : \E t \in Threads : \E n \in Depths(t, k) : x = <<t, n>>
  BY DEF Running, Depths
<1> QED
  BY <1>1, <1>2

(* The task that a thread has pulled goes on its stack. *)
LEMMA TakePlaces ==
  ASSUME PoolInv, PoolOnceInv, NEW t \in Threads, Return(t), ret[t].val \in Tasks,
         stack' = [stack EXCEPT ![t] = Append(@, ret[t].val)], UNCHANGED <<tried, rejected, done>>
  PROVE  PlaceInv' /\ UseInv' /\ closed_' = closed_
<1> DEFINE a == ret[t].val
           m == Len(stack[t]) + 1
<1> USE NullAssumption DEF NullAssumption, Tasks
<1>1. /\ Contents' = Contents /\ closed_' = closed_
      /\ \A s \in Threads \ {t} : call'[s] = call[s] /\ ret'[s] = ret[s]
      /\ call'[t] = Idle /\ ret'[t] = NoRet
  <2>1. "pull" \in Ops
    BY DEF Ops
  <2> QED
    BY <2>1, CallOrReturn DEF PoolInv
<1>2. UseInv'
  BY <1>1 DEF PoolOnceInv, UseInv, NoRet, Idle
<1>3. call[t].op # "push"
  BY DEF PoolOnceInv, UseInv, PullOps
<1>4. /\ DOMAIN stack[t] = 1 .. m - 1 /\ m \in Nat \ {0} /\ DOMAIN stack'[t] = 1 .. m
      /\ stack'[t][m] = a /\ \A i \in 1 .. m - 1 : stack'[t][i] = stack[t][i]
      /\ \A s \in Threads \ {t} : stack'[s] = stack[s]
  <2>1. stack[t] \in Seq(Tasks) /\ stack'[t] = Append(stack[t], a)
        /\ \A s \in Threads \ {t} : stack'[s] = stack[s]
    BY DEF PoolInv, PoolTypeOK
  <2> QED
    BY <2>1, AppendProperties
<1> HIDE DEF m
<1>5. PlaceInv'
  <2> SUFFICES ASSUME NEW k \in Tasks
               PROVE  (IF k \in tried THEN Lone(k) ELSE Absent(k))'
    BY DEF PlaceInv
  <2>1. IF k \in tried THEN Lone(k) ELSE Absent(k)
    BY DEF PoolOnceInv, PlaceInv
  <2>2. Queued(k)' = Queued(k) /\ Ended(k)' = Ended(k)
    BY <1>1 DEF Queued, Ended
  <2>3. Entering(k)' = Entering(k)
    BY <1>1, <1>3 DEF Entering, Idle
  <2>4. \A s \in Threads \ {t} : Depths(s, k)' = Depths(s, k)
    BY <1>4 DEF Depths
  <2>5. CASE k # a
    <3>1. Holding(k)' = Holding(k)
      BY <1>1, <2>5 DEF Holding, NoRet
    <3>2. Depths(t, k)' = Depths(t, k)
      BY <1>4, <2>5 DEF Depths
    <3>3. Running(k)' = Running(k)
      BY <2>4, <3>2 DEF Running, Depths
    <3> QED
      BY <2>1, <2>2, <2>3, <3>1, <3>3 DEF Lone, Absent
  <2>6. CASE k = a
    <3>1. t \in Holding(k)
      BY <2>6 DEF Holding
    <3>2. /\ k \in tried /\ Holding(k) = {t}
          /\ Entering(k) = {} /\ Queued(k) = {} /\ Running(k) = {} /\ Ended(k) = {}
      BY <2>1, <3>1 DEF Lone, Absent
    <3>3. Holding(k)' = {}
      BY <1>1, <3>2 DEF Holding, NoRet
    <3>4. \A s \in Threads : Depths(s, k) = {}
      BY <3>2, RunningAtDepths
    <3>5. Depths(t, k)' = {m} /\ \A s \in Threads \ {t} : Depths(s, k)' = {}
      BY <1>4, <2>4, <2>6, <3>4 DEF Depths
    <3>6. Running(k)' = {<<t, m>>}
      BY <3>5 DEF Running, Depths
    <3> QED
      BY <2>2, <2>3, <3>2, <3>3, <3>6 DEF Lone
  <2> QED
    BY <2>5, <2>6
<1> QED
  BY <1>1, <1>2, <1>5

(* A task ends, and nobody else has it. *)
LEMMA DoneOnce ==
  ASSUME PoolInv, PoolOnceInv, NEW t \in Threads, TaskDone(t)
  PROVE  PoolOnceInv'
<1> DEFINE n == Len(stack[t])
           a == stack[t][n]
<1> USE DEF Tasks
<1>1. /\ n \in Nat \ {0} /\ stack[t] \in Seq(Tasks) /\ done' = done \cup {a}
      /\ stack' = [stack EXCEPT ![t] = SubSeq(@, 1, n - 1)]
      /\ UNCHANGED <<vars, life, tried, rejected, terminated>>
  BY DEF TaskDone, PoolInv, PoolTypeOK
<1>2. UNCHANGED <<call, ret, closed_, Contents>>
  <2>1. UNCHANGED <<head, tail, data, val, head_mutex, call, ret, closed_>>
    BY <1>1 DEF vars, list, locks, locals
  <2> QED
    BY <2>1, ContentsKept DEF PoolInv
<1>3. /\ DOMAIN stack[t] = 1 .. n /\ DOMAIN stack'[t] = 1 .. n - 1
      /\ \A i \in 1 .. n - 1 : stack'[t][i] = stack[t][i]
      /\ \A s \in Threads \ {t} : stack'[s] = stack[s]
  <2>1. stack'[t] = SubSeq(stack[t], 1, n - 1) /\ \A s \in Threads \ {t} : stack'[s] = stack[s]
    BY <1>1 DEF PoolInv, PoolTypeOK
  <2>2. /\ DOMAIN SubSeq(stack[t], 1, n - 1) = 1 .. n - 1
        /\ \A i \in 1 .. n - 1 : SubSeq(stack[t], 1, n - 1)[i] = stack[t][i]
    BY <1>1, SubSeqProperties
  <2> QED
    BY <1>1, <2>1, <2>2
<1> HIDE DEF n
<1>4. PlaceInv'
  <2> SUFFICES ASSUME NEW k \in Tasks
               PROVE  (IF k \in tried THEN Lone(k) ELSE Absent(k))'
    BY DEF PlaceInv
  <2>1. IF k \in tried THEN Lone(k) ELSE Absent(k)
    BY DEF PoolOnceInv, PlaceInv
  <2>2. Queued(k)' = Queued(k) /\ Entering(k)' = Entering(k) /\ Holding(k)' = Holding(k)
    BY <1>2 DEF Queued, Entering, Holding
  <2>3. \A s \in Threads \ {t} : Depths(s, k)' = Depths(s, k)
    BY <1>3 DEF Depths
  <2>4. CASE k # a
    <3>1. Depths(t, k)' = Depths(t, k)
      <4>1. \A i \in 1 .. n : i \in 1 .. n - 1 \/ i = n
        BY <1>1
      <4>2. \A i \in 1 .. n - 1 : i \in 1 .. n
        BY <1>1
      <4> QED
        BY <1>3, <2>4, <4>1, <4>2 DEF Depths
    <3>2. Running(k)' = Running(k)
      BY <2>3, <3>1 DEF Running, Depths
    <3>3. Ended(k)' = Ended(k)
      BY <1>1, <2>4 DEF Ended
    <3> QED
      BY <1>1, <2>1, <2>2, <3>2, <3>3 DEF Lone, Absent
  <2>5. CASE k = a
    <3>1. n \in Depths(t, k)
      BY <1>1, <1>3, <2>5 DEF Depths
    <3>2. <<t, n>> \in Running(k)
      BY <3>1, RunningAtDepths
    <3>3. /\ k \in tried /\ Running(k) = {<<t, n>>}
          /\ Entering(k) = {} /\ Queued(k) = {} /\ Holding(k) = {} /\ Ended(k) = {}
      BY <2>1, <3>2 DEF Lone, Absent
    <3>4. Depths(t, k) = {n} /\ \A s \in Threads \ {t} : Depths(s, k) = {}
      <4>1. \A s \in Threads : \A i \in Depths(s, k) : s = t /\ i = n
        BY <3>3, RunningAtDepths
      <4> QED
        BY <3>1, <4>1
    <3>5. Depths(t, k)' = {}
      <4>1. \A i \in 1 .. n - 1 : i \in 1 .. n /\ i # n
        BY <1>1
      <4> QED
        BY <1>3, <3>4, <4>1 DEF Depths
    <3>6. Running(k)' = {}
      BY <2>3, <3>4, <3>5 DEF Running, Depths
    <3>7. Ended(k)' = {"done"}
      BY <1>1, <2>5, <3>3 DEF Ended
    <3> QED
      BY <1>1, <2>2, <3>3, <3>6, <3>7 DEF Lone
  <2> QED
    BY <2>4, <2>5
<1> QED
  BY <1>1, <1>2, <1>4 DEF PoolOnceInv, UseInv, ClosedInv, RejectInv

(* pull() and try_pull() come back, with a task or without. *)
LEMMA PullOnce ==
  ASSUME PoolInv, PoolOnceInv, NEW t \in Threads, PullReturns(t) \/ TryPullReturns(t)
  PROVE  PoolOnceInv'
<1>1. /\ call[t].op \in PullOps /\ Return(t)
      /\ UNCHANGED <<life, tried, rejected, done, terminated>>
  BY DEF PullReturns, TryPullReturns, PullOps
<1>2. CASE ret[t].val \in Tasks
  <2>1. ret[t].status = "success"
    BY <1>2 DEF PoolOnceInv, UseInv
  <2>2. stack' = [stack EXCEPT ![t] = Append(@, ret[t].val)]
    BY <2>1 DEF PullReturns, TryPullReturns, Push
  <2>3. PlaceInv' /\ UseInv' /\ closed_' = closed_
    BY <1>1, <1>2, <2>2, TakePlaces
  <2> QED
    BY <1>1, <2>3 DEF PoolOnceInv, ClosedInv, RejectInv
<1>3. CASE ret[t].val \notin Tasks
  <2>1. ret[t].status # "success" /\ call[t].op # "push"
    BY <1>1, <1>3 DEF PoolInv, ResultInv, PullOps
  <2>2. ret[t] # NoRet
    <3>1. "pull" \in Ops
      BY DEF Ops
    <3> QED
      BY <1>1, <3>1, CallOrReturn DEF PoolInv
  <2>3. stack' = stack
    BY <2>1, <2>2 DEF PullReturns, TryPullReturns, PoolInv, ResultInv
  <2>4. PlaceInv' /\ UseInv' /\ closed_' = closed_
    BY <1>1, <1>3, <2>1, <2>3, CallMovesNothing
  <2> QED
    BY <1>1, <2>4 DEF PoolOnceInv, ClosedInv, RejectInv
<1> QED
  BY <1>2, <1>3

(* The life of the pool and of its workers moves no task. *)
LEMMA LifeOnce ==
  ASSUME PoolInv, PoolOnceInv,
         \/ SpawnFails \/ Destroy \/ CloseReturns \/ Join
         \/ \E w \in Workers : Spawn(w) \/ WorkerLoop(w) \/ WorkerPull(w)
         \/ \E t \in Threads : TryExecutingOne(t)
  PROVE  PoolOnceInv'
<1>1. UNCHANGED <<stack, tried, rejected, done, terminated>>
  BY DEF SpawnFails, Destroy, CloseReturns, Join, Spawn, WorkerLoop, WorkerPull, TryExecutingOne, poolState
<1>2. (life' = "open" => life \in {"ctor", "open"}) /\ (life \in {"closing", "joining", "gone"} => life' \in {"closing", "joining", "gone"})
  <2>1. CASE CloseReturns \/ Join \/ SpawnFails \/ Destroy
    BY <2>1 DEF SpawnFails, Destroy, CloseReturns, Join
  <2>2. CASE \E w \in Workers : Spawn(w) \/ WorkerLoop(w) \/ WorkerPull(w)
    BY <2>2 DEF Spawn, WorkerLoop, WorkerPull, poolState
  <2>3. CASE \E t \in Threads : TryExecutingOne(t)
    BY <2>3 DEF TryExecutingOne, poolState
  <2> QED
    BY <2>1, <2>2, <2>3
<1>3. PlaceInv' /\ UseInv' /\ closed_' = closed_
  <2>1. CASE SpawnFails \/ Destroy
    BY <1>1, <2>1, CallMovesNothing DEF SpawnFails, Destroy
  <2>2. CASE \E w \in Workers : WorkerPull(w)
    BY <1>1, <2>2, CallMovesNothing DEF WorkerPull
  <2>3. CASE \E t \in Threads : TryExecutingOne(t)
    BY <1>1, <2>3, CallMovesNothing DEF TryExecutingOne
  <2>4. CASE CloseReturns
    <3>1. ret[Owner].val \notin Tasks /\ call[Owner].op = "close" /\ Return(Owner)
      BY <2>4 DEF CloseReturns, PoolOnceInv, UseInv, PullOps
    <3> QED
      BY <1>1, <3>1, CallMovesNothing
  <2>5. CASE UNCHANGED vars
    <3>1. UNCHANGED <<head, tail, data, val, head_mutex, call, ret, closed_>>
      BY <2>5 DEF vars, list, locks, locals
    <3>2. Contents' = Contents
      BY <3>1, ContentsKept DEF PoolInv
    <3>3. PlaceInv'
      BY <1>1, <3>1, <3>2, NoTaskMoves DEF PoolOnceInv
    <3> QED
      BY <3>1, <3>3 DEF PoolOnceInv, UseInv
  <2> QED
    BY <2>1, <2>2, <2>3, <2>4, <2>5 DEF Join, Spawn, WorkerLoop
<1> QED
  BY <1>1, <1>2, <1>3 DEF PoolOnceInv, ClosedInv, RejectInv

(* Before the constructor has run no task is anywhere. *)
LEMMA OnceInitInv == PoolInit => PoolOnceInv
<1> SUFFICES ASSUME PoolInit
             PROVE  PoolOnceInv
  OBVIOUS
<1> USE NullAssumption DEF NullAssumption, PoolInit, Init, Idle, NoRet, Tasks
<1>1. Contents = << >>
  BY InitInv, ContentsType DEF ContentsOK, IsEmpty
<1>2. PlaceInv
  BY <1>1 DEF PlaceInv, Absent, Entering, Queued, Holding, Running, Ended
<1> QED
  BY <1>2 DEF PoolOnceInv, UseInv, ClosedInv, RejectInv, PullOps

(* Every step keeps every task in one place. *)
LEMMA OnceStepInv == PoolInv /\ PoolInv' /\ PoolOnceInv /\ [PoolNext]_poolVars => PoolOnceInv'
<1> SUFFICES ASSUME PoolInv, PoolInv', PoolOnceInv, [PoolNext]_poolVars
             PROVE  PoolOnceInv'
  OBVIOUS
<1>1. CASE UNCHANGED poolVars
  <2>1. UNCHANGED <<head, tail, data, val, head_mutex, call, ret, closed_>> /\ UNCHANGED poolState
    BY <1>1 DEF poolVars, vars, list, locks, locals
  <2>2. Contents' = Contents
    BY <2>1, ContentsKept DEF PoolInv
  <2>3. PlaceInv'
    BY <2>1, <2>2, NoTaskMoves DEF PoolOnceInv, poolState
  <2> QED
    BY <2>1, <2>3 DEF PoolOnceInv, UseInv, ClosedInv, RejectInv, poolState
<1>2. CASE Ends
  BY <1>2, LifeOnce DEF Ends
<1>3. ASSUME NEW t \in Threads, Progress(t)
      PROVE  PoolOnceInv'
  BY <1>3, QueueStepOnce, RejectOnce, PullOnce, DoneOnce, LifeOnce DEF Progress
<1>4. ASSUME NEW t \in Threads, Submits(t) \/ Helps(t) \/ Wakes(t)
      PROVE  PoolOnceInv'
  BY <1>4, QueueStepOnce, SubmitOnce, LifeOnce DEF Submits, Helps
<1> QED
  BY <1>1, <1>2, <1>3, <1>4 DEF PoolNext

(* Every submitted task is in exactly one place, and is rejected only by a *)
(* pool that is closing.                                                   *)
THEOREM PoolRunsEachTaskOnce == PoolSpec => []EachTaskOnce
<1>1. PoolInv /\ PoolOnceInv => EachTaskOnce
  <2> SUFFICES ASSUME PoolInv, PoolOnceInv
               PROVE  EachTaskOnce
    OBVIOUS
  <2>1. ASSUME NEW k \in tried
        PROVE  \E p \in Places(k) : Places(k) = {p}
    <3>1. Lone(k)
      BY DEF PoolInv, PoolTypeOK, PoolOnceInv, PlaceInv
    <3> QED
      BY <3>1, LoneHasPlace
  <2> QED
    BY <2>1 DEF EachTaskOnce, PoolOnceInv, RejectInv
<1> QED
  BY OnceInitInv, OnceStepInv, PoolInvariance, <1>1, PTL DEF PoolSpec
=============================================================================
