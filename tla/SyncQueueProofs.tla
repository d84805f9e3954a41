-------------------------- MODULE SyncQueueProofs --------------------------
(***************************************************************************)
(* normal_queue, for any number of threads and elements: its invariants,   *)
(* and that it implements the FIFO queue of FifoQueue.                     *)
(***************************************************************************)
EXTENDS SyncQueue, SequenceTheorems, TLAPS

USE NullAssumption DEF NullAssumption

-----------------------------------------------------------------------------
(* The inductive invariant, part by part. *)

PushLabels == {"push_lock", "push_data", "push_next", "push_tail"}
PopLabels == {"pop_next", "pop_data", "pop_head"}
SleepLabels == {"pull_lock", "pull_empty", "pull_pred", "block", "waiting", "pull_closed"}
EndLabels == {"push_notify", "close_notify", "unlock", "return"}

(* The holder of a mutex is the thread between its lock and its unlock. *)
MutexInv ==
  \A t \in Threads :
    /\ pc[t] \in HeadLabels <=> head_mutex = t
    /\ pc[t] \in TailLabels <=> tail_mutex = t
    /\ pc[t] = "waiting" <=> t \in waiters

(* Where a thread is says which operation it is in, and whether the result *)
(* is fixed.                                                               *)
CallOf(t) ==
  /\ pc[t] = "idle" <=> call[t] = Idle
  /\ pc[t] = "push_closed" => call[t].op = "push"
  /\ pc[t] \in PushLabels => call[t].op \in Pushes
  /\ pc[t] \in {"push_closed"} \cup PushLabels => call[t].arg \in Values
  /\ pc[t] \in SleepLabels => call[t].op = "pull"
  /\ pc[t] \in {"try_lock", "try_empty"} => call[t].op = "try_pull"
  /\ pc[t] \in PopLabels => call[t].op \in {"pull", "try_pull"}
  /\ pc[t] \in {"empty_lock", "empty_check"} => call[t].op = "empty"
  /\ pc[t] = "closed" => call[t].op = "closed"
  /\ pc[t] = "close_store" => call[t].op = "close"
  /\ pc[t] \in EndLabels <=> ret[t] # NoRet

CallInv == \A t \in Threads : CallOf(t)

(* What a call that began after the close can still do. *)
LateInv ==
  \A t \in Threads :
    call[t].late =>
      /\ closed_
      /\ call[t].op = "push" => pc[t] \notin PushLabels
      /\ call[t].op = "pull" => pc[t] \notin PopLabels \cup {"block", "waiting"}

(* How many nodes there are. *)
ShapeInv ==
  /\ 1 <= head /\ head <= tail
  /\ Len(next) = Len(data)
  /\ (\A t \in Threads : pc[t] # "push_tail") => Len(data) = tail
  /\ \A t \in Threads : pc[t] = "push_tail" => Len(data) = tail + 1

(* What the two ends are in the middle of. *)
EndsInv ==
  \A t \in Threads :
    /\ pc[t] \in {"push_next", "push_tail"} => data[tail] = call[t].arg
    /\ pc[t] = "push_tail" => next[tail] = tail + 1
    /\ pc[t] = "pull_closed" => head < tail \/ closed_
    /\ pc[t] \in PopLabels => head < tail
    /\ pc[t] \in {"pop_data", "pop_head"} => tmp[t] = head + 1
    /\ pc[t] = "pop_head" => val[t] \in Values /\ data[head] = Null

(* The nodes between the ends. *)
ChainInv ==
  \A n \in head .. tail - 1 :
    /\ next[n] = n + 1 \/ (n = head /\ \E t \in Threads : pc[t] \in {"pop_data", "pop_head"})
    /\ data[n] \in Values \/ (n = head /\ \E t \in Threads : pc[t] = "pop_head")

IInv ==
  /\ TypeOK /\ MutexInv /\ CallInv /\ LateInv
  /\ ShapeInv /\ EndsInv /\ ChainInv

-----------------------------------------------------------------------------
(* Every initial state is well typed. *)
LEMMA InitType == Init => TypeOK
<1> SUFFICES ASSUME Init
             PROVE  TypeOK
  OBVIOUS
<1>1. data \in Seq(Values \cup {Null}) /\ next \in Seq(Nat)
  BY DEF Init
<1>2. call \in [Threads -> [op : Ops \cup {"none"}, arg : Values \cup {Null}, late : BOOLEAN]]
  BY DEF Init, Idle
<1>3. ret \in [Threads -> [status : Statuses, val : Values \cup {Null}]]
  BY DEF Init, NoRet, Statuses
<1> QED
  BY <1>1, <1>2, <1>3 DEF Init, TypeOK, Labels

(* Every step keeps the types. *)
LEMMA TypeStep ==
  ASSUME IInv, [Next]_vars
  PROVE  TypeOK'
<1> USE DEF IInv, TypeOK, ShapeInv, Labels, HeadLabels, TailLabels, Statuses, Ops, list, locks,
        locals, Step, TakesEffect, Result, NoRet, Idle
<1>1. CASE UNCHANGED vars
  BY <1>1 DEF vars
<1>2. ASSUME NEW t \in Threads, Run(t)
      PROVE  TypeOK'
  <2>1. CASE PushCheckClosed(t)
    <3>1. CASE Step(t, "push_closed", "push_lock") /\ UNCHANGED ret
      BY <2>1, <3>1 DEF PushCheckClosed
    <3>2. CASE Step(t, "push_closed", "return") /\ TakesEffect(t, "throw", Null)
      BY <2>1, <3>2 DEF PushCheckClosed
    <3> QED  BY <2>1, <3>1, <3>2 DEF PushCheckClosed
  <2>2. CASE PushLock(t)          BY <2>2 DEF PushLock
  <2>3. CASE PushData(t)          BY <2>3 DEF PushData
  <2>4. CASE PushNext(t)          BY <2>4 DEF PushNext
  <2>5. CASE PushTail(t)          BY <2>5 DEF PushTail
  <2>6. CASE PushNotify(t)        BY <2>6 DEF PushNotify
  <2>7. CASE PullLock(t)          BY <2>7 DEF PullLock
  <2>8. CASE PullCheckEmpty(t)    BY <2>8 DEF PullCheckEmpty
  <2>9. CASE PullPredClosed(t)    BY <2>9 DEF PullPredClosed
  <2>10. CASE Block(t)            BY <2>10 DEF Block
  <2>11. CASE PullCheckClosed(t)
    <3>1. CASE Step(t, "pull_closed", "unlock") /\ TakesEffect(t, "closed", Null)
      BY <2>11, <3>1 DEF PullCheckClosed
    <3>2. CASE Step(t, "pull_closed", "pop_next") /\ UNCHANGED ret
      BY <2>11, <3>2 DEF PullCheckClosed
    <3> QED  BY <2>11, <3>1, <3>2 DEF PullCheckClosed
  <2>12. CASE TryLock(t)          BY <2>12 DEF TryLock
  <2>13. CASE TryCheckEmpty(t)
    <3>1. CASE Step(t, "try_empty", "unlock") /\ TakesEffect(t, "empty", Null)
      BY <2>13, <3>1 DEF TryCheckEmpty
    <3>2. CASE Step(t, "try_empty", "pop_next") /\ UNCHANGED ret
      BY <2>13, <3>2 DEF TryCheckEmpty
    <3> QED  BY <2>13, <3>1, <3>2 DEF TryCheckEmpty
  <2>14. CASE EmptyCheck(t)       BY <2>14 DEF EmptyCheck
  <2>15. CASE PopNext(t)          BY <2>15 DEF PopNext
  <2>16. CASE PopData(t)          BY <2>16 DEF PopData
  <2>17. CASE PopHead(t)          BY <2>17 DEF PopHead
  <2>18. CASE Unlock(t)           BY <2>18 DEF Unlock
  <2>19. CASE Closed(t)           BY <2>19 DEF Closed
  <2>20. CASE CloseStore(t)       BY <2>20 DEF CloseStore
  <2>21. CASE CloseNotify(t)      BY <2>21 DEF CloseNotify
  <2>22. CASE Return(t)           BY <2>22 DEF Return
  <2> QED
    BY <1>2, <2>1, <2>2, <2>3, <2>4, <2>5, <2>6, <2>7, <2>8, <2>9, <2>10, <2>11,
       <2>12, <2>13, <2>14, <2>15, <2>16, <2>17, <2>18, <2>19, <2>20, <2>21, <2>22 DEF Run
<1>3. ASSUME NEW t \in Threads, CallAny(t)
      PROVE  TypeOK'
  <2>1. PICK o \in Ops, v \in Values \cup {Null} : Call(t, o, v) /\ (o \in Pushes => v \in Values)
    BY <1>3 DEF CallAny, Ops, Pushes
  <2>2. Entry(o) \in {"push_closed", "push_lock", "pull_lock", "try_lock", "empty_lock", "closed",
                    "close_store"}
    BY DEF Entry, Ops
  <2> QED  BY <2>1, <2>2 DEF Call
<1>4. ASSUME NEW t \in Threads, SpuriousWake(t)
      PROVE  TypeOK'
  BY <1>4 DEF SpuriousWake
<1> QED
  BY <1>1, <1>2, <1>3, <1>4 DEF Next

(* A mutex, or the condition variable, changes hands with its label. *)
LEMMA MutexStep ==
  ASSUME IInv, [Next]_vars
  PROVE  MutexInv'
<1> USE DEF IInv, TypeOK, MutexInv, Labels, HeadLabels, TailLabels, list, locks, Step
<1>1. CASE UNCHANGED vars
  BY <1>1 DEF vars
<1>2. ASSUME NEW t \in Threads, Run(t)
      PROVE  MutexInv'
  <2>1. CASE PushCheckClosed(t)   BY <2>1 DEF PushCheckClosed
  <2>2. CASE PushLock(t)          BY <2>2 DEF PushLock
  <2>3. CASE PushData(t)          BY <2>3 DEF PushData
  <2>4. CASE PushNext(t)          BY <2>4 DEF PushNext
  <2>5. CASE PushTail(t)          BY <2>5 DEF PushTail
  <2>6. CASE PushNotify(t)        BY <2>6 DEF PushNotify
  <2>7. CASE PullLock(t)          BY <2>7 DEF PullLock
  <2>8. CASE PullCheckEmpty(t)    BY <2>8 DEF PullCheckEmpty
  <2>9. CASE PullPredClosed(t)    BY <2>9 DEF PullPredClosed
  <2>10. CASE Block(t)            BY <2>10 DEF Block
  <2>11. CASE PullCheckClosed(t)  BY <2>11 DEF PullCheckClosed
  <2>12. CASE TryLock(t)          BY <2>12 DEF TryLock
  <2>13. CASE TryCheckEmpty(t)    BY <2>13 DEF TryCheckEmpty
  <2>14. CASE EmptyCheck(t)       BY <2>14 DEF EmptyCheck
  <2>15. CASE PopNext(t)          BY <2>15 DEF PopNext
  <2>16. CASE PopData(t)          BY <2>16 DEF PopData
  <2>17. CASE PopHead(t)          BY <2>17 DEF PopHead
  <2>18. CASE Unlock(t)           BY <2>18 DEF Unlock
  <2>19. CASE Closed(t)           BY <2>19 DEF Closed
  <2>20. CASE CloseStore(t)       BY <2>20 DEF CloseStore
  <2>21. CASE CloseNotify(t)      BY <2>21 DEF CloseNotify
  <2>22. CASE Return(t)           BY <2>22 DEF Return
  <2> QED
    BY <1>2, <2>1, <2>2, <2>3, <2>4, <2>5, <2>6, <2>7, <2>8, <2>9, <2>10, <2>11,
       <2>12, <2>13, <2>14, <2>15, <2>16, <2>17, <2>18, <2>19, <2>20, <2>21, <2>22 DEF Run
<1>3. ASSUME NEW t \in Threads, CallAny(t)
      PROVE  MutexInv'
  <2>1. PICK o \in Ops, v \in Values \cup {Null} : Call(t, o, v) /\ (o \in Pushes => v \in Values)
    BY <1>3 DEF CallAny, Ops, Pushes
  <2>2. Entry(o) \in {"push_closed", "push_lock", "pull_lock", "try_lock", "empty_lock", "closed",
                    "close_store"}
    BY DEF Entry, Ops
  <2> QED  BY <2>1, <2>2 DEF Call
<1>4. ASSUME NEW t \in Threads, SpuriousWake(t)
      PROVE  MutexInv'
  BY <1>4 DEF SpuriousWake
<1> QED
  BY <1>1, <1>2, <1>3, <1>4 DEF Next

(* A thread's label tells its operation. *)
LEMMA CallStep ==
  ASSUME IInv, [Next]_vars
  PROVE  CallInv'
<1> USE DEF IInv, TypeOK, MutexInv, HeadLabels, TailLabels, list, locks, locals, Step, TakesEffect, Result,
        NoRet, Idle, CallInv, CallOf, Pushes, PushLabels, PopLabels, SleepLabels, EndLabels
<1>1. CASE UNCHANGED vars
  BY <1>1 DEF vars
<1>2. ASSUME NEW t \in Threads, Run(t)
      PROVE  CallInv'
  <2>1. CASE PushCheckClosed(t)
    <3>1. CASE Step(t, "push_closed", "push_lock") /\ UNCHANGED ret
      BY <2>1, <3>1 DEF PushCheckClosed
    <3>2. CASE Step(t, "push_closed", "return") /\ TakesEffect(t, "throw", Null)
      BY <2>1, <3>2 DEF PushCheckClosed
    <3> QED  BY <2>1, <3>1, <3>2 DEF PushCheckClosed
  <2>2. CASE PushLock(t)          BY <2>2 DEF PushLock
  <2>3. CASE PushData(t)          BY <2>3 DEF PushData
  <2>4. CASE PushNext(t)          BY <2>4 DEF PushNext
  <2>5. CASE PushTail(t)          BY <2>5 DEF PushTail
  <2>6. CASE PushNotify(t)
    <3>1. CASE waiters = {} /\ Step(t, "push_notify", "return") /\ UNCHANGED waiters
      BY <2>6, <3>1 DEF PushNotify
    <3>2. ASSUME NEW w \in waiters, pc[t] = "push_notify", waiters' = waiters \ {w},
                 pc' = [pc EXCEPT ![t] = "return", ![w] = "pull_lock"]
          PROVE  CallInv'
      <4>1. w \in Threads /\ pc[w] = "waiting" /\ w # t
        BY <3>2
      <4> QED  BY <2>6, <3>2, <4>1 DEF PushNotify
    <3> QED  BY <2>6, <3>1, <3>2 DEF PushNotify
  <2>7. CASE PullLock(t)          BY <2>7 DEF PullLock
  <2>8. CASE PullCheckEmpty(t)    BY <2>8 DEF PullCheckEmpty
  <2>9. CASE PullPredClosed(t)    BY <2>9 DEF PullPredClosed
  <2>10. CASE Block(t)            BY <2>10 DEF Block
  <2>11. CASE PullCheckClosed(t)
    <3>1. CASE Step(t, "pull_closed", "unlock") /\ TakesEffect(t, "closed", Null)
      BY <2>11, <3>1 DEF PullCheckClosed
    <3>2. CASE Step(t, "pull_closed", "pop_next") /\ UNCHANGED ret
      BY <2>11, <3>2 DEF PullCheckClosed
    <3> QED  BY <2>11, <3>1, <3>2 DEF PullCheckClosed
  <2>12. CASE TryLock(t)
    <3>1. CASE Step(t, "try_lock", "try_empty")
      BY <2>12, <3>1 DEF TryLock
    <3>2. CASE Step(t, "empty_lock", "empty_check")
      BY <2>12, <3>2 DEF TryLock
    <3> QED  BY <2>12, <3>1, <3>2 DEF TryLock
  <2>13. CASE TryCheckEmpty(t)
    <3>1. CASE Step(t, "try_empty", "unlock") /\ TakesEffect(t, "empty", Null)
      BY <2>13, <3>1 DEF TryCheckEmpty
    <3>2. CASE Step(t, "try_empty", "pop_next") /\ UNCHANGED ret
      BY <2>13, <3>2 DEF TryCheckEmpty
    <3> QED  BY <2>13, <3>1, <3>2 DEF TryCheckEmpty
  <2>14. CASE EmptyCheck(t)       BY <2>14 DEF EmptyCheck
  <2>15. CASE PopNext(t)          BY <2>15 DEF PopNext
  <2>16. CASE PopData(t)          BY <2>16 DEF PopData
  <2>17. CASE PopHead(t)          BY <2>17 DEF PopHead
  <2>18. CASE Unlock(t)           BY <2>18 DEF Unlock
  <2>19. CASE Closed(t)           BY <2>19 DEF Closed
  <2>20. CASE CloseStore(t)       BY <2>20 DEF CloseStore
  <2>21. CASE CloseNotify(t)      BY <2>21 DEF CloseNotify
  <2>22. CASE Return(t)           BY <2>22 DEF Return
  <2> QED
    BY <1>2, <2>1, <2>2, <2>3, <2>4, <2>5, <2>6, <2>7, <2>8, <2>9, <2>10, <2>11,
       <2>12, <2>13, <2>14, <2>15, <2>16, <2>17, <2>18, <2>19, <2>20, <2>21, <2>22 DEF Run
<1>3. ASSUME NEW t \in Threads, CallAny(t)
      PROVE  CallInv'
  <2>1. PICK o \in Ops, v \in Values \cup {Null} : Call(t, o, v) /\ (o \in Pushes => v \in Values)
    BY <1>3 DEF CallAny, Ops, Pushes
  <2>2. /\ o = "push" => Entry(o) = "push_closed"
        /\ o = "try_push" => Entry(o) = "push_lock"
        /\ o = "pull" => Entry(o) = "pull_lock"
        /\ o = "try_pull" => Entry(o) = "try_lock"
        /\ o = "empty" => Entry(o) = "empty_lock"
        /\ o = "closed" => Entry(o) = "closed"
        /\ o = "close" => Entry(o) = "close_store"
    BY DEF Entry
  <2>3. call'[t] = [op |-> o, arg |-> v, late |-> closed_] /\ call'[t].op = o /\ call'[t].arg = v
    BY <2>1 DEF Call
  <2>4. call'[t].late = closed_ /\ call'[t] # [op |-> "none", arg |-> Null, late |-> FALSE]
    BY <2>1, <2>3 DEF Ops
  <2>5. pc[t] = "idle" /\ ret[t] = NoRet /\ pc'[t] = Entry(o) /\ ret' = ret
    BY <2>1 DEF Call
  <2>6. ASSUME NEW s \in Threads
        PROVE  CallOf(s)'
    <3>1. CASE s # t
      <4>1. call'[s] = call[s] /\ pc'[s] = pc[s]
        BY <2>1, <3>1 DEF Call
      <4> QED  BY <4>1, <2>5 DEF CallOf
    <3>2. CASE s = t
      <4>1. call'[s] # Idle
        BY <3>2, <2>4
      <4>2. pc'[s] # "idle" /\ pc'[s] \notin EndLabels
        BY <2>2, <2>5, <3>2 DEF Ops
      <4>3. CASE o \in Pushes
        BY <2>1, <2>2, <2>3, <2>5, <3>2, <4>1, <4>2, <4>3 DEF CallOf
      <4>4. CASE o \notin Pushes
        BY <2>1, <2>2, <2>3, <2>5, <3>2, <4>1, <4>2, <4>4 DEF CallOf, Ops
      <4> QED  BY <4>3, <4>4
    <3> QED  BY <3>1, <3>2
  <2> QED  BY <2>6
<1>4. ASSUME NEW t \in Threads, SpuriousWake(t)
      PROVE  CallInv'
  BY <1>4 DEF SpuriousWake
<1> QED
  BY <1>1, <1>2, <1>3, <1>4 DEF Next

(* A late call does not get past its tests. *)
LEMMA LateStep ==
  ASSUME IInv, [Next]_vars
  PROVE  LateInv'
<1> USE DEF IInv, TypeOK, MutexInv, HeadLabels, TailLabels, list, locks, locals, Step, TakesEffect, Result,
        NoRet, Idle, CallInv, CallOf, LateInv, Pushes, PushLabels, PopLabels, SleepLabels, EndLabels
<1>1. CASE UNCHANGED vars
  BY <1>1 DEF vars
<1>2. ASSUME NEW t \in Threads, Run(t)
      PROVE  LateInv'
  <2>1. CASE PushCheckClosed(t)
    <3>1. CASE Step(t, "push_closed", "push_lock") /\ UNCHANGED ret
      BY <2>1, <3>1 DEF PushCheckClosed
    <3>2. CASE Step(t, "push_closed", "return") /\ TakesEffect(t, "throw", Null)
      BY <2>1, <3>2 DEF PushCheckClosed
    <3> QED  BY <2>1, <3>1, <3>2 DEF PushCheckClosed
  <2>2. CASE PushLock(t)          BY <2>2 DEF PushLock
  <2>3. CASE PushData(t)          BY <2>3 DEF PushData
  <2>4. CASE PushNext(t)          BY <2>4 DEF PushNext
  <2>5. CASE PushTail(t)          BY <2>5 DEF PushTail
  <2>6. CASE PushNotify(t)
    <3>1. CASE waiters = {} /\ Step(t, "push_notify", "return") /\ UNCHANGED waiters
      BY <2>6, <3>1 DEF PushNotify
    <3>2. ASSUME NEW w \in waiters, pc[t] = "push_notify", waiters' = waiters \ {w},
                 pc' = [pc EXCEPT ![t] = "return", ![w] = "pull_lock"]
          PROVE  LateInv'
      <4>1. w \in Threads /\ pc[w] = "waiting" /\ w # t
        BY <3>2
      <4> QED  BY <2>6, <3>2, <4>1 DEF PushNotify
    <3> QED  BY <2>6, <3>1, <3>2 DEF PushNotify
  <2>7. CASE PullLock(t)          BY <2>7 DEF PullLock
  <2>8. CASE PullCheckEmpty(t)    BY <2>8 DEF PullCheckEmpty
  <2>9. CASE PullPredClosed(t)    BY <2>9 DEF PullPredClosed
  <2>10. CASE Block(t)            BY <2>10 DEF Block
  <2>11. CASE PullCheckClosed(t)
    <3>1. CASE Step(t, "pull_closed", "unlock") /\ TakesEffect(t, "closed", Null)
      BY <2>11, <3>1 DEF PullCheckClosed
    <3>2. CASE Step(t, "pull_closed", "pop_next") /\ UNCHANGED ret
      BY <2>11, <3>2 DEF PullCheckClosed
    <3> QED  BY <2>11, <3>1, <3>2 DEF PullCheckClosed
  <2>12. CASE TryLock(t)          BY <2>12 DEF TryLock
  <2>13. CASE TryCheckEmpty(t)
    <3>1. CASE Step(t, "try_empty", "unlock") /\ TakesEffect(t, "empty", Null)
      BY <2>13, <3>1 DEF TryCheckEmpty
    <3>2. CASE Step(t, "try_empty", "pop_next") /\ UNCHANGED ret
      BY <2>13, <3>2 DEF TryCheckEmpty
    <3> QED  BY <2>13, <3>1, <3>2 DEF TryCheckEmpty
  <2>14. CASE EmptyCheck(t)       BY <2>14 DEF EmptyCheck
  <2>15. CASE PopNext(t)          BY <2>15 DEF PopNext
  <2>16. CASE PopData(t)          BY <2>16 DEF PopData
  <2>17. CASE PopHead(t)          BY <2>17 DEF PopHead
  <2>18. CASE Unlock(t)           BY <2>18 DEF Unlock
  <2>19. CASE Closed(t)           BY <2>19 DEF Closed
  <2>20. CASE CloseStore(t)       BY <2>20 DEF CloseStore
  <2>21. CASE CloseNotify(t)      BY <2>21 DEF CloseNotify
  <2>22. CASE Return(t)           BY <2>22 DEF Return
  <2> QED
    BY <1>2, <2>1, <2>2, <2>3, <2>4, <2>5, <2>6, <2>7, <2>8, <2>9, <2>10, <2>11,
       <2>12, <2>13, <2>14, <2>15, <2>16, <2>17, <2>18, <2>19, <2>20, <2>21, <2>22 DEF Run
<1>3. ASSUME NEW t \in Threads, CallAny(t)
      PROVE  LateInv'
  <2>1. PICK o \in Ops, v \in Values \cup {Null} : Call(t, o, v) /\ (o \in Pushes => v \in Values)
    BY <1>3 DEF CallAny, Ops, Pushes
  <2>2. /\ o = "push" => Entry(o) = "push_closed"
        /\ o = "try_push" => Entry(o) = "push_lock"
        /\ o = "pull" => Entry(o) = "pull_lock"
        /\ o = "try_pull" => Entry(o) = "try_lock"
        /\ o = "empty" => Entry(o) = "empty_lock"
        /\ o = "closed" => Entry(o) = "closed"
        /\ o = "close" => Entry(o) = "close_store"
    BY DEF Entry
  <2>3. call'[t] = [op |-> o, arg |-> v, late |-> closed_] /\ call'[t].op = o /\ call'[t].arg = v
    BY <2>1 DEF Call
  <2>4. call'[t].late = closed_ /\ call'[t] # [op |-> "none", arg |-> Null, late |-> FALSE]
    BY <2>1, <2>3 DEF Ops
  <2>5. CASE o = "push"      BY <2>1, <2>2, <2>3, <2>4, <2>5 DEF Call
  <2>6. CASE o = "try_push"  BY <2>1, <2>2, <2>3, <2>4, <2>6 DEF Call
  <2>7. CASE o = "pull"      BY <2>1, <2>2, <2>3, <2>4, <2>7 DEF Call
  <2>8. CASE o = "try_pull"  BY <2>1, <2>2, <2>3, <2>4, <2>8 DEF Call
  <2>9. CASE o = "empty"     BY <2>1, <2>2, <2>3, <2>4, <2>9 DEF Call
  <2>10. CASE o = "closed"    BY <2>1, <2>2, <2>3, <2>4, <2>10 DEF Call
  <2>11. CASE o = "close"     BY <2>1, <2>2, <2>3, <2>4, <2>11 DEF Call
  <2> QED  BY <2>5, <2>6, <2>7, <2>8, <2>9, <2>10, <2>11 DEF Ops
<1>4. ASSUME NEW t \in Threads, SpuriousWake(t)
      PROVE  LateInv'
  BY <1>4 DEF SpuriousWake
<1> QED
  BY <1>1, <1>2, <1>3, <1>4 DEF Next

(* The ends advance one node at a time. *)
LEMMA ShapeStep ==
  ASSUME IInv, [Next]_vars
  PROVE  ShapeInv'
<1> USE DEF IInv, TypeOK, MutexInv, HeadLabels, TailLabels, list, locks, locals, Step, TakesEffect, Result,
        NoRet, ShapeInv, EndsInv, PopLabels
<1>1. CASE UNCHANGED vars
  BY <1>1 DEF vars
<1>2. ASSUME NEW t \in Threads, Run(t)
      PROVE  ShapeInv'
  <2>1. CASE PushCheckClosed(t)
    <3>1. CASE Step(t, "push_closed", "push_lock") /\ UNCHANGED ret
      BY <2>1, <3>1 DEF PushCheckClosed
    <3>2. CASE Step(t, "push_closed", "return") /\ TakesEffect(t, "throw", Null)
      BY <2>1, <3>2 DEF PushCheckClosed
    <3> QED  BY <2>1, <3>1, <3>2 DEF PushCheckClosed
  <2>2. CASE PushLock(t)          BY <2>2 DEF PushLock
  <2>3. CASE PushData(t)          BY <2>3 DEF PushData
  <2>4. CASE PushNext(t)
    <3>1. tail = Len(data) /\ tail \in 1 .. Len(next)
      BY <2>4 DEF PushNext
    <3>2. [next EXCEPT ![tail] = Len(data) + 1] \in Seq(Nat)
          /\ Len([next EXCEPT ![tail] = Len(data) + 1]) = Len(next)
      BY <3>1, ExceptSeq
    <3>3. Len(data') = Len(data) + 1 /\ Len(next') = Len(next) + 1
      BY <2>4, <3>2, AppendProperties DEF PushNext
    <3> QED  BY <2>4, <3>1, <3>3 DEF PushNext
  <2>5. CASE PushTail(t)          BY <2>5 DEF PushTail
  <2>6. CASE PushNotify(t)
    <3>1. CASE waiters = {} /\ Step(t, "push_notify", "return") /\ UNCHANGED waiters
      BY <2>6, <3>1 DEF PushNotify
    <3>2. ASSUME NEW w \in waiters, pc[t] = "push_notify", waiters' = waiters \ {w},
                 pc' = [pc EXCEPT ![t] = "return", ![w] = "pull_lock"]
          PROVE  ShapeInv'
      <4>1. w \in Threads /\ pc[w] = "waiting" /\ w # t
        BY <3>2
      <4> QED  BY <2>6, <3>2, <4>1 DEF PushNotify
    <3> QED  BY <2>6, <3>1, <3>2 DEF PushNotify
  <2>7. CASE PullLock(t)          BY <2>7 DEF PullLock
  <2>8. CASE PullCheckEmpty(t)    BY <2>8 DEF PullCheckEmpty
  <2>9. CASE PullPredClosed(t)    BY <2>9 DEF PullPredClosed
  <2>10. CASE Block(t)            BY <2>10 DEF Block
  <2>11. CASE PullCheckClosed(t)
    <3>1. CASE Step(t, "pull_closed", "unlock") /\ TakesEffect(t, "closed", Null)
      BY <2>11, <3>1 DEF PullCheckClosed
    <3>2. CASE Step(t, "pull_closed", "pop_next") /\ UNCHANGED ret
      BY <2>11, <3>2 DEF PullCheckClosed
    <3> QED  BY <2>11, <3>1, <3>2 DEF PullCheckClosed
  <2>12. CASE TryLock(t)          BY <2>12 DEF TryLock
  <2>13. CASE TryCheckEmpty(t)
    <3>1. CASE Step(t, "try_empty", "unlock") /\ TakesEffect(t, "empty", Null)
      BY <2>13, <3>1 DEF TryCheckEmpty
    <3>2. CASE Step(t, "try_empty", "pop_next") /\ UNCHANGED ret
      BY <2>13, <3>2 DEF TryCheckEmpty
    <3> QED  BY <2>13, <3>1, <3>2 DEF TryCheckEmpty
  <2>14. CASE EmptyCheck(t)       BY <2>14 DEF EmptyCheck
  <2>15. CASE PopNext(t)          BY <2>15 DEF PopNext
  <2>16. CASE PopData(t)          BY <2>16 DEF PopData
  <2>17. CASE PopHead(t)          BY <2>17 DEF PopHead
  <2>18. CASE Unlock(t)           BY <2>18 DEF Unlock
  <2>19. CASE Closed(t)           BY <2>19 DEF Closed
  <2>20. CASE CloseStore(t)       BY <2>20 DEF CloseStore
  <2>21. CASE CloseNotify(t)      BY <2>21 DEF CloseNotify
  <2>22. CASE Return(t)           BY <2>22 DEF Return
  <2> QED
    BY <1>2, <2>1, <2>2, <2>3, <2>4, <2>5, <2>6, <2>7, <2>8, <2>9, <2>10, <2>11,
       <2>12, <2>13, <2>14, <2>15, <2>16, <2>17, <2>18, <2>19, <2>20, <2>21, <2>22 DEF Run
<1>3. ASSUME NEW t \in Threads, CallAny(t)
      PROVE  ShapeInv'
  <2>1. PICK o \in Ops, v \in Values \cup {Null} : Call(t, o, v) /\ (o \in Pushes => v \in Values)
    BY <1>3 DEF CallAny, Ops, Pushes
  <2>2. Entry(o) \in {"push_closed", "push_lock", "pull_lock", "try_lock", "empty_lock", "closed",
                    "close_store"}
    BY DEF Entry, Ops
  <2> QED  BY <2>1, <2>2 DEF Call
<1>4. ASSUME NEW t \in Threads, SpuriousWake(t)
      PROVE  ShapeInv'
  BY <1>4 DEF SpuriousWake
<1> QED
  BY <1>1, <1>2, <1>3, <1>4 DEF Next

(* What an end is in the middle of stays as its mutex holder left it. *)
LEMMA EndsStep ==
  ASSUME IInv, [Next]_vars
  PROVE  EndsInv'
<1> USE DEF IInv, TypeOK, MutexInv, HeadLabels, TailLabels, list, locks, locals, Step, TakesEffect, Result,
        NoRet, CallInv, CallOf, ShapeInv, EndsInv, ChainInv, IsEmpty, PushLabels, PopLabels, SleepLabels, EndLabels
<1>1. CASE UNCHANGED vars
  BY <1>1 DEF vars
<1>2. ASSUME NEW t \in Threads, Run(t)
      PROVE  EndsInv'
  <2>1. CASE PushCheckClosed(t)
    <3>1. CASE Step(t, "push_closed", "push_lock") /\ UNCHANGED ret
      BY <2>1, <3>1 DEF PushCheckClosed
    <3>2. CASE Step(t, "push_closed", "return") /\ TakesEffect(t, "throw", Null)
      BY <2>1, <3>2 DEF PushCheckClosed
    <3> QED  BY <2>1, <3>1, <3>2 DEF PushCheckClosed
  <2>2. CASE PushLock(t)          BY <2>2 DEF PushLock
  <2>3. CASE PushData(t)          BY <2>3 DEF PushData
  <2>4. CASE PushNext(t)          BY <2>4 DEF PushNext
  <2>5. CASE PushTail(t)          BY <2>5 DEF PushTail
  <2>6. CASE PushNotify(t)
    <3>1. CASE waiters = {} /\ Step(t, "push_notify", "return") /\ UNCHANGED waiters
      BY <2>6, <3>1 DEF PushNotify
    <3>2. ASSUME NEW w \in waiters, pc[t] = "push_notify", waiters' = waiters \ {w},
                 pc' = [pc EXCEPT ![t] = "return", ![w] = "pull_lock"]
          PROVE  EndsInv'
      <4>1. w \in Threads /\ pc[w] = "waiting" /\ w # t
        BY <3>2
      <4> QED  BY <2>6, <3>2, <4>1 DEF PushNotify
    <3> QED  BY <2>6, <3>1, <3>2 DEF PushNotify
  <2>7. CASE PullLock(t)          BY <2>7 DEF PullLock
  <2>8. CASE PullCheckEmpty(t)    BY <2>8 DEF PullCheckEmpty
  <2>9. CASE PullPredClosed(t)    BY <2>9 DEF PullPredClosed
  <2>10. CASE Block(t)            BY <2>10 DEF Block
  <2>11. CASE PullCheckClosed(t)
    <3>1. CASE Step(t, "pull_closed", "unlock") /\ TakesEffect(t, "closed", Null)
      BY <2>11, <3>1 DEF PullCheckClosed
    <3>2. CASE Step(t, "pull_closed", "pop_next") /\ UNCHANGED ret
      BY <2>11, <3>2 DEF PullCheckClosed
    <3> QED  BY <2>11, <3>1, <3>2 DEF PullCheckClosed
  <2>12. CASE TryLock(t)          BY <2>12 DEF TryLock
  <2>13. CASE TryCheckEmpty(t)
    <3>1. CASE Step(t, "try_empty", "unlock") /\ TakesEffect(t, "empty", Null)
      BY <2>13, <3>1 DEF TryCheckEmpty
    <3>2. CASE Step(t, "try_empty", "pop_next") /\ UNCHANGED ret
      BY <2>13, <3>2 DEF TryCheckEmpty
    <3> QED  BY <2>13, <3>1, <3>2 DEF TryCheckEmpty
  <2>14. CASE EmptyCheck(t)       BY <2>14 DEF EmptyCheck
  <2>15. CASE PopNext(t)
    <3>1. head \in head .. tail - 1 /\ head < tail /\ head_mutex = t
      BY <2>15 DEF PopNext
    <3>2. \A s \in Threads : pc[s] \in HeadLabels => s = t
      BY <3>1
    <3>3. next[head] = head + 1
      BY <2>15, <3>1, <3>2 DEF PopNext
    <3>4. next' = [next EXCEPT ![head] = 0] /\ next'[tail] = next[tail]
      BY <2>15, <3>1 DEF PopNext
    <3> QED  BY <2>15, <3>1, <3>2, <3>3, <3>4 DEF PopNext
  <2>16. CASE PopData(t)          BY <2>16 DEF PopData
  <2>17. CASE PopHead(t)          BY <2>17 DEF PopHead
  <2>18. CASE Unlock(t)           BY <2>18 DEF Unlock
  <2>19. CASE Closed(t)           BY <2>19 DEF Closed
  <2>20. CASE CloseStore(t)       BY <2>20 DEF CloseStore
  <2>21. CASE CloseNotify(t)      BY <2>21 DEF CloseNotify
  <2>22. CASE Return(t)           BY <2>22 DEF Return
  <2> QED
    BY <1>2, <2>1, <2>2, <2>3, <2>4, <2>5, <2>6, <2>7, <2>8, <2>9, <2>10, <2>11,
       <2>12, <2>13, <2>14, <2>15, <2>16, <2>17, <2>18, <2>19, <2>20, <2>21, <2>22 DEF Run
<1>3. ASSUME NEW t \in Threads, CallAny(t)
      PROVE  EndsInv'
  <2>1. PICK o \in Ops, v \in Values \cup {Null} : Call(t, o, v) /\ (o \in Pushes => v \in Values)
    BY <1>3 DEF CallAny, Ops, Pushes
  <2>2. Entry(o) \in {"push_closed", "push_lock", "pull_lock", "try_lock", "empty_lock", "closed",
                    "close_store"}
    BY DEF Entry, Ops
  <2> QED  BY <2>1, <2>2 DEF Call
<1>4. ASSUME NEW t \in Threads, SpuriousWake(t)
      PROVE  EndsInv'
  BY <1>4 DEF SpuriousWake
<1> QED
  BY <1>1, <1>2, <1>3, <1>4 DEF Next

(* A step that leaves the list alone, and takes no thread out of a pop, keeps the chain. *)
LEMMA ChainQuiet ==
  ASSUME ChainInv, UNCHANGED list,
         \A s \in Threads : pc[s] \in {"pop_data", "pop_head"} => pc'[s] = pc[s]
  PROVE  ChainInv'
BY DEF ChainInv, list

(* The chain grows by the last node, once that is filled and linked. *)
LEMMA ChainGrows ==
  ASSUME ChainInv, head \in Nat, tail \in Nat, tail' = tail + 1, UNCHANGED <<head, data, next>>,
         next[tail] = tail + 1, data[tail] \in Values,
         \A s \in Threads : pc[s] \in {"pop_data", "pop_head"} => pc'[s] = pc[s]
  PROVE  ChainInv'
<1> SUFFICES ASSUME NEW n \in head .. tail
             PROVE  /\ next[n] = n + 1 \/ (n = head /\ \E t \in Threads : pc'[t] \in {"pop_data", "pop_head"})
                    /\ data[n] \in Values \/ (n = head /\ \E t \in Threads : pc'[t] = "pop_head")
  BY DEF ChainInv
<1>1. CASE n = tail
  BY <1>1
<1>2. CASE n # tail
  <2>1. n \in head .. tail - 1
    BY <1>2
  <2> QED  BY <2>1 DEF ChainInv
<1> QED  BY <1>1, <1>2

(* The same for a step of one thread that is not inside a pop. *)
LEMMA QuietStep ==
  ASSUME TypeOK, ChainInv, NEW t \in Threads, NEW from, NEW to, Step(t, from, to),
         UNCHANGED list, from \notin {"pop_data", "pop_head"}
  PROVE  ChainInv'
<1>1. \A s \in Threads : pc[s] \in {"pop_data", "pop_head"} => pc'[s] = pc[s]
  BY DEF Step, TypeOK
<1> QED  BY <1>1, ChainQuiet

(* The chain from head to tail stays whole. *)
LEMMA ChainStep ==
  ASSUME IInv, [Next]_vars
  PROVE  ChainInv'
<1>0. TypeOK /\ ChainInv
  BY DEF IInv
<1>1. CASE UNCHANGED vars
  BY <1>0, <1>1, ChainQuiet DEF vars
<1>2. ASSUME NEW t \in Threads, Run(t)
      PROVE  ChainInv'
  <2>1. CASE PushCheckClosed(t)
    <3>1. CASE Step(t, "push_closed", "push_lock") /\ UNCHANGED ret
      BY <1>0, <2>1, <3>1, QuietStep DEF PushCheckClosed
    <3>2. CASE Step(t, "push_closed", "return") /\ TakesEffect(t, "throw", Null)
      BY <1>0, <2>1, <3>2, QuietStep DEF PushCheckClosed
    <3> QED  BY <2>1, <3>1, <3>2 DEF PushCheckClosed
  <2>2. CASE PushLock(t)          BY <1>0, <2>2, QuietStep DEF PushLock
  <2>3. CASE PushData(t)
    <3> USE DEF IInv, TypeOK, MutexInv, HeadLabels, TailLabels, list, locks, locals, Step, TakesEffect,
               Result, NoRet, CallInv, CallOf, ShapeInv, EndsInv, ChainInv, PopLabels, PushLabels
    <3> QED  BY <2>3 DEF PushData
  <2>4. CASE PushNext(t)
    <3> USE DEF IInv, TypeOK, MutexInv, HeadLabels, TailLabels, list, locks, locals, Step, TakesEffect,
               Result, NoRet, CallInv, CallOf, ShapeInv, EndsInv, ChainInv, PopLabels, PushLabels
    <3> QED  BY <2>4 DEF PushNext
  <2>5. CASE PushTail(t)
    <3> USE DEF IInv, TypeOK, MutexInv, HeadLabels, TailLabels, list, locks, locals, Step, TakesEffect,
               Result, NoRet, CallInv, CallOf, ShapeInv, EndsInv, ChainInv, PopLabels, PushLabels
    <3>1. tail' = tail + 1 /\ UNCHANGED <<head, data, next>>
      BY <2>5 DEF PushTail
    <3>2. next[tail] = tail + 1 /\ data[tail] \in Values
      BY <2>5 DEF PushTail
    <3>3. \A s \in Threads : s # t => pc'[s] = pc[s]
      BY <2>5 DEF PushTail
    <3>4. pc[t] = "push_tail"
      BY <2>5 DEF PushTail
    <3>5. \A s \in Threads : pc[s] \in {"pop_data", "pop_head"} => pc'[s] = pc[s]
      BY <3>3, <3>4
    <3>6. head \in Nat /\ tail \in Nat
      OBVIOUS
    <3> HIDE DEF ChainInv
    <3> QED  BY <1>0, <3>1, <3>2, <3>5, <3>6, ChainGrows
  <2>6. CASE PushNotify(t)
    <3>1. UNCHANGED list
      BY <2>6 DEF PushNotify
    <3>2. \A s \in Threads : pc[s] \in {"pop_data", "pop_head"} => pc'[s] = pc[s]
      <4>1. CASE waiters = {} /\ Step(t, "push_notify", "return")
        BY <1>0, <4>1 DEF Step, TypeOK
      <4>2. ASSUME NEW w \in waiters, pc[t] = "push_notify",
                   pc' = [pc EXCEPT ![t] = "return", ![w] = "pull_lock"]
            PROVE  \A s \in Threads : pc[s] \in {"pop_data", "pop_head"} => pc'[s] = pc[s]
        <5>1. pc[w] = "waiting"
          BY DEF IInv, TypeOK, MutexInv
        <5> QED  BY <1>0, <4>2, <5>1 DEF TypeOK
      <4> QED  BY <2>6, <4>1, <4>2 DEF PushNotify
    <3> QED  BY <1>0, <3>1, <3>2, ChainQuiet
  <2>7. CASE PullLock(t)          BY <1>0, <2>7, QuietStep DEF PullLock
  <2>8. CASE PullCheckEmpty(t)    BY <1>0, <2>8, QuietStep DEF PullCheckEmpty
  <2>9. CASE PullPredClosed(t)    BY <1>0, <2>9, QuietStep DEF PullPredClosed
  <2>10. CASE Block(t)            BY <1>0, <2>10, QuietStep DEF Block
  <2>11. CASE PullCheckClosed(t)
    <3>1. CASE Step(t, "pull_closed", "unlock") /\ TakesEffect(t, "closed", Null)
      BY <1>0, <2>11, <3>1, QuietStep DEF PullCheckClosed
    <3>2. CASE Step(t, "pull_closed", "pop_next") /\ UNCHANGED ret
      BY <1>0, <2>11, <3>2, QuietStep DEF PullCheckClosed
    <3> QED  BY <2>11, <3>1, <3>2 DEF PullCheckClosed
  <2>12. CASE TryLock(t)          BY <1>0, <2>12, QuietStep DEF TryLock
  <2>13. CASE TryCheckEmpty(t)
    <3>1. CASE Step(t, "try_empty", "unlock") /\ TakesEffect(t, "empty", Null)
      BY <1>0, <2>13, <3>1, QuietStep DEF TryCheckEmpty
    <3>2. CASE Step(t, "try_empty", "pop_next") /\ UNCHANGED ret
      BY <1>0, <2>13, <3>2, QuietStep DEF TryCheckEmpty
    <3> QED  BY <2>13, <3>1, <3>2 DEF TryCheckEmpty
  <2>14. CASE EmptyCheck(t)       BY <1>0, <2>14, QuietStep DEF EmptyCheck
  <2>15. CASE PopNext(t)
    <3> USE DEF IInv, TypeOK, MutexInv, HeadLabels, TailLabels, list, locks, locals, Step, TakesEffect,
               Result, NoRet, CallInv, CallOf, ShapeInv, EndsInv, ChainInv, PopLabels, PushLabels
    <3>1. /\ next' = [next EXCEPT ![head] = 0] /\ pc'[t] = "pop_data" /\ UNCHANGED <<head, tail, data>>
          /\ next \in Seq(Nat) /\ \A s \in Threads : s # t => pc'[s] = pc[s]
      BY <2>15 DEF PopNext
    <3>2. pc[t] # "pop_head" /\ head \in Nat /\ tail \in Nat
      BY <2>15 DEF PopNext
    <3> HIDE DEF IInv, TypeOK, MutexInv, CallInv, ShapeInv, EndsInv
    <3>3. \A n \in head .. tail - 1 : n # head => next'[n] = next[n]
      BY <3>1, <3>2
    <3> QED  BY <1>0, <3>1, <3>2, <3>3
  <2>16. CASE PopData(t)
    <3> USE DEF IInv, TypeOK, MutexInv, HeadLabels, TailLabels, list, locks, locals, Step, TakesEffect,
               Result, NoRet, CallInv, CallOf, ShapeInv, EndsInv, ChainInv, PopLabels, PushLabels
    <3> QED  BY <2>16 DEF PopData
  <2>17. CASE PopHead(t)
    <3> USE DEF IInv, TypeOK, MutexInv, HeadLabels, TailLabels, list, locks, locals, Step, TakesEffect,
               Result, NoRet, CallInv, CallOf, ShapeInv, EndsInv, ChainInv, PopLabels, PushLabels
    <3> QED  BY <2>17 DEF PopHead
  <2>18. CASE Unlock(t)           BY <1>0, <2>18, QuietStep DEF Unlock
  <2>19. CASE Closed(t)           BY <1>0, <2>19, QuietStep DEF Closed
  <2>20. CASE CloseStore(t)       BY <1>0, <2>20, QuietStep DEF CloseStore
  <2>21. CASE CloseNotify(t)
    <3>1. \A s \in Threads : s \in waiters => pc[s] = "waiting"
      BY DEF IInv, MutexInv
    <3>2. \A s \in Threads : pc[s] \in {"pop_data", "pop_head"} => pc'[s] = pc[s]
      BY <2>21, <3>1 DEF CloseNotify
    <3> QED  BY <1>0, <2>21, <3>2, ChainQuiet DEF CloseNotify
  <2>22. CASE Return(t)           BY <1>0, <2>22, QuietStep DEF Return
  <2> QED
    BY <1>2, <2>1, <2>2, <2>3, <2>4, <2>5, <2>6, <2>7, <2>8, <2>9, <2>10, <2>11,
       <2>12, <2>13, <2>14, <2>15, <2>16, <2>17, <2>18, <2>19, <2>20, <2>21, <2>22 DEF Run
<1>3. ASSUME NEW t \in Threads, CallAny(t)
      PROVE  ChainInv'
  <2>1. PICK o \in Ops, v \in Values \cup {Null} : Call(t, o, v) /\ (o \in Pushes => v \in Values)
    BY <1>3 DEF CallAny, Ops, Pushes
  <2>2. Step(t, "idle", Entry(o)) /\ UNCHANGED list
    BY <2>1 DEF Call
  <2> QED  BY <1>0, <2>2, QuietStep
<1>4. ASSUME NEW t \in Threads, SpuriousWake(t)
      PROVE  ChainInv'
  BY <1>0, <1>4, QuietStep DEF SpuriousWake
<1> QED
  BY <1>1, <1>2, <1>3, <1>4 DEF Next

-----------------------------------------------------------------------------
(* The initial states satisfy the invariant. *)
LEMMA InitInv == Init => IInv
<1> SUFFICES ASSUME Init
             PROVE  IInv
  OBVIOUS
<1>1. TypeOK
  BY InitType
<1>2. MutexInv
  BY DEF Init, MutexInv, HeadLabels, TailLabels
<1>3. CallInv
  BY DEF Init, CallInv, CallOf, Idle, PushLabels, PopLabels, SleepLabels, EndLabels
<1>4. LateInv
  BY DEF Init, LateInv, Idle
<1>5. ShapeInv /\ EndsInv /\ ChainInv
  BY DEF Init, ShapeInv, EndsInv, ChainInv, PopLabels
<1> QED
  BY <1>1, <1>2, <1>3, <1>4, <1>5 DEF IInv

(* The invariant of the queue: every reachable state satisfies it. *)
THEOREM Invariance == Spec => []IInv
<1>1. IInv /\ [Next]_vars => IInv'
  BY TypeStep, MutexStep, CallStep, LateStep, ShapeStep, EndsStep, ChainStep DEF IInv
<1> QED
  BY InitInv, <1>1, PTL DEF Spec

(* normal_queue is type correct. *)
THEOREM TypeCorrect == Spec => []TypeOK
<1>1. IInv => TypeOK
  BY DEF IInv
<1> QED
  BY Invariance, <1>1, PTL

(* The puller at the head and the pusher at the tail never work on the     *)
(* same node, although they hold different mutexes.                        *)
THEOREM DataRaceFreedom == Spec => []NoDataRace
<1>1. IInv => NoDataRace
  BY DEF IInv, TypeOK, ShapeInv, EndsInv, NoDataRace, PopLabels
<1> QED
  BY Invariance, <1>1, PTL

(* The chain of nodes from head to tail is never broken. *)
THEOREM ChainIntegrity == Spec => []ListIsWhole
<1>1. ASSUME IInv
      PROVE  ListIsWhole
  <2> USE <1>1 DEF IInv, TypeOK, MutexInv, ShapeInv, EndsInv, ChainInv, HeadLabels
  <2>1. \A t \in Threads : pc[t] \in {"pop_data", "pop_head"} => head_mutex = t /\ head_mutex # Null
    OBVIOUS
  <2> QED
    BY <2>1 DEF ListIsWhole
<1> QED
  BY Invariance, <1>1, PTL

(* A pull() that begins after the close never blocks. *)
THEOREM LatePullsReturn == Spec => []LatePullNeverSleeps
<1>1. IInv => LatePullNeverSleeps
  BY DEF IInv, LateInv, CallInv, CallOf, LatePullNeverSleeps, SleepLabels
<1> QED
  BY Invariance, <1>1, PTL

-----------------------------------------------------------------------------
(* The refinement: the contents of the list are those of the FIFO queue.   *)

(* The i-th element, as Contents takes it from the list. *)
Elem(i) == IF i = 1 /\ data[head] = Null THEN val[head_mutex] ELSE data[head + i - 1]

ContentsOK ==
  /\ Contents \in Seq(Values)
  /\ Len(Contents) = tail - head
  /\ \A i \in 1 .. tail - head : Contents[i] = Elem(i)
  /\ Contents = << >> <=> IsEmpty

(* In a reachable state every element that is in the queue is a value. *)
LEMMA ContentsType == IInv => ContentsOK
<1> SUFFICES ASSUME IInv
             PROVE  ContentsOK
  OBVIOUS
<1> USE DEF IInv, TypeOK, MutexInv, ShapeInv, EndsInv, ChainInv, HeadLabels, PopLabels
<1>1. tail - head \in Nat
  OBVIOUS
<1>2. ASSUME NEW i \in 1 .. tail - head
      PROVE  Elem(i) \in Values
  <2>1. head + i - 1 \in head .. tail - 1
    BY <1>1
  <2>2. CASE data[head + i - 1] \in Values
    <3>1. i = 1 => head + i - 1 = head
      BY <1>1
    <3> QED  BY <2>2, <3>1 DEF Elem
  <2>3. CASE data[head + i - 1] \notin Values
    <3>1. head + i - 1 = head /\ \E t \in Threads : pc[t] = "pop_head"
      BY <2>1, <2>3
    <3>2. PICK t \in Threads : pc[t] = "pop_head"
      BY <3>1
    <3>3. i = 1
      BY <3>1, <1>1
    <3>4. head_mutex = t /\ val[t] \in Values /\ data[head] = Null
      BY <3>2
    <3> QED  BY <3>3, <3>4 DEF Elem
  <2> QED  BY <2>2, <2>3
<1>3. Contents = [i \in 1 .. tail - head |-> Elem(i)]
  BY DEF Contents, Elem
<1>4. Contents \in Seq(Values) /\ Len(Contents) = tail - head
  <2> HIDE DEF IInv, TypeOK, MutexInv, ShapeInv, EndsInv, ChainInv, Elem
  <2> QED  BY <1>1, <1>2, <1>3, IsASeq
<1>5. \A i \in 1 .. tail - head : Contents[i] = Elem(i)
  BY <1>3
<1>6. Contents = << >> <=> Len(Contents) = 0
  BY <1>4, EmptySeq
<1> QED
  BY <1>1, <1>4, <1>5, <1>6 DEF ContentsOK, IsEmpty

TakenOK == head < tail /\ data[head] = Null => head_mutex \in Threads /\ pc[head_mutex] = "pop_head"

(* Only the thread that is at pop_head has taken an element out of a node  *)
(* that is still in the list, and it holds head_mutex.                     *)
LEMMA TakenByPopper == IInv => TakenOK
<1> SUFFICES ASSUME IInv, head < tail, data[head] = Null
             PROVE  head_mutex \in Threads /\ pc[head_mutex] = "pop_head"
  BY DEF TakenOK
<1>1. head \in head .. tail - 1
  BY DEF IInv, TypeOK, ShapeInv
<1>2. PICK t \in Threads : pc[t] = "pop_head"
  BY <1>1 DEF IInv, ChainInv
<1> QED
  BY <1>2 DEF IInv, MutexInv, HeadLabels

(* A step that leaves the list and the locals of the poppers alone, and    *)
(* head_mutex too if its holder is at pop_head, leaves the contents alone. *)
LEMMA ContentsKept ==
  ASSUME IInv, UNCHANGED <<head, tail, data, val>>,
         head_mutex' = head_mutex \/ head_mutex = Null \/ pc[head_mutex] # "pop_head"
  PROVE  Contents' = Contents
<1>1. tail - head \in Nat /\ (1 \in 1 .. tail - head => head < tail)
  BY DEF IInv, TypeOK, ShapeInv
<1>2. head < tail /\ data[head] = Null => head_mutex' = head_mutex
  BY TakenByPopper DEF TakenOK
<1>3. \A i \in 1 .. tail - head : Elem(i)' = Elem(i)
  BY <1>1, <1>2 DEF Elem
<1> QED
  BY <1>1, <1>3 DEF Contents, Elem

(* The pusher's steps before PushTail write beyond the elements. *)
LEMMA PushKeepsContents ==
  ASSUME IInv, NEW t \in Threads, PushData(t) \/ PushNext(t)
  PROVE  Contents' = Contents
<1> USE DEF IInv, TypeOK, ShapeInv, PushData, PushNext, Step, locks, locals
<1>1. tail - head \in Nat /\ UNCHANGED <<head, tail, val, head_mutex>>
  OBVIOUS
<1>2. \A n \in head .. tail - 1 : data'[n] = data[n]
  <2>1. CASE PushData(t)  BY <2>1
  <2>2. CASE PushNext(t)  BY <2>2, AppendProperties
  <2> QED  BY <2>1, <2>2
<1>3. \A i \in 1 .. tail - head : head + i - 1 \in head .. tail - 1 /\ head \in head .. tail - 1
  BY <1>1
<1>4. \A i \in 1 .. tail - head : Elem(i)' = Elem(i)
  BY <1>1, <1>2, <1>3 DEF Elem
<1> QED
  BY <1>1, <1>4 DEF Contents, Elem

(* Moving the element from the node to the puller's local val hides nothing. *)
LEMMA PopDataKeepsContents ==
  ASSUME IInv, NEW t \in Threads, PopData(t)
  PROVE  Contents' = Contents
<1> USE DEF IInv, TypeOK, MutexInv, ShapeInv, EndsInv, HeadLabels, PopLabels, PopData, Step, locks
<1>1. head_mutex = t /\ UNCHANGED <<head, tail, head_mutex>> /\ head < tail /\ head \in 1 .. Len(data)
  OBVIOUS
<1>2. data[head] \in Values
  <2>1. \A s \in Threads : pc[s] = "pop_head" => s = t
    BY <1>1
  <2> QED  BY <1>1, <2>1 DEF ChainInv
<1>3. val'[t] = data[head] /\ data'[head] = Null /\ \A n \in head + 1 .. tail - 1 : data'[n] = data[n]
  BY <1>1
<1>4. Elem(1) = data[head] /\ Elem(1)' = data[head]
  BY <1>1, <1>2, <1>3 DEF Elem
<1>5. ASSUME NEW i \in 1 .. tail - head, i # 1
      PROVE  Elem(i)' = Elem(i)
  <2>1. head + i - 1 \in head + 1 .. tail - 1
    BY <1>5
  <2> QED  BY <1>1, <1>3, <1>5, <2>1 DEF Elem
<1>6. \A i \in 1 .. tail - head : Elem(i)' = Elem(i)
  BY <1>4, <1>5
<1> QED
  BY <1>1, <1>6 DEF Contents, Elem

(* Linking the new node adds its element at the end. *)
LEMMA PushTailAppends ==
  ASSUME IInv, IInv', NEW t \in Threads, PushTail(t)
  PROVE  Contents' = Append(Contents, call[t].arg)
<1> USE DEF PushTail, Step, TakesEffect
<1>1. /\ tail' = tail + 1 /\ UNCHANGED <<head, data, val, head_mutex>>
      /\ data[tail] = call[t].arg /\ call[t].arg \in Values /\ tail - head \in Nat
      /\ (head = tail => data[head] # Null)
  BY DEF IInv, TypeOK, ShapeInv, EndsInv, CallInv, CallOf, PushLabels, locals
<1>2. /\ Contents \in Seq(Values) /\ Len(Contents) = tail - head
      /\ \A i \in 1 .. tail - head : Contents[i] = Elem(i)
  BY ContentsType DEF ContentsOK
<1>3. /\ Contents' \in Seq(Values) /\ Len(Contents') = tail + 1 - head
      /\ \A i \in 1 .. tail + 1 - head : Contents'[i] = Elem(i)'
  <2>1. ContentsOK'
    BY ContentsType, PTL
  <2>2. tail' - head' = tail + 1 - head
    BY <1>1 DEF IInv, TypeOK
  <2> QED  BY <2>1, <2>2 DEF ContentsOK
<1>4. \A i \in 1 .. tail - head : Elem(i)' = Elem(i)
  BY <1>1 DEF Elem
<1>5. ASSUME NEW i \in 1 .. tail + 1 - head, i = tail + 1 - head
      PROVE  Elem(i)' = call[t].arg
  <2>1. head' + i - 1 = tail /\ (i = 1 => head = tail)
    BY <1>1, <1>5 DEF IInv, TypeOK
  <2>2. ~(i = 1 /\ data'[head'] = Null)
    BY <1>1, <2>1
  <2>3. Elem(i)' = data'[head' + i - 1]
    BY <2>2 DEF Elem
  <2> QED  BY <1>1, <2>1, <2>3
<1>6. /\ Append(Contents, call[t].arg) \in Seq(Values)
      /\ Len(Append(Contents, call[t].arg)) = tail + 1 - head
      /\ \A i \in 1 .. tail - head : Append(Contents, call[t].arg)[i] = Contents[i]
      /\ Append(Contents, call[t].arg)[tail + 1 - head] = call[t].arg
  <2>1. Len(Contents) + 1 = tail + 1 - head
    BY <1>1, <1>2 DEF IInv, TypeOK
  <2> QED  BY <1>1, <1>2, <2>1, AppendProperties
<1>7. \A i \in 1 .. tail + 1 - head : Contents'[i] = Append(Contents, call[t].arg)[i]
  <2>1. \A i \in 1 .. tail + 1 - head : i \in 1 .. tail - head \/ i = tail + 1 - head
    BY <1>1 DEF IInv, TypeOK
  <2>2. ASSUME NEW i \in 1 .. tail - head
        PROVE  Contents'[i] = Append(Contents, call[t].arg)[i]
    <3>1. i \in 1 .. tail + 1 - head
      BY <1>1 DEF IInv, TypeOK
    <3> QED  BY <1>2, <1>3, <1>4, <1>6, <3>1
  <2>3. ASSUME NEW i \in 1 .. tail + 1 - head, i = tail + 1 - head
        PROVE  Contents'[i] = Append(Contents, call[t].arg)[i]
    BY <1>3, <1>5, <1>6, <2>3
  <2> QED  BY <2>1, <2>2, <2>3
<1> QED
  BY <1>3, <1>6, <1>7, SeqEqual

(* Moving head past its node removes the first element: the puller's val. *)
LEMMA PopHeadTakesFirst ==
  ASSUME IInv, IInv', NEW t \in Threads, PopHead(t)
  PROVE  Contents # << >> /\ val[t] = Head(Contents) /\ Contents' = Tail(Contents)
<1> USE DEF PopHead, Step, TakesEffect
<1>1. /\ head' = head + 1 /\ UNCHANGED <<tail, data, head_mutex>> /\ head < tail
      /\ head_mutex = t /\ data[head] = Null /\ tail - head \in Nat /\ pc'[t] = "unlock"
  BY DEF IInv, TypeOK, MutexInv, ShapeInv, EndsInv, HeadLabels, PopLabels, locks
<1>2. /\ Contents \in Seq(Values) /\ Len(Contents) = tail - head /\ Contents # << >>
      /\ \A i \in 1 .. tail - head : Contents[i] = Elem(i)
  BY <1>1, ContentsType DEF ContentsOK, IsEmpty, IInv, TypeOK
<1>3. /\ Contents' \in Seq(Values) /\ Len(Contents') = tail - head - 1
      /\ \A i \in 1 .. tail - head - 1 : Contents'[i] = Elem(i)'
  <2>1. tail' - head' = tail - head - 1
    BY <1>1 DEF IInv, TypeOK
  <2>2. ContentsOK'
    BY ContentsType, PTL
  <2> QED  BY <2>1, <2>2 DEF ContentsOK
<1>4. head + 1 < tail => data'[head'] # Null
  <2>1. TakenOK'
    BY TakenByPopper, PTL
  <2> QED  BY <1>1, <2>1 DEF TakenOK, IInv, TypeOK
<1>5. \A i \in 1 .. tail - head - 1 : Elem(i)' = Elem(i + 1)
  <2> SUFFICES ASSUME NEW i \in 1 .. tail - head - 1
               PROVE  Elem(i)' = Elem(i + 1)
    OBVIOUS
  <2>1. i + 1 # 1 /\ head' + i - 1 = head + (i + 1) - 1 /\ head + 1 < tail
    BY <1>1 DEF IInv, TypeOK
  <2>2. Elem(i + 1) = data[head + (i + 1) - 1]
    BY <2>1 DEF Elem
  <2>3. Elem(i)' = data[head' + i - 1]
    BY <1>1, <1>4, <2>1 DEF Elem
  <2> QED  BY <2>1, <2>2, <2>3
<1>6. /\ Head(Contents) = Contents[1]
      /\ Tail(Contents) \in Seq(Values) /\ Len(Tail(Contents)) = tail - head - 1
      /\ \A i \in 1 .. tail - head - 1 : Tail(Contents)[i] = Contents[i + 1]
  BY <1>2, HeadTailProperties
<1>7. Contents[1] = val[t]
  BY <1>1, <1>2 DEF Elem, IInv, TypeOK
<1>8. \A i \in 1 .. tail - head - 1 : Contents'[i] = Tail(Contents)[i]
  <2>1. \A i \in 1 .. tail - head - 1 : i + 1 \in 1 .. tail - head
    BY <1>1
  <2> QED  BY <1>2, <1>3, <1>5, <1>6, <2>1
<1>9. Contents' = Tail(Contents)
  BY <1>3, <1>6, <1>8, SeqEqual
<1> QED
  BY <1>2, <1>6, <1>7, <1>9

(* Every step of the queue is a step of the FIFO queue, or changes nothing *)
(* that its callers can see.                                               *)
LEMMA StepRefines ==
  ASSUME IInv, IInv', [Next]_vars
  PROVE  [Fifo!Next]_(Fifo!vars)
<1> USE DEF Fifo!vars, list, locks, locals, Step, TakesEffect, Result, NoRet, Idle
<1> DEFINE Goal == [Fifo!Next]_(Fifo!vars)
<1>1. CASE UNCHANGED vars
  <2>1. Contents' = Contents
    BY <1>1, ContentsKept DEF vars
  <2> QED  BY <1>1, <2>1 DEF vars
<1>2. ASSUME NEW t \in Threads, Run(t)
      PROVE  Goal
  <2> USE DEF IInv, MutexInv, HeadLabels
  <2>1. CASE PushCheckClosed(t)
    <3>1. Contents' = Contents
      BY <2>1, ContentsKept DEF PushCheckClosed
    <3>2. CASE ~closed_ /\ Step(t, "push_closed", "push_lock") /\ UNCHANGED ret
      BY <2>1, <3>1, <3>2 DEF PushCheckClosed
    <3>3. CASE closed_ /\ Step(t, "push_closed", "return") /\ TakesEffect(t, "throw", Null)
      <4>1. Fifo!EnqClosed(t)
        BY <2>1, <3>1, <3>3 DEF PushCheckClosed, Fifo!EnqClosed, Fifo!Pending, Fifo!TakesEffect, Fifo!Result, Fifo!NoRet, Fifo!Idle, Fifo!Pushes, CallInv, CallOf, LateInv, Pushes, PushLabels, PopLabels, SleepLabels, EndLabels
      <4> QED  BY <4>1 DEF Fifo!Next
    <3> QED  BY <2>1, <3>2, <3>3 DEF PushCheckClosed
  <2>2. CASE PushLock(t)
    <3>1. Contents' = Contents
      BY <2>2, ContentsKept DEF PushLock
    <3> QED  BY <2>2, <3>1 DEF PushLock
  <2>3. CASE PushData(t)
    <3>1. Contents' = Contents
      BY <2>3, PushKeepsContents
    <3> QED  BY <2>3, <3>1 DEF PushData
  <2>4. CASE PushNext(t)
    <3>1. Contents' = Contents
      BY <2>4, PushKeepsContents
    <3> QED  BY <2>4, <3>1 DEF PushNext
  <2>5. CASE PushTail(t)
    <3>1. Contents' = Append(Contents, call[t].arg)
      BY <2>5, PushTailAppends
    <3>2. Fifo!Enq(t)
      BY <2>5, <3>1 DEF PushTail, Fifo!Enq, Fifo!Pending, Fifo!TakesEffect, Fifo!Result, Fifo!NoRet, Fifo!Idle, Fifo!Pushes, CallInv, CallOf, LateInv, Pushes, PushLabels, PopLabels, SleepLabels, EndLabels
    <3> QED  BY <3>2 DEF Fifo!Next
  <2>6. CASE PushNotify(t)
    <3>1. Contents' = Contents
      BY <2>6, ContentsKept DEF PushNotify
    <3> QED  BY <2>6, <3>1 DEF PushNotify
  <2>7. CASE PullLock(t)
    <3>1. Contents' = Contents
      BY <2>7, ContentsKept DEF PullLock
    <3> QED  BY <2>7, <3>1 DEF PullLock
  <2>8. CASE PullCheckEmpty(t)
    <3>1. Contents' = Contents
      BY <2>8, ContentsKept DEF PullCheckEmpty
    <3> QED  BY <2>8, <3>1 DEF PullCheckEmpty
  <2>9. CASE PullPredClosed(t)
    <3>1. Contents' = Contents
      BY <2>9, ContentsKept DEF PullPredClosed
    <3> QED  BY <2>9, <3>1 DEF PullPredClosed
  <2>10. CASE Block(t)
    <3>1. Contents' = Contents
      BY <2>10, ContentsKept DEF Block
    <3> QED  BY <2>10, <3>1 DEF Block
  <2>11. CASE PullCheckClosed(t)
    <3>1. Contents' = Contents
      BY <2>11, ContentsKept DEF PullCheckClosed
    <3>2. CASE closed_ /\ Step(t, "pull_closed", "unlock") /\ TakesEffect(t, "closed", Null)
      <4>1. Fifo!DeqClosed(t)
        BY <2>11, <3>1, <3>2 DEF PullCheckClosed, Fifo!DeqClosed, Fifo!Pending, Fifo!TakesEffect, Fifo!Result, Fifo!NoRet, Fifo!Idle, Fifo!Pushes, CallInv, CallOf, LateInv, Pushes, PushLabels, PopLabels, SleepLabels, EndLabels
      <4> QED  BY <4>1 DEF Fifo!Next
    <3>3. CASE ~closed_ /\ Step(t, "pull_closed", "pop_next") /\ UNCHANGED ret
      BY <2>11, <3>1, <3>3 DEF PullCheckClosed
    <3> QED  BY <2>11, <3>2, <3>3 DEF PullCheckClosed
  <2>12. CASE TryLock(t)
    <3>1. Contents' = Contents
      BY <2>12, ContentsKept DEF TryLock
    <3> QED  BY <2>12, <3>1 DEF TryLock
  <2>13. CASE TryCheckEmpty(t)
    <3>1. Contents' = Contents
      BY <2>13, ContentsKept DEF TryCheckEmpty
    <3>2. CASE IsEmpty /\ Step(t, "try_empty", "unlock") /\ TakesEffect(t, "empty", Null)
      <4>1. Fifo!DeqEmpty(t)
        BY <2>13, <3>1, <3>2, ContentsType DEF TryCheckEmpty, Fifo!DeqEmpty, Fifo!Pending, Fifo!TakesEffect, Fifo!Result, Fifo!NoRet, Fifo!Idle, Fifo!Pushes, CallInv, CallOf, LateInv, Pushes, PushLabels, PopLabels, SleepLabels, EndLabels, ContentsOK
      <4> QED  BY <4>1 DEF Fifo!Next
    <3>3. CASE ~IsEmpty /\ Step(t, "try_empty", "pop_next") /\ UNCHANGED ret
      BY <2>13, <3>1, <3>3 DEF TryCheckEmpty
    <3> QED  BY <2>13, <3>2, <3>3 DEF TryCheckEmpty
  <2>14. CASE EmptyCheck(t)
    <3>1. Contents' = Contents
      BY <2>14, ContentsKept DEF EmptyCheck
    <3>2. Fifo!Observe(t)
      BY <2>14, <3>1, ContentsType DEF EmptyCheck, Fifo!Observe, Fifo!Pending, Fifo!TakesEffect, Fifo!Result, Fifo!NoRet, Fifo!Idle, Fifo!Pushes, CallInv, CallOf, LateInv, Pushes, PushLabels, PopLabels, SleepLabels, EndLabels, ContentsOK
    <3> QED  BY <3>2 DEF Fifo!Next
  <2>15. CASE PopNext(t)
    <3>1. Contents' = Contents
      BY <2>15, ContentsKept DEF PopNext
    <3> QED  BY <2>15, <3>1 DEF PopNext
  <2>16. CASE PopData(t)
    <3>1. Contents' = Contents
      BY <2>16, PopDataKeepsContents
    <3> QED  BY <2>16, <3>1 DEF PopData
  <2>17. CASE PopHead(t)
    <3>1. Contents # << >> /\ val[t] = Head(Contents) /\ Contents' = Tail(Contents)
      BY <2>17, PopHeadTakesFirst
    <3>2. Fifo!Deq(t)
      BY <2>17, <3>1 DEF PopHead, Fifo!Deq, Fifo!Pending, Fifo!TakesEffect, Fifo!Result, Fifo!NoRet, Fifo!Idle, Fifo!Pushes, CallInv, CallOf, LateInv, Pushes, PushLabels, PopLabels, SleepLabels, EndLabels
    <3> QED  BY <3>2 DEF Fifo!Next
  <2>18. CASE Unlock(t)
    <3>1. Contents' = Contents
      BY <2>18, ContentsKept DEF Unlock
    <3> QED  BY <2>18, <3>1 DEF Unlock
  <2>19. CASE Closed(t)
    <3>1. Contents' = Contents
      BY <2>19, ContentsKept DEF Closed
    <3>2. Fifo!Observe(t)
      BY <2>19, <3>1 DEF Closed, Fifo!Observe, Fifo!Pending, Fifo!TakesEffect, Fifo!Result, Fifo!NoRet, Fifo!Idle, Fifo!Pushes, CallInv, CallOf, LateInv, Pushes, PushLabels, PopLabels, SleepLabels, EndLabels
    <3> QED  BY <3>2 DEF Fifo!Next
  <2>20. CASE CloseStore(t)
    <3>1. Contents' = Contents
      BY <2>20, ContentsKept DEF CloseStore
    <3>2. Fifo!Close(t)
      BY <2>20, <3>1 DEF CloseStore, Fifo!Close, Fifo!Pending, Fifo!TakesEffect, Fifo!Result, Fifo!NoRet, Fifo!Idle, Fifo!Pushes, CallInv, CallOf, LateInv, Pushes, PushLabels, PopLabels, SleepLabels, EndLabels
    <3> QED  BY <3>2 DEF Fifo!Next
  <2>21. CASE CloseNotify(t)
    <3>1. Contents' = Contents
      BY <2>21, ContentsKept DEF CloseNotify
    <3> QED  BY <2>21, <3>1 DEF CloseNotify
  <2>22. CASE Return(t)
    <3>1. Contents' = Contents
      BY <2>22, ContentsKept DEF Return
    <3>2. Fifo!Return(t)
      BY <2>22, <3>1 DEF Return, Fifo!Return, Fifo!Pending, Fifo!TakesEffect, Fifo!Result, Fifo!NoRet, Fifo!Idle, Fifo!Pushes, CallInv, CallOf, LateInv, Pushes, PushLabels, PopLabels, SleepLabels, EndLabels
    <3> QED  BY <3>2 DEF Fifo!Next
  <2> QED
    BY <1>2, <2>1, <2>2, <2>3, <2>4, <2>5, <2>6, <2>7, <2>8, <2>9, <2>10, <2>11,
       <2>12, <2>13, <2>14, <2>15, <2>16, <2>17, <2>18, <2>19, <2>20, <2>21, <2>22 DEF Run
<1>3. ASSUME NEW t \in Threads, CallAny(t)
      PROVE  Goal
  <2>1. CASE \E o \in Ops \ Pushes : Call(t, o, Null)
    <3>1. PICK o \in Ops \ Pushes : Call(t, o, Null)
      BY <2>1
    <3>2. Contents' = Contents
      BY <3>1, ContentsKept DEF Call
    <3>3. Fifo!Call(t, o, Null)
      BY <3>1, <3>2 DEF Call, Fifo!Call, Fifo!Idle, IInv, CallInv, CallOf
    <3> QED  BY <3>3 DEF Fifo!Next, Fifo!Ops, Fifo!Pushes, Ops, Pushes
  <2>2. CASE \E o \in Pushes, v \in Values : Call(t, o, v)
    <3>1. PICK o \in Pushes, v \in Values : Call(t, o, v)
      BY <2>2
    <3>2. Contents' = Contents
      BY <3>1, ContentsKept DEF Call
    <3>3. Fifo!Call(t, o, v)
      BY <3>1, <3>2 DEF Call, Fifo!Call, Fifo!Idle, IInv, CallInv, CallOf
    <3> QED  BY <3>3 DEF Fifo!Next, Fifo!Pushes, Pushes
  <2> QED  BY <1>3, <2>1, <2>2 DEF CallAny
<1>4. ASSUME NEW t \in Threads, SpuriousWake(t)
      PROVE  Goal
  <2>1. Contents' = Contents
    BY <1>4, ContentsKept DEF SpuriousWake
  <2> QED  BY <1>4, <2>1 DEF SpuriousWake
<1> QED
  BY <1>1, <1>2, <1>3, <1>4 DEF Next

(* The initial states are initial states of the FIFO queue. *)
LEMMA InitRefines == Init => Fifo!Init
<1> SUFFICES ASSUME Init
             PROVE  Fifo!Init
  OBVIOUS
<1>1. Contents = << >>
  BY InitInv, ContentsType DEF Init, ContentsOK, IsEmpty
<1> QED
  BY <1>1 DEF Init, Fifo!Init, Fifo!Idle, Fifo!NoRet, Idle, NoRet

(* normal_queue is a linearizable FIFO queue with a one-way close. *)
THEOREM Linearizable == Spec => ImplementsFifo
<1>1. IInv /\ IInv' /\ [Next]_vars => [Fifo!Next]_(Fifo!vars)
  BY StepRefines
<1> QED
  BY InitRefines, Invariance, <1>1, PTL DEF Spec, ImplementsFifo, Fifo!Spec
=============================================================================
