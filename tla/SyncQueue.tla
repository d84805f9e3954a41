----------------------------- MODULE SyncQueue -----------------------------
(***************************************************************************)
(* normal_queue (sync_queue.h, sync_queue_base.h): a linked list with a    *)
(* dummy last node.  Pushers work at the tail under tail_mutex, pullers at *)
(* the head under head_mutex, so the two ends really run in parallel.      *)
(* A puller that finds the queue empty blocks on the condition variable    *)
(* condi with head_mutex; push() and close() notify WITHOUT head_mutex.    *)
(*                                                                         *)
(* Each step of a thread is one access to shared memory, one acquisition   *)
(* or one release.  Nodes are numbered in the order they are linked in: a  *)
(* node that is not linked is known to its pusher alone.  Link 0 is null.  *)
(***************************************************************************)
EXTENDS Naturals, Sequences

CONSTANTS Threads,  \* the threads that use the queue
          Values,   \* the elements
          Null      \* no thread, no element

ASSUME NullAssumption == Null \notin Values /\ Null \notin Threads

VARIABLES
  head, tail,       \* the node pulled next; the dummy node at the end
  data, next,       \* data[n], next[n]: the contents of node n
  head_mutex,       \* the thread that holds it, or Null
  tail_mutex,
  closed_,
  waiters,          \* the threads blocked on condi
  pc,               \* pc[t]: the next step of thread t
  call,             \* call[t]: its pending call; late: it began after the close
  tmp, val,         \* the locals temp and val of pop()
  ret               \* ret[t]: its result, NoRet until it is fixed

list == <<head, tail, data, next>>
locks == <<head_mutex, tail_mutex, waiters>>
locals == <<tmp, val>>
vars == <<list, locks, closed_, pc, call, locals, ret>>

Ops == {"push", "try_push", "pull", "try_pull", "empty", "closed", "close"}
Pushes == {"push", "try_push"}

Idle == [op |-> "none", arg |-> Null, late |-> FALSE]
NoRet == [status |-> "none", val |-> Null]
Result(s, v) == [status |-> s, val |-> v]

Init ==
  /\ head = 1 /\ tail = 1
  /\ data = <<Null>> /\ next = <<0>>
  /\ head_mutex = Null /\ tail_mutex = Null
  /\ closed_ = FALSE
  /\ waiters = {}
  /\ pc = [t \in Threads |-> "idle"]
  /\ call = [t \in Threads |-> Idle]
  /\ tmp = [t \in Threads |-> 0]
  /\ val = [t \in Threads |-> Null]
  /\ ret = [t \in Threads |-> NoRet]

-----------------------------------------------------------------------------
Step(t, from, to) == pc[t] = from /\ pc' = [pc EXCEPT ![t] = to]

TakesEffect(t, s, v) == ret' = [ret EXCEPT ![t] = Result(s, v)]

Entry(o) ==
  CASE o = "push"     -> "push_closed"
    [] o = "try_push" -> "push_lock"
    [] o = "pull"     -> "pull_lock"
    [] o = "try_pull" -> "try_lock"
    [] o = "empty"    -> "empty_lock"
    [] o = "closed"   -> "closed"
    [] o = "close"    -> "close_store"

Call(t, o, v) ==
  /\ Step(t, "idle", Entry(o))
  /\ call' = [call EXCEPT ![t] = [op |-> o, arg |-> v, late |-> closed_]]
  /\ UNCHANGED <<list, locks, closed_, locals, ret>>

(* The call returns to its caller with ret[t]. *)
Return(t) ==
  /\ Step(t, "return", "idle")
  /\ call' = [call EXCEPT ![t] = Idle]
  /\ ret' = [ret EXCEPT ![t] = NoRet]
  /\ UNCHANGED <<list, locks, closed_, locals>>

-----------------------------------------------------------------------------
(* push, try_push *)

PushCheckClosed(t) ==
  /\ \/ ~closed_ /\ Step(t, "push_closed", "push_lock") /\ UNCHANGED ret
     \/ closed_ /\ Step(t, "push_closed", "return") /\ TakesEffect(t, "throw", Null)
  /\ UNCHANGED <<list, locks, closed_, call, locals>>

PushLock(t) ==
  /\ Step(t, "push_lock", "push_data")
  /\ tail_mutex = Null
  /\ tail_mutex' = t
  /\ UNCHANGED <<list, head_mutex, waiters, closed_, call, locals, ret>>

PushData(t) ==
  /\ Step(t, "push_data", "push_next")
  /\ data' = [data EXCEPT ![tail] = call[t].arg]
  /\ UNCHANGED <<head, tail, next, locks, closed_, call, locals, ret>>

(* Mutant: the old last node is not linked to the new one. *)
PushForgetsLink(t) ==
  /\ Step(t, "push_next", "push_tail")
  /\ data' = Append(data, Null)
  /\ next' = Append(next, 0)
  /\ UNCHANGED <<head, tail, locks, closed_, call, locals, ret>>

(* The new node becomes reachable: it is numbered. *)
PushNext(t) ==
  /\ Step(t, "push_next", "push_tail")
  /\ data' = Append(data, Null)
  /\ next' = Append([next EXCEPT ![tail] = Len(data) + 1], 0)
  /\ UNCHANGED <<head, tail, locks, closed_, call, locals, ret>>

(* Mutant: tail_mutex stays locked. *)
PushKeepsTailMutex(t) ==
  /\ Step(t, "push_tail", "push_notify")
  /\ tail' = Len(data)
  /\ TakesEffect(t, "success", Null)
  /\ UNCHANGED <<head, data, next, locks, closed_, call, locals>>

PushTail(t) ==
  /\ Step(t, "push_tail", "push_notify")
  /\ tail' = Len(data)
  /\ tail_mutex' = Null
  /\ TakesEffect(t, "success", Null)
  /\ UNCHANGED <<head, data, next, head_mutex, waiters, closed_, call, locals>>

(* notify_one: some blocked thread, if there is one, leaves the condition variable. *)
PushNotify(t) ==
  /\ \/ /\ waiters = {}
        /\ Step(t, "push_notify", "return")
        /\ UNCHANGED waiters
     \/ \E w \in waiters :
          /\ pc[t] = "push_notify"
          /\ waiters' = waiters \ {w}
          /\ pc' = [pc EXCEPT ![t] = "return", ![w] = "pull_lock"]
  /\ UNCHANGED <<list, head_mutex, tail_mutex, closed_, call, locals, ret>>

-----------------------------------------------------------------------------
(* pull: a thread that wakes takes head_mutex and tests the predicate again. *)

PullLock(t) ==
  /\ Step(t, "pull_lock", "pull_empty")
  /\ head_mutex = Null
  /\ head_mutex' = t
  /\ UNCHANGED <<list, tail_mutex, waiters, closed_, call, locals, ret>>

(* empty() reads tail under tail_mutex. *)
IsEmpty == head = tail

PullCheckEmpty(t) ==
  /\ tail_mutex = Null
  /\ Step(t, "pull_empty", IF IsEmpty THEN "pull_pred" ELSE "pull_closed")
  /\ UNCHANGED <<list, locks, closed_, call, locals, ret>>

(* Mutant: the predicate of the wait does not look at closed_. *)
PullIgnoresClosed(t) ==
  /\ Step(t, "pull_pred", "block")
  /\ UNCHANGED <<list, locks, closed_, call, locals, ret>>

PullPredClosed(t) ==
  /\ Step(t, "pull_pred", IF closed_ THEN "pull_closed" ELSE "block")
  /\ UNCHANGED <<list, locks, closed_, call, locals, ret>>

Block(t) ==
  /\ Step(t, "block", "waiting")
  /\ waiters' = waiters \cup {t}
  /\ head_mutex' = Null
  /\ UNCHANGED <<list, tail_mutex, closed_, call, locals, ret>>

SpuriousWake(t) ==
  /\ Step(t, "waiting", "pull_lock")
  /\ waiters' = waiters \ {t}
  /\ UNCHANGED <<list, head_mutex, tail_mutex, closed_, call, locals, ret>>

PullCheckClosed(t) ==
  /\ \/ closed_ /\ Step(t, "pull_closed", "unlock") /\ TakesEffect(t, "closed", Null)
     \/ ~closed_ /\ Step(t, "pull_closed", "pop_next") /\ UNCHANGED ret
  /\ UNCHANGED <<list, locks, closed_, call, locals>>

-----------------------------------------------------------------------------
(* try_pull, empty, closed *)

TryLock(t) ==
  /\ \/ Step(t, "try_lock", "try_empty")
     \/ Step(t, "empty_lock", "empty_check")
  /\ head_mutex = Null
  /\ head_mutex' = t
  /\ UNCHANGED <<list, tail_mutex, waiters, closed_, call, locals, ret>>

(* Mutant: try_pull does not test for emptiness. *)
TryPopsAnyway(t) ==
  /\ tail_mutex = Null
  /\ Step(t, "try_empty", "pop_next")
  /\ UNCHANGED <<list, locks, closed_, call, locals, ret>>

(* Mutant: try_pull gives up on a closed queue, as the code once did. *)
TryGivesUpWhenClosed(t) ==
  /\ tail_mutex = Null
  /\ \/ (IsEmpty \/ closed_) /\ Step(t, "try_empty", "unlock") /\ TakesEffect(t, "empty", Null)
     \/ ~IsEmpty /\ ~closed_ /\ Step(t, "try_empty", "pop_next") /\ UNCHANGED ret
  /\ UNCHANGED <<list, locks, closed_, call, locals>>

TryCheckEmpty(t) ==
  /\ tail_mutex = Null
  /\ \/ IsEmpty /\ Step(t, "try_empty", "unlock") /\ TakesEffect(t, "empty", Null)
     \/ ~IsEmpty /\ Step(t, "try_empty", "pop_next") /\ UNCHANGED ret
  /\ UNCHANGED <<list, locks, closed_, call, locals>>

EmptyCheck(t) ==
  /\ tail_mutex = Null
  /\ Step(t, "empty_check", "unlock")
  /\ TakesEffect(t, IF IsEmpty THEN "empty" ELSE "nonempty", Null)
  /\ UNCHANGED <<list, locks, closed_, call, locals>>

Closed(t) ==
  /\ Step(t, "closed", "return")
  /\ TakesEffect(t, IF closed_ THEN "closed" ELSE "open", Null)
  /\ UNCHANGED <<list, locks, closed_, call, locals>>

-----------------------------------------------------------------------------
(* pop: move head->next out, move the element out, destroy the old head. *)

PopNext(t) ==
  /\ Step(t, "pop_next", "pop_data")
  /\ tmp' = [tmp EXCEPT ![t] = next[head]]
  /\ next' = [next EXCEPT ![head] = 0]
  /\ UNCHANGED <<head, tail, data, locks, closed_, call, val, ret>>

PopData(t) ==
  /\ Step(t, "pop_data", "pop_head")
  /\ val' = [val EXCEPT ![t] = data[head]]
  /\ data' = [data EXCEPT ![head] = Null]
  /\ UNCHANGED <<head, tail, next, locks, closed_, call, tmp, ret>>

(* Mutant: pop returns the node it moved out instead of the element. *)
PopReturnsNode(t) ==
  /\ Step(t, "pop_head", "unlock")
  /\ head' = tmp[t]
  /\ TakesEffect(t, "success", tmp[t])
  /\ tmp' = [tmp EXCEPT ![t] = 0]
  /\ val' = [val EXCEPT ![t] = Null]
  /\ UNCHANGED <<tail, data, next, locks, closed_, call>>

PopHead(t) ==
  /\ Step(t, "pop_head", "unlock")
  /\ head' = tmp[t]
  /\ TakesEffect(t, "success", val[t])
  /\ tmp' = [tmp EXCEPT ![t] = 0]
  /\ val' = [val EXCEPT ![t] = Null]
  /\ UNCHANGED <<tail, data, next, locks, closed_, call>>

(* The guard lk goes out of scope. *)
Unlock(t) ==
  /\ Step(t, "unlock", "return")
  /\ head_mutex' = Null
  /\ UNCHANGED <<list, tail_mutex, waiters, closed_, call, locals, ret>>

-----------------------------------------------------------------------------
(* close *)

CloseStore(t) ==
  /\ Step(t, "close_store", "close_notify")
  /\ closed_' = TRUE
  /\ TakesEffect(t, "success", Null)
  /\ UNCHANGED <<list, locks, call, locals>>

(* Mutant: close() does not notify. *)
CloseIsSilent(t) ==
  /\ Step(t, "close_notify", "return")
  /\ UNCHANGED <<list, locks, closed_, call, locals, ret>>

(* notify_all, without head_mutex. *)
CloseNotify(t) ==
  /\ pc[t] = "close_notify"
  /\ waiters' = {}
  /\ pc' = [w \in Threads |-> IF w = t THEN "return"
                              ELSE IF w \in waiters THEN "pull_lock" ELSE pc[w]]
  /\ UNCHANGED <<list, head_mutex, tail_mutex, closed_, call, locals, ret>>

-----------------------------------------------------------------------------
(* What a thread inside an operation does next, without its caller's help. *)
Run(t) ==
  \/ PushCheckClosed(t) \/ PushLock(t) \/ PushData(t) \/ PushNext(t)
  \/ PushTail(t) \/ PushNotify(t)
  \/ PullLock(t) \/ PullCheckEmpty(t) \/ PullPredClosed(t) \/ Block(t)
  \/ PullCheckClosed(t) \/ TryLock(t) \/ TryCheckEmpty(t) \/ EmptyCheck(t)
  \/ PopNext(t) \/ PopData(t) \/ PopHead(t) \/ Unlock(t)
  \/ Closed(t) \/ CloseStore(t) \/ CloseNotify(t) \/ Return(t)

CallAny(t) ==
  \/ \E o \in Ops \ Pushes : Call(t, o, Null)
  \/ \E o \in Pushes, v \in Values : Call(t, o, v)

Next == \E t \in Threads : CallAny(t) \/ Run(t) \/ SpuriousWake(t)

Spec == Init /\ [][Next]_vars

-----------------------------------------------------------------------------
HeadLabels == {"pull_empty", "pull_pred", "block", "pull_closed", "try_empty",
               "empty_check", "pop_next", "pop_data", "pop_head", "unlock"}
TailLabels == {"push_data", "push_next", "push_tail"}
Labels == HeadLabels \cup TailLabels \cup
  {"idle", "return", "push_closed", "push_lock", "push_notify", "pull_lock",
   "waiting", "try_lock", "empty_lock", "closed", "close_store", "close_notify"}

Statuses == {"none", "success", "throw", "closed", "open", "empty", "nonempty"}

(* Every variable keeps its type. *)
TypeOK ==
  /\ head \in Nat /\ tail \in Nat
  /\ data \in Seq(Values \cup {Null})
  /\ next \in Seq(Nat)
  /\ head_mutex \in Threads \cup {Null}
  /\ tail_mutex \in Threads \cup {Null}
  /\ closed_ \in BOOLEAN
  /\ waiters \subseteq Threads
  /\ pc \in [Threads -> Labels]
  /\ call \in [Threads -> [op : Ops \cup {"none"}, arg : Values \cup {Null}, late : BOOLEAN]]
  /\ tmp \in [Threads -> Nat]
  /\ val \in [Threads -> Values \cup {Null}]
  /\ ret \in [Threads -> [status : Statuses, val : Values \cup {Null}]]

(* The two ends never touch the same node: while a puller takes the head   *)
(* node apart (pop), a pusher that fills the dummy node works on another.  *)
(* The mutexes differ, so only the emptiness test keeps them apart.        *)
NoDataRace ==
  \A s, t \in Threads :
    /\ s # t
    /\ pc[s] \in {"pop_next", "pop_data", "pop_head"}
    /\ pc[t] \in {"push_data", "push_next"}
    => head # tail

(* The list a puller walks is whole: the chain from head reaches tail, and *)
(* every node before tail holds an element, but for the head node that the *)
(* holder of head_mutex is taking apart.                                   *)
ListIsWhole ==
  /\ head <= tail
  /\ \A n \in head .. tail - 1 :
       /\ next[n] = n + 1
          \/ /\ n = head /\ head_mutex # Null
             /\ pc[head_mutex] \in {"pop_data", "pop_head"}
             /\ tmp[head_mutex] = n + 1
       /\ data[n] \in Values
          \/ /\ n = head /\ head_mutex # Null
             /\ pc[head_mutex] = "pop_head"
             /\ val[head_mutex] \in Values

(* A pull() that began after the close never sleeps: nobody would wake it. *)
LatePullNeverSleeps ==
  \A t \in Threads : call[t].late => pc[t] \notin {"block", "waiting"}

(* The elements in the queue, as a caller of an operation can observe them. *)
Contents ==
  [i \in 1 .. tail - head |->
     IF i = 1 /\ data[head] = Null THEN val[head_mutex] ELSE data[head + i - 1]]

(* The queue is a linearizable FIFO queue with a one-way close.  An        *)
(* operation takes effect when its mutex-protected step does.              *)
Fifo == INSTANCE FifoQueue WITH q <- Contents, closed <- closed_
ImplementsFifo == Fifo!Spec
=============================================================================
