--------------------------- MODULE ControlProofs ---------------------------
(***************************************************************************)
(* ctr_pool, for any number of workers and any tasks: nobody is inside     *)
(* when it is gone.  And the waits that can be interrupted: the flag never *)
(* names a condition variable whose wait is over.  Last, the types of all  *)
(* that MCControl composes, with the futures of OwnershipProofs.           *)
(***************************************************************************)
EXTENDS MCControl, OwnershipProofs, SequenceTheorems

-----------------------------------------------------------------------------
(* The inductive invariant of the pool, part by part. *)

(* The functions that say where the threads are. *)
ShapeInv ==
  /\ work \in [Workers -> {"none", "alive", "leaving", "exited"}]
  /\ seek \in [Threads -> {"none", "local", "main", "steal"}]
  /\ stack = [t \in Threads |-> stack[t]]

Resting(t) == seek[t] = "none" /\ stack[t] = << >>

(* A worker that is not in its loop looks for no task and runs none. *)
WorkerInv == \A w \in Workers : work[w] # "alive" => Resting(w)

(* The owner works for the pool only while it is open. *)
OwnerInv == life # "open" => Resting(Owner)

(* The joiner has seen every worker end. *)
GoneInv == life = "gone" => \A w \in Workers : work[w] \in {"none", "exited"}

CtrInv == ShapeInv /\ WorkerInv /\ OwnerInv /\ GoneInv

-----------------------------------------------------------------------------
(* The owner is a thread, and not a worker. *)
LEMMA WhoIsWho ==
  /\ Threads = Workers \cup {Owner}
  /\ Owner \notin Workers
  BY NAssumption DEF NAssumption, Workers, Owner, Threads

(* Before the pool is constructed everybody rests. *)
LEMMA CtrInitInv == CtrInit => CtrInv
  BY WhoIsWho DEF CtrInit, CtrInv, ShapeInv, WorkerInv, OwnerInv, GoneInv, Resting

(* The steps that begin and end the pool. *)
LEMMA LifeInv ==
  ASSUME CtrInv, UNCHANGED <<work, seek, stack>>,
         life # "open" \/ Resting(Owner),
         life # "gone" \/ life' = "gone",
         life' = "gone" => \A w \in Workers : work[w] \in {"none", "exited"}
  PROVE  CtrInv'
  BY DEF CtrInv, ShapeInv, WorkerInv, OwnerInv, GoneInv, Resting

(* A step of a busy thread that only it can see: it looks for a task, or   *)
(* runs one.                                                               *)
LEMMA BusyInv ==
  ASSUME CtrInv, NEW t \in Threads, ~Resting(t) \/ InUserCode(t),
         NEW where \in {"none", "local", "main", "steal"}, NEW tasks,
         seek' = [seek EXCEPT ![t] = where], stack' = [stack EXCEPT ![t] = tasks],
         UNCHANGED <<life, work>>
  PROVE  CtrInv'
<1> USE WhoIsWho DEF CtrInv, ShapeInv, WorkerInv, OwnerInv, GoneInv, Resting, InUserCode
<1>1. ShapeInv'
  OBVIOUS
<1>2. \A s \in Threads \ {t} : Resting(s) => Resting(s)'
  OBVIOUS
<1>3. t = Owner => life = "open"
  OBVIOUS
<1>4. t \in Workers => work[t] = "alive"
  OBVIOUS
<1> QED
  BY <1>1, <1>2, <1>3, <1>4

(* Looking for a task. *)
LEMMA SeekInv ==
  ASSUME CtrInv, NEW t \in Threads,
         FromLocalTasks(t) \/ FromMainTasks(t) \/ StealFromOtherTasks(t) \/ CtrTryExecutingOne(t)
  PROVE  CtrInv'
<1>1. /\ UNCHANGED <<life, work>>
      /\ ~Resting(t) \/ InUserCode(t)
  BY DEF FromLocalTasks, FromMainTasks, StealFromOtherTasks, CtrTryExecutingOne, ctrDestroy, Seeks,
         Resting
<1>2. \E where \in {"none", "local", "main", "steal"} : seek' = [seek EXCEPT ![t] = where]
  BY DEF FromLocalTasks, FromMainTasks, StealFromOtherTasks, CtrTryExecutingOne, Seeks
<1>3. stack = [stack EXCEPT ![t] = stack[t]]
  BY DEF CtrInv, ShapeInv
<1>4. \E tasks : stack' = [stack EXCEPT ![t] = tasks]
  BY <1>3 DEF FromLocalTasks, FromMainTasks, StealFromOtherTasks, CtrTryExecutingOne, Runs
<1> QED
  BY <1>1, <1>2, <1>4, BusyInv

(* A worker starts, goes round its loop, or ends. *)
LEMMA WorkerStepInv ==
  ASSUME CtrInv, NEW w \in Workers, CtrSpawn(w) \/ CtrLoop(w) \/ CtrExit(w)
  PROVE  CtrInv'
<1> USE WhoIsWho DEF CtrInv, ShapeInv, WorkerInv, OwnerInv, GoneInv, Resting, ctrDestroy
<1>1. CASE CtrSpawn(w)
  BY <1>1 DEF CtrSpawn
<1>2. CASE CtrLoop(w)
  <2>1. CASE Seeks(w, "none", "local") /\ UNCHANGED work
    BY <1>2, <2>1 DEF CtrLoop, Seeks
  <2>2. CASE work' = [work EXCEPT ![w] = "leaving"] /\ UNCHANGED seek
    BY <1>2, <2>2 DEF CtrLoop
  <2> QED
    BY <1>2, <2>1, <2>2 DEF CtrLoop
<1>3. CASE CtrExit(w)
  BY <1>3 DEF CtrExit
<1> QED
  BY <1>1, <1>2, <1>3

(* Submitting and ending tasks. *)
LEMMA TaskInv ==
  ASSUME CtrInv, NEW t \in Threads,
         (\E k \in Tasks : CtrSubmit(t, k)) \/ CtrTaskDone(t) \/ CtrTaskThrows(t)
  PROVE  CtrInv'
<1>1. seek = [seek EXCEPT ![t] = seek[t]] /\ seek[t] \in {"none", "local", "main", "steal"}
      /\ stack = [stack EXCEPT ![t] = stack[t]]
  BY DEF CtrInv, ShapeInv
<1>2. UNCHANGED <<life, work, seek>>
  BY DEF CtrSubmit, CtrTaskDone, CtrTaskThrows, Unwinds, ctrDestroy
<1>3. \E tasks : stack' = [stack EXCEPT ![t] = tasks]
  BY <1>1 DEF CtrSubmit, CtrTaskDone, CtrTaskThrows, Unwinds
<1>4. ~Resting(t) \/ InUserCode(t)
  BY DEF CtrSubmit, CtrTaskDone, CtrTaskThrows, Unwinds, Resting
<1> QED
  BY <1>1, <1>2, <1>3, <1>4, BusyInv

(* An interrupted task ends, and with the outermost one its thread. *)
LEMMA TaskInterruptedInv ==
  ASSUME CtrInv, NEW w \in Workers, CtrTaskInterrupted(w)
  PROVE  CtrInv'
<1>1. PICK m \in 0 .. Cardinality(Tasks) :
        Unwinds(w, m) /\ work' = IF m = 0 THEN [work EXCEPT ![w] = "leaving"] ELSE work
  BY DEF CtrTaskInterrupted
<1>2. CASE m = 0
  <2>1. SubSeq(stack[w], 1, m) = << >>
    BY <1>2, SubSeqEmpty
  <2>2. stack' = [stack EXCEPT ![w] = SubSeq(stack[w], 1, m)]
    BY <1>1 DEF Unwinds
  <2>3. stack' = [stack EXCEPT ![w] = << >>]
    BY <2>1, <2>2
  <2>4. seek[w] = "none" /\ UNCHANGED <<life, seek>> /\ stack[w] # << >>
    BY <1>1 DEF Unwinds, ctrDestroy
  <2>5. work' = [work EXCEPT ![w] = "leaving"]
    BY <1>1, <1>2
  <2> QED
    BY <2>3, <2>4, <2>5, WhoIsWho DEF CtrInv, ShapeInv, WorkerInv, OwnerInv, GoneInv, Resting
<1>3. CASE m # 0
  <2>1. seek = [seek EXCEPT ![w] = seek[w]] /\ seek[w] \in {"none", "local", "main", "steal"}
    BY WhoIsWho DEF CtrInv, ShapeInv
  <2>2. /\ UNCHANGED <<life, work, seek>> /\ stack[w] # << >>
        /\ stack' = [stack EXCEPT ![w] = SubSeq(@, 1, m)]
    BY <1>1, <1>3 DEF Unwinds, ctrDestroy
  <2> QED
    BY <2>1, <2>2, BusyInv, WhoIsWho DEF Resting
<1> QED
  BY <1>2, <1>3

-----------------------------------------------------------------------------
(* Every step keeps the invariant. *)
LEMMA CtrStepInv == CtrInv /\ [CtrNext]_ctrVars => CtrInv'
<1> SUFFICES ASSUME CtrInv, [CtrNext]_ctrVars
             PROVE  CtrInv'
  OBVIOUS
<1>1. CASE UNCHANGED ctrVars
  BY <1>1 DEF ctrVars, ctrDestroy, CtrInv, ShapeInv, WorkerInv, OwnerInv, GoneInv, Resting
<1>2. CASE CtrConstruct \/ CtrSpawnFails \/ CtrDestroys \/ CtrSetStores \/ CtrSetNotifies \/ CtrJoin
  BY <1>2, LifeInv
     DEF CtrConstruct, CtrSpawnFails, CtrDestroys, CtrSetStores, CtrSetNotifies, CtrJoin, Resting
<1>3. ASSUME NEW t \in Threads, CtrProgress(t)
      PROVE  CtrInv'
  BY <1>2, <1>3, WorkerStepInv, SeekInv DEF CtrProgress
<1>4. ASSUME NEW t \in Threads, CtrUser(t) \/ CtrTaskDone(t)
      PROVE  CtrInv'
  BY <1>2, <1>4, SeekInv, TaskInv, TaskInterruptedInv DEF CtrUser
<1> QED
  BY <1>1, <1>3, <1>4 DEF CtrNext

(* The invariant of the pool: every reachable state satisfies it. *)
THEOREM CtrInvariance == CtrSpec => []CtrInv
  BY CtrInitInv, CtrStepInv, PTL DEF CtrSpec

(* When the pool is gone no worker is left in its loop, in its queues or   *)
(* in a task.                                                              *)
THEOREM CtrSafeDestruction == CtrSpec => []CtrNoUseAfterDestroy
<1>1. CtrInv => CtrNoUseAfterDestroy
  BY WhoIsWho DEF CtrInv, WorkerInv, OwnerInv, GoneInv, Resting, CtrNoUseAfterDestroy
<1> QED
  BY CtrInvariance, <1>1, PTL

-----------------------------------------------------------------------------
(* Types.  The destructor's walk over the workers stays in range because   *)
(* it begins at the first one and ends with the last.                      *)
WalkInv ==
  /\ life \in {"none", "ctor", "open"} => next = 0
  /\ life = "interrupting" => next < N
  /\ half => life = "interrupting"

CtrTypeInv == CtrTypeOK /\ WalkInv

(* The queue a thief looks into is the queue of a worker. *)
LEMMA VictimIsWorker ==
  ASSUME CtrTypeOK, NEW t \in Threads
  PROVE  (Idx(t) + off[t] + 1) % N \in Workers /\ (off[t] + 1) % N \in 0 .. N - 1
<1>1. N \in Nat /\ N > 0
  BY NAssumption DEF NAssumption
<1>2. off[t] \in 0 .. N - 1
  BY DEF CtrTypeOK
<1>3. Idx(t) \in Nat
  BY <1>1 DEF Idx, Threads, Workers, Owner
<1>4. ASSUME NEW n \in Nat
      PROVE  n % N \in 0 .. N - 1
  BY <1>1, <1>4
<1>5. Idx(t) + off[t] + 1 \in Nat /\ off[t] + 1 \in Nat
  BY <1>1, <1>2, <1>3
<1> QED
  BY <1>4, <1>5 DEF Workers

(* A task goes to the front of a queue, to the back of a list, or leaves   *)
(* the front of one; a stack loses its end.                                *)
LEMMA ListTypes ==
  ASSUME NEW s \in Seq(Tasks)
  PROVE  /\ \A k \in Tasks : PushFront(s, k) \in Seq(Tasks) /\ Append(s, k) \in Seq(Tasks)
         /\ s # << >> => Head(s) \in Tasks /\ PopFront(s) \in Seq(Tasks) /\ Tail(s) \in Seq(Tasks)
         /\ \A m \in 0 .. Len(s) : SubSeq(s, 1, m) \in Seq(Tasks)
<1>1. ASSUME NEW k \in Tasks
      PROVE  PushFront(s, k) \in Seq(Tasks) /\ Append(s, k) \in Seq(Tasks)
  <2>1. <<k>> \in Seq(Tasks)
    OBVIOUS
  <2> QED
    BY <2>1, ConcatProperties, AppendProperties DEF PushFront
<1>2. s # << >> => Head(s) \in Tasks /\ PopFront(s) \in Seq(Tasks) /\ Tail(s) \in Seq(Tasks)
  BY HeadTailProperties DEF PopFront
<1>3. ASSUME NEW m \in 0 .. Len(s)
      PROVE  SubSeq(s, 1, m) \in Seq(Tasks)
  BY SubSeqProperties, ElementOfSeq
<1> QED
  BY <1>1, <1>2, <1>3

(* Before the pool is constructed. *)
LEMMA CtrInitTypes == CtrInit => CtrTypeInv
<1> SUFFICES ASSUME CtrInit
             PROVE  CtrTypeInv
  OBVIOUS
<1>1. << >> \in Seq(Tasks)
  BY EmptySeq
<1>2. 0 \in 0 .. N /\ 0 \in 0 .. N - 1
  BY NAssumption DEF NAssumption
<1>3. /\ work \in [Workers -> {"none", "alive", "leaving", "exited"}]
      /\ seek \in [Threads -> {"none", "local", "main", "steal"}]
      /\ off \in [Threads -> 0 .. N - 1]
      /\ stack \in [Threads -> Seq(Tasks)]
      /\ local \in [Workers -> Seq(Tasks)] /\ main \in Seq(Tasks)
      /\ interrupted \in [Workers -> BOOLEAN] /\ flagLive \in [Workers -> BOOLEAN]
  BY <1>1, <1>2 DEF CtrInit
<1>4. /\ life = "none" /\ next = 0 /\ half = FALSE /\ terminated = FALSE
      /\ tried = {} /\ done = {} /\ aborted = {}
  BY DEF CtrInit
<1> QED
  BY <1>2, <1>3, <1>4 DEF CtrTypeInv, CtrTypeOK, WalkInv

(* The steps that leave the tasks where they are: the pool's life, its     *)
(* destructor, and its workers.                                            *)
LEMMA LifeTypes ==
  ASSUME CtrTypeInv,
         CtrConstruct \/ CtrSpawnFails \/ CtrDestroys \/ CtrSetStores \/ CtrSetNotifies \/ CtrJoin
  PROVE  CtrTypeInv'
<1> USE NAssumption DEF NAssumption, CtrTypeInv
<1>1. UNCHANGED <<work, seek, off, stack, local, main, flagLive, tried, done, aborted, terminated>>
  BY DEF CtrConstruct, CtrSpawnFails, CtrDestroys, CtrSetStores, CtrSetNotifies, CtrJoin,
         ctrQueues, ctrFlags, ctrTasks, ctrDestroy
<1>2. next \in 0 .. N /\ interrupted \in [Workers -> BOOLEAN]
  BY DEF CtrTypeOK
<1>3. interrupted' \in [Workers -> BOOLEAN]
  BY <1>2 DEF CtrConstruct, CtrSpawnFails, CtrDestroys, CtrSetStores, CtrSetNotifies, CtrJoin,
              ctrFlags
<1>4. CASE CtrSetNotifies
  <2>1. /\ life = "interrupting" /\ half' = FALSE /\ next' = next + 1 /\ next < N
        /\ life' = IF next = N - 1 THEN "joining" ELSE "interrupting"
    BY <1>4 DEF CtrSetNotifies, WalkInv
  <2>2. next' \in 0 .. N /\ (life' = "interrupting" => next' < N)
    BY <1>2, <2>1
  <2> QED
    BY <1>1, <1>3, <2>1, <2>2 DEF CtrTypeOK, WalkInv
<1>5. CASE CtrSetStores
  <2>1. /\ life = "interrupting" /\ life' = life /\ half' = TRUE /\ next' = next
    BY <1>5 DEF CtrSetStores
  <2> QED
    BY <1>1, <1>3, <2>1 DEF CtrTypeOK, WalkInv
<1>6. CASE CtrConstruct \/ CtrSpawnFails \/ CtrDestroys \/ CtrJoin
  <2>1. /\ next' = next /\ half' = half
        /\ \/ life = "none" /\ life' = "ctor"
           \/ life = "ctor" /\ life' = "joining"
           \/ life = "open" /\ life' = "interrupting"
           \/ life = "joining" /\ life' = "gone"
    BY <1>6 DEF CtrConstruct, CtrSpawnFails, CtrDestroys, CtrJoin
  <2>2. WalkInv'
    BY <2>1 DEF WalkInv
  <2> QED
    BY <1>1, <1>3, <2>1, <2>2 DEF CtrTypeOK
<1> QED
  BY <1>4, <1>5, <1>6

(* The steps of a worker around its loop keep the types. *)
LEMMA WorkerTypes ==
  ASSUME CtrTypeInv, NEW w \in Workers, CtrSpawn(w) \/ CtrLoop(w) \/ CtrExit(w)
  PROVE  CtrTypeInv'
<1>1. UNCHANGED <<next, half, off, stack, local, main, interrupted, tried, done, aborted, terminated>>
  BY DEF CtrSpawn, CtrLoop, CtrExit, ctrQueues, ctrFlags, ctrTasks, ctrDestroy
<1>2. /\ work \in [Workers -> {"none", "alive", "leaving", "exited"}]
      /\ seek \in [Threads -> {"none", "local", "main", "steal"}]
      /\ flagLive \in [Workers -> BOOLEAN]
  BY DEF CtrTypeInv, CtrTypeOK
<1>3. /\ work' \in [Workers -> {"none", "alive", "leaving", "exited"}]
      /\ flagLive' \in [Workers -> BOOLEAN]
  BY <1>2 DEF CtrSpawn, CtrLoop, CtrExit, ctrFlags
<1>4. seek' \in [Threads -> {"none", "local", "main", "steal"}]
  BY <1>2 DEF CtrSpawn, CtrLoop, CtrExit, Seeks
<1>5. life' \in {"none", "ctor", "open", "interrupting", "joining", "gone"} /\ WalkInv'
  BY <1>1 DEF CtrTypeInv, CtrTypeOK, WalkInv, CtrSpawn, CtrLoop, CtrExit, ctrDestroy
<1> QED
  BY <1>1, <1>3, <1>4, <1>5 DEF CtrTypeInv, CtrTypeOK

(* A step that moves tasks: it is enough that the lists keep their types.  *)
LEMMA TaskTypes ==
  ASSUME CtrTypeInv, UNCHANGED <<life, next, half, interrupted, flagLive>>,
         work' \in [Workers -> {"none", "alive", "leaving", "exited"}],
         seek' \in [Threads -> {"none", "local", "main", "steal"}],
         off' \in [Threads -> 0 .. N - 1],
         stack' \in [Threads -> Seq(Tasks)], local' \in [Workers -> Seq(Tasks)],
         main' \in Seq(Tasks), tried' \subseteq Tasks, done' \subseteq Tasks,
         aborted' \subseteq Tasks, terminated' \in BOOLEAN
  PROVE  CtrTypeInv'
  BY DEF CtrTypeInv, CtrTypeOK, WalkInv

(* What looking for a task can do with the tasks: nothing, or bring the    *)
(* first of a worker's queue or of the main queue to the thread's stack.   *)
TakesNone == UNCHANGED <<stack, local, main>>

TakesLocal(t, v) ==
  /\ local[v] # << >> /\ Runs(t, Head(local[v]))
  /\ local' = [local EXCEPT ![v] = PopFront(local[v])] /\ UNCHANGED main

TakesMain(t) ==
  /\ main # << >> /\ Runs(t, Head(main))
  /\ main' = Tail(main) /\ UNCHANGED local

Seeking(t) == FromLocalTasks(t) \/ FromMainTasks(t) \/ StealFromOtherTasks(t) \/ CtrTryExecutingOne(t)

(* What the search for a task changes. *)
LEMMA SeekMoves ==
  ASSUME CtrTypeInv, NEW t \in Threads, Seeking(t)
  PROVE  /\ UNCHANGED <<ctrDestroy, work, ctrFlags, ctrTasks, terminated>>
         /\ TakesNone \/ TakesMain(t) \/ \E v \in Workers : TakesLocal(t, v)
<1>1. UNCHANGED <<ctrDestroy, work, ctrFlags, ctrTasks, terminated>>
  BY DEF Seeking, FromLocalTasks, FromMainTasks, StealFromOtherTasks, CtrTryExecutingOne
<1>2. CASE FromLocalTasks(t)
  <2>1. CASE UNCHANGED <<stack, local>>
    BY <1>2, <2>1 DEF FromLocalTasks, TakesNone
  <2>2. CASE t # Owner /\ local[t] # << >> /\ Runs(t, Head(local[t]))
             /\ local' = [local EXCEPT ![t] = PopFront(@)]
    <3>1. t \in Workers
      BY <2>2 DEF Threads
    <3> QED
      BY <1>2, <2>2, <3>1 DEF FromLocalTasks, TakesLocal
  <2> QED
    BY <1>2, <2>1, <2>2 DEF FromLocalTasks
<1>3. CASE FromMainTasks(t)
  BY <1>3 DEF FromMainTasks, TakesNone, TakesMain
<1>4. CASE StealFromOtherTasks(t)
  <2>1. PICK v : v = (Idx(t) + off[t] + 1) % N
    OBVIOUS
  <2>2. v \in Workers
    BY <2>1, VictimIsWorker DEF CtrTypeInv
  <2>3. CASE UNCHANGED <<stack, local>>
    BY <1>4, <2>3 DEF StealFromOtherTasks, TakesNone
  <2>4. CASE local[v] # << >> /\ Runs(t, Head(local[v])) /\ local' = [local EXCEPT ![v] = PopFront(@)]
    BY <1>4, <2>2, <2>4 DEF StealFromOtherTasks, TakesLocal
  <2> QED
    BY <1>4, <2>1, <2>3, <2>4 DEF StealFromOtherTasks
<1>5. CASE CtrTryExecutingOne(t)
  BY <1>5 DEF CtrTryExecutingOne, TakesNone, ctrQueues
<1> QED
  BY <1>1, <1>2, <1>3, <1>4, <1>5 DEF Seeking

(* The search for a task keeps the types. *)
LEMMA SeekTypes ==
  ASSUME CtrTypeInv, NEW t \in Threads, Seeking(t)
  PROVE  CtrTypeInv'
<1>1. /\ UNCHANGED <<life, next, half, interrupted, flagLive, work, tried, done, aborted, terminated>>
      /\ TakesNone \/ TakesMain(t) \/ \E v \in Workers : TakesLocal(t, v)
  BY SeekMoves DEF ctrDestroy, ctrFlags, ctrTasks
<1>2. /\ seek \in [Threads -> {"none", "local", "main", "steal"}]
      /\ off \in [Threads -> 0 .. N - 1] /\ stack \in [Threads -> Seq(Tasks)]
      /\ local \in [Workers -> Seq(Tasks)] /\ main \in Seq(Tasks)
  BY DEF CtrTypeInv, CtrTypeOK
<1>3. seek' \in [Threads -> {"none", "local", "main", "steal"}]
  BY <1>2 DEF Seeking, FromLocalTasks, FromMainTasks, StealFromOtherTasks, CtrTryExecutingOne, Seeks
<1>4. off' \in [Threads -> 0 .. N - 1]
  <2>1. (off[t] + 1) % N \in 0 .. N - 1 /\ 0 \in 0 .. N - 1
    BY VictimIsWorker, NAssumption DEF CtrTypeInv, NAssumption
  <2>2. \/ UNCHANGED off \/ off' = [off EXCEPT ![t] = 0] \/ off' = [off EXCEPT ![t] = (off[t] + 1) % N]
    BY DEF Seeking, FromLocalTasks, FromMainTasks, StealFromOtherTasks, CtrTryExecutingOne
  <2> QED
    BY <1>2, <2>1, <2>2
<1>5. stack' \in [Threads -> Seq(Tasks)] /\ local' \in [Workers -> Seq(Tasks)] /\ main' \in Seq(Tasks)
  <2>1. CASE TakesNone
    BY <1>2, <2>1 DEF TakesNone
  <2>2. CASE TakesMain(t)
    <3>1. main # << >> /\ stack' = [stack EXCEPT ![t] = Append(stack[t], Head(main))]
          /\ main' = Tail(main) /\ local' = local
      BY <2>2 DEF TakesMain, Runs
    <3>2. Head(main) \in Tasks /\ Tail(main) \in Seq(Tasks)
      BY <1>2, <3>1, ListTypes
    <3>3. Append(stack[t], Head(main)) \in Seq(Tasks)
      BY <1>2, <3>2, ListTypes
    <3> QED
      BY <1>2, <3>1, <3>2, <3>3
  <2>3. ASSUME NEW v \in Workers, TakesLocal(t, v)
        PROVE  /\ stack' \in [Threads -> Seq(Tasks)] /\ local' \in [Workers -> Seq(Tasks)]
               /\ main' \in Seq(Tasks)
    <3>1. local[v] # << >> /\ stack' = [stack EXCEPT ![t] = Append(stack[t], Head(local[v]))]
          /\ local' = [local EXCEPT ![v] = PopFront(local[v])] /\ main' = main
      BY <2>3 DEF TakesLocal, Runs
    <3>2. Head(local[v]) \in Tasks /\ PopFront(local[v]) \in Seq(Tasks)
      BY <1>2, <3>1, ListTypes
    <3>3. Append(stack[t], Head(local[v])) \in Seq(Tasks)
      BY <1>2, <3>2, ListTypes
    <3> QED
      BY <1>2, <3>1, <3>2, <3>3
  <2> QED
    BY <1>1, <2>1, <2>2, <2>3
<1> QED
  BY <1>1, <1>3, <1>4, <1>5, TaskTypes DEF CtrTypeInv, CtrTypeOK

(* A submission keeps the types. *)
LEMMA SubmitTypes ==
  ASSUME CtrTypeInv, NEW t \in Threads, NEW k \in Tasks, CtrSubmit(t, k)
  PROVE  CtrTypeInv'
<1>1. /\ UNCHANGED <<life, next, half, interrupted, flagLive, work, seek, off, stack, done, aborted,
                     terminated>>
      /\ tried' = tried \cup {k}
  BY DEF CtrSubmit, ctrDestroy, ctrFlags
<1>2. local \in [Workers -> Seq(Tasks)] /\ main \in Seq(Tasks)
  BY DEF CtrTypeInv, CtrTypeOK
<1>3. local' \in [Workers -> Seq(Tasks)] /\ main' \in Seq(Tasks)
  <2>1. CASE t = Owner
    BY <1>2, <2>1, ListTypes DEF CtrSubmit
  <2>2. CASE t # Owner
    <3>1. t \in Workers /\ local' = [local EXCEPT ![t] = PushFront(local[t], k)] /\ main' = main
      BY <2>2 DEF CtrSubmit, Threads
    <3>2. PushFront(local[t], k) \in Seq(Tasks)
      BY <1>2, <3>1, ListTypes
    <3> QED
      BY <1>2, <3>1, <3>2
  <2> QED
    BY <2>1, <2>2
<1> QED
  BY <1>1, <1>3, TaskTypes DEF CtrTypeInv, CtrTypeOK

(* Thread t keeps the first m tasks of its stack. *)
Dropped(t, m) == {stack[t][i] : i \in m + 1 .. Len(stack[t])}

Drops(t, m) ==
  /\ m \in 0 .. Len(stack[t]) - 1
  /\ stack' = [stack EXCEPT ![t] = SubSeq(stack[t], 1, m)]
  /\ UNCHANGED <<local, main, tried>>
  /\ \/ done' = done \cup Dropped(t, m) /\ UNCHANGED aborted
     \/ aborted' = aborted \cup Dropped(t, m) /\ UNCHANGED done

Ending(t) == CtrTaskDone(t) \/ CtrTaskThrows(t) \/ (t \in Workers /\ CtrTaskInterrupted(t))

(* What the end of a task changes. *)
LEMMA EndMoves ==
  ASSUME CtrTypeInv, NEW t \in Threads, Ending(t)
  PROVE  /\ \E m \in Nat : Drops(t, m)
         /\ UNCHANGED <<life, next, half, interrupted, flagLive, seek, off>>
         /\ work' \in [Workers -> {"none", "alive", "leaving", "exited"}] /\ terminated' \in BOOLEAN
<1>1. work \in [Workers -> {"none", "alive", "leaving", "exited"}] /\ terminated \in BOOLEAN
      /\ stack[t] \in Seq(Tasks)
  BY DEF CtrTypeInv, CtrTypeOK
<1>2. CASE CtrTaskDone(t)
  <2>1. PICK n : n = Len(stack[t])
    OBVIOUS
  <2>2. n \in Nat /\ n > 0
    BY <1>1, <1>2, <2>1, LenProperties DEF CtrTaskDone
  <2>3. Dropped(t, n - 1) = {stack[t][n]}
    BY <2>1, <2>2 DEF Dropped
  <2>4. Drops(t, n - 1) /\ n - 1 \in Nat
    BY <1>2, <2>1, <2>2, <2>3 DEF CtrTaskDone, Drops, ctrQueues
  <2> QED
    BY <1>1, <1>2, <2>4 DEF CtrTaskDone, ctrDestroy, ctrFlags
<1>3. ASSUME NEW m \in 0 .. Cardinality(Tasks), Unwinds(t, m)
      PROVE  (\E n \in Nat : Drops(t, n)) /\ UNCHANGED <<life, next, half, interrupted, flagLive, seek, off>>
  <2>1. Len(stack[t]) \in Nat /\ m \in 0 .. Len(stack[t]) - 1
    BY <1>1, <1>3, LenProperties DEF Unwinds
  <2>2. m \in Nat
    BY <2>1
  <2>3. Drops(t, m)
    BY <1>3, <2>1 DEF Unwinds, Drops, Dropped, ctrQueues
  <2> QED
    BY <1>3, <2>2, <2>3 DEF Unwinds, ctrDestroy, ctrFlags
<1>4. CASE CtrTaskThrows(t)
  BY <1>1, <1>3, <1>4 DEF CtrTaskThrows
<1>5. CASE t \in Workers /\ CtrTaskInterrupted(t)
  BY <1>1, <1>3, <1>5 DEF CtrTaskInterrupted
<1> QED
  BY <1>2, <1>4, <1>5 DEF Ending

(* The end of a task keeps the types. *)
LEMMA EndTypes ==
  ASSUME CtrTypeInv, NEW t \in Threads, Ending(t)
  PROVE  CtrTypeInv'
<1>1. PICK m \in Nat : Drops(t, m)
  BY EndMoves
<1>2. /\ stack \in [Threads -> Seq(Tasks)] /\ local \in [Workers -> Seq(Tasks)]
      /\ main \in Seq(Tasks) /\ tried \subseteq Tasks /\ done \subseteq Tasks /\ aborted \subseteq Tasks
  BY DEF CtrTypeInv, CtrTypeOK
<1>3. stack[t] \in Seq(Tasks) /\ m \in 0 .. Len(stack[t]) /\ Len(stack[t]) \in Nat
  BY <1>1, <1>2, LenProperties DEF Drops
<1>4. stack' \in [Threads -> Seq(Tasks)]
  <2>1. SubSeq(stack[t], 1, m) \in Seq(Tasks)
    BY <1>3, ListTypes
  <2> QED
    BY <1>1, <1>2, <2>1 DEF Drops
<1>5. Dropped(t, m) \subseteq Tasks
  <2> SUFFICES ASSUME NEW i \in m + 1 .. Len(stack[t])
               PROVE  stack[t][i] \in Tasks
    BY DEF Dropped
  <2>1. i \in 1 .. Len(stack[t])
    BY <1>3
  <2> QED
    BY <1>3, <2>1, ElementOfSeq
<1>6. tried' \subseteq Tasks /\ done' \subseteq Tasks /\ aborted' \subseteq Tasks
      /\ local' \in [Workers -> Seq(Tasks)] /\ main' \in Seq(Tasks)
  BY <1>1, <1>2, <1>5 DEF Drops
<1> QED
  BY <1>4, <1>6, EndMoves, TaskTypes DEF CtrTypeInv, CtrTypeOK

(* Every step of the pool keeps its types. *)
LEMMA CtrStepTypes == CtrTypeInv /\ [CtrNext]_ctrVars => CtrTypeInv'
<1> SUFFICES ASSUME CtrTypeInv, [CtrNext]_ctrVars
             PROVE  CtrTypeInv'
  OBVIOUS
<1>1. CASE UNCHANGED ctrVars
  BY <1>1 DEF ctrVars, ctrDestroy, ctrQueues, ctrFlags, ctrTasks, CtrTypeInv, CtrTypeOK, WalkInv
<1>2. ASSUME NEW t \in Threads, CtrProgress(t)
      PROVE  CtrTypeInv'
  BY <1>2, LifeTypes, WorkerTypes, SeekTypes DEF CtrProgress, Seeking
<1>3. ASSUME NEW t \in Threads, CtrUser(t) \/ CtrTaskDone(t)
      PROVE  CtrTypeInv'
  BY <1>3, LifeTypes, SeekTypes, SubmitTypes, EndTypes DEF CtrUser, Seeking, Ending
<1> QED
  BY <1>1, <1>2, <1>3 DEF CtrNext

(* Every variable of the pool keeps its type, the victim of a thief and    *)
(* the worker being interrupted included.                                  *)
THEOREM CtrTypeCorrect == CtrSpec => []CtrTypeOK
<1>1. CtrTypeInv => CtrTypeOK
  BY DEF CtrTypeInv
<1> QED
  BY <1>1, CtrInitTypes, CtrStepTypes, PTL DEF CtrSpec

-----------------------------------------------------------------------------
(* Every task once.  The lists first: how often task k is in list s, and   *)
(* what putting a task in, taking one out and dropping the end do to that. *)
None(s, k) == \A i \in DOMAIN s : s[i] # k
One(s, k) == \E i \in DOMAIN s : \A j \in DOMAIN s : s[j] = k <=> j = i

Same(s, u, k) == (None(s, k) => None(u, k)) /\ (One(s, k) => One(u, k))

(* u is s with x put in, s with x taken out, and s without its end.        *)
Puts(s, u, x) == \A k : IF k = x THEN None(s, k) => One(u, k) ELSE Same(s, u, k)
Takes(s, u, x) ==
  ~None(s, x) /\ \A k : IF k = x THEN One(s, k) => None(u, k) ELSE Same(s, u, k)

(* A task put in front of a list has one place more, the first. *)
LEMMA PutsFront ==
  ASSUME NEW s \in Seq(Tasks), NEW x \in Tasks
  PROVE  Puts(s, PushFront(s, x), x)
<1> DEFINE u == PushFront(s, x)
<1>1. <<x>> \in Seq(Tasks) /\ Len(<<x>>) = 1 /\ <<x>>[1] = x
  OBVIOUS
<1>2. /\ Len(s) \in Nat /\ DOMAIN s = 1 .. Len(s) /\ u \in Seq(Tasks)
      /\ DOMAIN u = 1 .. Len(s) + 1
      /\ \A i \in 1 .. Len(s) + 1 : u[i] = IF i <= 1 THEN <<x>>[i] ELSE s[i - 1]
  BY <1>1, ConcatProperties, LenProperties DEF PushFront
<1>3. u[1] = x /\ \A i \in 1 .. Len(s) : i + 1 \in DOMAIN u /\ u[i + 1] = s[i]
  BY <1>1, <1>2
<1>4. \A j \in DOMAIN u : j = 1 \/ (j - 1 \in 1 .. Len(s) /\ u[j] = s[j - 1])
  BY <1>2
<1> HIDE DEF u
<1>5. ASSUME None(s, x)
      PROVE  One(u, x)
  <2>1. 1 \in DOMAIN u /\ \A j \in DOMAIN u : u[j] = x <=> j = 1
    BY <1>2, <1>3, <1>4, <1>5 DEF None
  <2> QED
    BY <2>1 DEF One
<1>6. ASSUME NEW k, k # x
      PROVE  Same(s, u, k)
  <2>1. None(s, k) => None(u, k)
    BY <1>2, <1>3, <1>4, <1>6 DEF None
  <2>2. ASSUME One(s, k)
        PROVE  One(u, k)
    <3>1. PICK i \in DOMAIN s : \A j \in DOMAIN s : s[j] = k <=> j = i
      BY <2>2 DEF One
    <3>2. i \in 1 .. Len(s) /\ i + 1 \in DOMAIN u
      BY <1>2, <1>3, <3>1
    <3>3. ASSUME NEW j \in DOMAIN u
          PROVE  u[j] = k <=> j = i + 1
      <4>1. CASE j = 1
        BY <1>3, <1>6, <3>2, <4>1
      <4>2. CASE j - 1 \in 1 .. Len(s) /\ u[j] = s[j - 1]
        <5>1. j \in Int /\ j - 1 \in DOMAIN s
          BY <1>2, <4>2
        <5>2. u[j] = k <=> j - 1 = i
          BY <3>1, <4>2, <5>1
        <5> QED
          BY <3>2, <5>1, <5>2
      <4> QED
        BY <1>4, <4>1, <4>2
    <3> QED
      BY <3>2, <3>3 DEF One
  <2> QED
    BY <2>1, <2>2 DEF Same
<1> QED
  BY <1>5, <1>6 DEF Puts, u

(* A task put at the end of a list has one place more, the last. *)
LEMMA PutsBack ==
  ASSUME NEW s \in Seq(Tasks), NEW x \in Tasks
  PROVE  Puts(s, Append(s, x), x)
<1> DEFINE u == Append(s, x)
<1>1. /\ Len(s) \in Nat /\ DOMAIN s = 1 .. Len(s) /\ u \in Seq(Tasks)
      /\ DOMAIN u = 1 .. Len(s) + 1 /\ u[Len(s) + 1] = x
      /\ \A i \in 1 .. Len(s) : u[i] = s[i]
  BY AppendProperties, LenProperties
<1> HIDE DEF u
<1>2. None(s, x) => One(u, x)
  BY <1>1 DEF None, One
<1>3. ASSUME NEW k, k # x
      PROVE  Same(s, u, k)
  BY <1>1, <1>3 DEF Same, None, One
<1> QED
  BY <1>2, <1>3 DEF Puts, u

(* A task taken from the front of a list loses the place it had there. *)
LEMMA TakesFront ==
  ASSUME NEW s \in Seq(Tasks), s # << >>
  PROVE  Takes(s, Tail(s), Head(s))
<1> DEFINE u == Tail(s)
<1> DEFINE x == Head(s)
<1>1. /\ Len(s) \in Nat \ {0} /\ DOMAIN s = 1 .. Len(s) /\ u \in Seq(Tasks)
      /\ DOMAIN u = 1 .. Len(s) - 1 /\ x = s[1]
      /\ \A i \in 1 .. Len(s) - 1 : u[i] = s[i + 1]
  BY HeadTailProperties, LenProperties, EmptySeq
<1> HIDE DEF u, x
<1>2. ~None(s, x)
  BY <1>1 DEF None
<1>3. One(s, x) => None(u, x)
  BY <1>1 DEF None, One
<1>4. ASSUME NEW k, k # x
      PROVE  Same(s, u, k)
  <2>1. None(s, k) => None(u, k)
    BY <1>1 DEF None
  <2>2. ASSUME One(s, k)
        PROVE  One(u, k)
    <3>1. PICK i \in DOMAIN s : \A j \in DOMAIN s : s[j] = k <=> j = i
      BY <2>2 DEF One
    <3>2. i # 1
      BY <1>1, <1>4, <3>1
    <3>3. i \in 1 .. Len(s) /\ i - 1 \in DOMAIN u
      BY <1>1, <3>1, <3>2
    <3>4. ASSUME NEW j \in DOMAIN u
          PROVE  u[j] = k <=> j = i - 1
      <4>1. j \in Int /\ j + 1 \in DOMAIN s /\ u[j] = s[j + 1]
        BY <1>1
      <4>2. u[j] = k <=> j + 1 = i
        BY <3>1, <4>1
      <4> QED
        BY <3>3, <4>1, <4>2
    <3> QED
      BY <3>3, <3>4 DEF One
  <2> QED
    BY <2>1, <2>2 DEF Same
<1> QED
  BY <1>2, <1>3, <1>4 DEF Takes, u, x

(* A task dropped from the end of a list loses the place it had there. *)
LEMMA DropsEnd ==
  ASSUME NEW s \in Seq(Tasks), NEW m \in 0 .. Len(s), NEW k
  PROVE  LET u == SubSeq(s, 1, m)
             d == {s[i] : i \in m + 1 .. Len(s)}
         IN /\ None(s, k) => None(u, k) /\ k \notin d
            /\ One(s, k) => IF k \in d THEN None(u, k) ELSE One(u, k)
<1> DEFINE u == SubSeq(s, 1, m)
<1> DEFINE d == {s[i] : i \in m + 1 .. Len(s)}
<1>1. /\ Len(s) \in Nat /\ DOMAIN s = 1 .. Len(s) /\ m \in Nat /\ m <= Len(s)
      /\ \A i \in 1 .. m : s[i] \in Tasks
  BY LenProperties, ElementOfSeq
<1>2. DOMAIN u = 1 .. m /\ \A i \in 1 .. m : u[i] = s[i]
  BY <1>1, SubSeqProperties, LenProperties
<1>3. k \in d <=> \E i \in m + 1 .. Len(s) : s[i] = k
  OBVIOUS
<1> HIDE DEF u, d
<1>4. None(s, k) => None(u, k) /\ k \notin d
  BY <1>1, <1>2, <1>3 DEF None
<1>5. ASSUME One(s, k)
      PROVE  IF k \in d THEN None(u, k) ELSE One(u, k)
  <2>1. PICK i \in DOMAIN s : \A j \in DOMAIN s : s[j] = k <=> j = i
    BY <1>5 DEF One
  <2>2. k \in d <=> i > m
    BY <1>1, <1>3, <2>1
  <2>3. CASE i > m
    BY <1>1, <1>2, <2>1, <2>2, <2>3 DEF None
  <2>4. CASE i <= m
    <3>1. i \in DOMAIN u /\ \A j \in DOMAIN u : u[j] = k <=> j = i
      BY <1>1, <1>2, <2>1, <2>4
    <3> QED
      BY <1>1, <2>2, <2>4, <3>1 DEF One
  <2> QED
    BY <1>1, <2>3, <2>4
<1> QED
  BY <1>4, <1>5 DEF u, d

(* Where a submitted task is; a task that was not submitted is nowhere.    *)
Lone(k) ==
  \/ /\ k \notin done \cup aborted
     /\ \E q \in Lists : One(TasksAt(q), k) /\ \A r \in Lists \ {q} : None(TasksAt(r), k)
  \/ /\ \A q \in Lists : None(TasksAt(q), k)
     /\ (k \in done /\ k \notin aborted) \/ (k \in aborted /\ k \notin done)

Absent(k) == k \notin done \cup aborted /\ \A q \in Lists : None(TasksAt(q), k)

CtrOnceInv == \A k \in Tasks : IF k \in tried THEN Lone(k) ELSE Absent(k)

(* A task is in one place when it is there once and nowhere else. *)
LEMMA LoneHasPlace ==
  ASSUME NEW k, Lone(k)
  PROVE  \E p \in CtrPlaces(k) : CtrPlaces(k) = {p}
<1> DEFINE listed == UNION {{q} \X PlacesIn(TasksAt(q), k) : q \in Lists}
<1> DEFINE finished == {p \in {<<<<"done", 0>>, 0>>} : k \in done}
<1> DEFINE left == {p \in {<<<<"aborted", 0>>, 0>>} : k \in aborted}
<1>0. CtrPlaces(k) = listed \cup finished \cup left
  BY DEF CtrPlaces
<1>1. ASSUME NEW q \in Lists, None(TasksAt(q), k)
      PROVE  PlacesIn(TasksAt(q), k) = {}
  BY <1>1 DEF None, PlacesIn
<1>2. CASE /\ k \notin done \cup aborted
           /\ \E q \in Lists : One(TasksAt(q), k) /\ \A r \in Lists \ {q} : None(TasksAt(r), k)
  <2>1. PICK q \in Lists : One(TasksAt(q), k) /\ \A r \in Lists \ {q} : None(TasksAt(r), k)
    BY <1>2
  <2>2. PICK i : PlacesIn(TasksAt(q), k) = {i}
    BY <2>1 DEF One, PlacesIn
  <2>3. finished = {} /\ left = {}
    BY <1>2
  <2>4. listed = {q} \X {i}
    BY <1>1, <2>1, <2>2
  <2>5. CtrPlaces(k) = {<<q, i>>}
    BY <1>0, <2>3, <2>4
  <2> QED
    BY <2>5
<1>3. CASE /\ \A q \in Lists : None(TasksAt(q), k)
           /\ (k \in done /\ k \notin aborted) \/ (k \in aborted /\ k \notin done)
  <2>1. listed = {}
    BY <1>1, <1>3
  <2>2. CASE k \in done /\ k \notin aborted
    <3>1. finished = {<<<<"done", 0>>, 0>>} /\ left = {}
      BY <2>2
    <3> HIDE DEF listed, finished, left
    <3>2. CtrPlaces(k) = {<<<<"done", 0>>, 0>>}
      BY <1>0, <2>1, <3>1
    <3> QED
      BY <3>2
  <2>3. CASE k \in aborted /\ k \notin done
    <3>1. left = {<<<<"aborted", 0>>, 0>>} /\ finished = {}
      BY <2>3
    <3> HIDE DEF listed, finished, left
    <3>2. CtrPlaces(k) = {<<<<"aborted", 0>>, 0>>}
      BY <1>0, <2>1, <3>1
    <3> QED
      BY <3>2
  <2> QED
    BY <1>3, <2>2, <2>3
<1> QED
  BY <1>2, <1>3 DEF Lone

(* A step that is not about task k leaves it where it is. *)
LEMMA StaysLone ==
  ASSUME NEW k, \A q \in Lists : Same(TasksAt(q), TasksAt(q)', k),
         k \in done' <=> k \in done, k \in aborted' <=> k \in aborted
  PROVE  (Lone(k) => Lone(k)') /\ (Absent(k) => Absent(k)')
  BY DEF Lone, Absent, Same, Lists

(* A step that leaves the lists alone leaves every task where it is. *)
LEMMA NoTaskMoves ==
  ASSUME CtrOnceInv, UNCHANGED <<stack, local, main, tried, done, aborted>>
  PROVE  CtrOnceInv'
<1>1. \A q : TasksAt(q)' = TasksAt(q)
  BY DEF TasksAt
<1>2. \A k : \A q \in Lists : Same(TasksAt(q), TasksAt(q)', k)
  BY <1>1 DEF Same
<1>3. ASSUME NEW k \in Tasks
      PROVE  (Lone(k) => Lone(k)') /\ (Absent(k) => Absent(k)')
  BY <1>2, StaysLone
<1> QED
  BY <1>3 DEF CtrOnceInv

(* Task x comes to list r. *)
LEMMA TaskComes ==
  ASSUME CtrOnceInv, NEW x \in Tasks \ tried, NEW r \in Lists,
         Puts(TasksAt(r), TasksAt(r)', x),
         \A p \in Lists \ {r} : TasksAt(p)' = TasksAt(p),
         tried' = tried \cup {x}, UNCHANGED <<done, aborted>>
  PROVE  CtrOnceInv'
<1>1. ASSUME NEW k \in Tasks \ {x}
      PROVE  (Lone(k) => Lone(k)') /\ (Absent(k) => Absent(k)')
  <2>1. \A q \in Lists : Same(TasksAt(q), TasksAt(q)', k)
    BY DEF Puts, Same
  <2> QED
    BY <2>1, StaysLone
<1>2. Lone(x)'
  BY DEF CtrOnceInv, Absent, Lone, Puts, Lists
<1> QED
  BY <1>1, <1>2 DEF CtrOnceInv

(* Task x leaves list q for list r. *)
LEMMA TaskMoves ==
  ASSUME CtrOnceInv, NEW x \in Tasks, NEW q \in Lists, NEW r \in Lists, q # r,
         Takes(TasksAt(q), TasksAt(q)', x), Puts(TasksAt(r), TasksAt(r)', x),
         \A p \in Lists \ {q, r} : TasksAt(p)' = TasksAt(p),
         UNCHANGED <<tried, done, aborted>>
  PROVE  CtrOnceInv'
<1>1. ASSUME NEW k \in Tasks \ {x}
      PROVE  (Lone(k) => Lone(k)') /\ (Absent(k) => Absent(k)')
  <2>1. \A p \in Lists : Same(TasksAt(p), TasksAt(p)', k)
    BY DEF Puts, Takes, Same
  <2> QED
    BY <2>1, StaysLone
<1>2. x \in tried /\ Lone(x)
  BY DEF CtrOnceInv, Absent, Takes
<1>3. /\ One(TasksAt(q), x) /\ x \notin done \cup aborted
      /\ \A p \in Lists \ {q} : None(TasksAt(p), x)
  BY <1>2 DEF Lone, Takes
<1>4. One(TasksAt(r)', x) /\ None(TasksAt(q)', x)
  BY <1>3 DEF Puts, Takes
<1>5. \A p \in Lists \ {r} : None(TasksAt(p)', x)
  BY <1>3, <1>4
<1>6. Lone(x)'
  BY <1>3, <1>4, <1>5 DEF Lone, Lists
<1> QED
  BY <1>1, <1>2, <1>6 DEF CtrOnceInv

(* Whose list is what; local and stack may be indexed by the same thread.  *)
LEMMA ListNames ==
  /\ \A t : TasksAt(<<"stack", t>>) = stack[t] /\ TasksAt(<<"local", t>>) = local[t]
  /\ TasksAt(<<"main", 0>>) = main
  /\ \A t \in Threads : <<"stack", t>> \in Lists
  /\ \A v \in Workers : <<"local", v>> \in Lists
  /\ <<"main", 0>> \in Lists
  /\ \A q \in Lists : \/ \E t \in Threads : q = <<"stack", t>>
                      \/ \E v \in Workers : q = <<"local", v>>
                      \/ q = <<"main", 0>>
  BY DEF TasksAt, Lists

(* The search moves a task from one queue to the stack of the thread. *)
LEMMA SeekOnce ==
  ASSUME CtrTypeInv, CtrOnceInv, NEW t \in Threads, Seeking(t)
  PROVE  CtrOnceInv'
<1>1. /\ UNCHANGED <<tried, done, aborted>>
      /\ TakesNone \/ TakesMain(t) \/ \E v \in Workers : TakesLocal(t, v)
  BY SeekMoves DEF ctrTasks
<1>2. /\ stack \in [Threads -> Seq(Tasks)] /\ local \in [Workers -> Seq(Tasks)]
      /\ main \in Seq(Tasks)
  BY DEF CtrTypeInv, CtrTypeOK
<1>3. CASE TakesNone
  BY <1>1, <1>3, NoTaskMoves DEF TakesNone
<1>4. CASE TakesMain(t)
  <2>1. PICK x : x = Head(main)
    OBVIOUS
  <2>2. main # << >> /\ stack' = [stack EXCEPT ![t] = Append(stack[t], x)]
        /\ main' = Tail(main) /\ local' = local
    BY <1>4, <2>1 DEF TakesMain, Runs
  <2>3. x \in Tasks /\ Takes(main, main', x)
    BY <1>2, <2>1, <2>2, HeadTailProperties, TakesFront
  <2>4. stack'[t] = Append(stack[t], x) /\ \A s \in Threads \ {t} : stack'[s] = stack[s]
    BY <1>2, <2>2
  <2>5. Puts(stack[t], stack'[t], x)
    BY <1>2, <2>3, <2>4, PutsBack
  <2>6. /\ TasksAt(<<"main", 0>>)' = main' /\ TasksAt(<<"stack", t>>)' = stack'[t]
        /\ \A p \in Lists \ {<<"main", 0>>, <<"stack", t>>} : TasksAt(p)' = TasksAt(p)
    BY <2>2, <2>4 DEF TasksAt, Lists
  <2> QED
    BY <1>1, <2>3, <2>5, <2>6, ListNames, TaskMoves
<1>5. ASSUME NEW v \in Workers, TakesLocal(t, v)
      PROVE  CtrOnceInv'
  <2>1. PICK x : x = Head(local[v])
    OBVIOUS
  <2>2. local[v] # << >> /\ stack' = [stack EXCEPT ![t] = Append(stack[t], x)]
        /\ local' = [local EXCEPT ![v] = Tail(local[v])] /\ main' = main
    BY <1>5, <2>1 DEF TakesLocal, Runs, PopFront
  <2>3. /\ local'[v] = Tail(local[v]) /\ \A w \in Workers \ {v} : local'[w] = local[w]
        /\ stack'[t] = Append(stack[t], x) /\ \A s \in Threads \ {t} : stack'[s] = stack[s]
    BY <1>2, <2>2
  <2>4. x \in Tasks /\ Takes(local[v], local'[v], x)
    BY <1>2, <2>1, <2>2, <2>3, HeadTailProperties, TakesFront
  <2>5. Puts(stack[t], stack'[t], x)
    BY <1>2, <2>3, <2>4, PutsBack
  <2>6. /\ TasksAt(<<"local", v>>)' = local'[v] /\ TasksAt(<<"stack", t>>)' = stack'[t]
        /\ \A p \in Lists \ {<<"local", v>>, <<"stack", t>>} : TasksAt(p)' = TasksAt(p)
    BY <2>2, <2>3 DEF TasksAt, Lists
  <2> QED
    BY <1>1, <2>4, <2>5, <2>6, ListNames, TaskMoves
<1> QED
  BY <1>1, <1>3, <1>4, <1>5

(* A submission puts a new task into one queue. *)
LEMMA SubmitOnce ==
  ASSUME CtrTypeInv, CtrOnceInv, NEW t \in Threads, NEW x \in Tasks, CtrSubmit(t, x)
  PROVE  CtrOnceInv'
<1>1. x \notin tried /\ tried' = tried \cup {x} /\ UNCHANGED <<stack, done, aborted>>
  BY DEF CtrSubmit
<1>2. local \in [Workers -> Seq(Tasks)] /\ main \in Seq(Tasks)
  BY DEF CtrTypeInv, CtrTypeOK
<1>3. CASE t = Owner
  <2>1. main' = Append(main, x) /\ local' = local
    BY <1>3 DEF CtrSubmit
  <2>2. Puts(main, main', x)
    BY <1>2, <2>1, PutsBack
  <2>3. /\ TasksAt(<<"main", 0>>)' = main'
        /\ \A p \in Lists \ {<<"main", 0>>} : TasksAt(p)' = TasksAt(p)
    BY <1>1, <2>1 DEF TasksAt, Lists
  <2> QED
    BY <1>1, <2>2, <2>3, ListNames, TaskComes
<1>4. CASE t # Owner
  <2>1. t \in Workers /\ local' = [local EXCEPT ![t] = PushFront(local[t], x)] /\ main' = main
    BY <1>4 DEF CtrSubmit, Threads
  <2>2. local'[t] = PushFront(local[t], x) /\ \A w \in Workers \ {t} : local'[w] = local[w]
    BY <1>2, <2>1
  <2>3. Puts(local[t], local'[t], x)
    BY <1>2, <2>1, <2>2, PutsFront
  <2>4. /\ TasksAt(<<"local", t>>)' = local'[t]
        /\ \A p \in Lists \ {<<"local", t>>} : TasksAt(p)' = TasksAt(p)
    BY <1>1, <2>1, <2>2 DEF TasksAt, Lists
  <2> QED
    BY <1>1, <2>1, <2>3, <2>4, ListNames, TaskComes
<1> QED
  BY <1>3, <1>4

(* Tasks that end leave the stack for one of the two ends. *)
LEMMA EndOnce ==
  ASSUME CtrTypeInv, CtrOnceInv, NEW t \in Threads, Ending(t)
  PROVE  CtrOnceInv'
<1>1. PICK m \in Nat : Drops(t, m)
  BY EndMoves
<1>2. stack \in [Threads -> Seq(Tasks)]
  BY DEF CtrTypeInv, CtrTypeOK
<1>3. stack[t] \in Seq(Tasks) /\ m \in 0 .. Len(stack[t])
  BY <1>1, <1>2, LenProperties DEF Drops
<1>4. stack'[t] = SubSeq(stack[t], 1, m) /\ \A s \in Threads \ {t} : stack'[s] = stack[s]
  BY <1>1, <1>2 DEF Drops
<1>5. <<"stack", t>> \in Lists /\ TasksAt(<<"stack", t>>) = stack[t]
      /\ TasksAt(<<"stack", t>>)' = stack'[t]
      /\ \A p \in Lists \ {<<"stack", t>>} : TasksAt(p)' = TasksAt(p)
  BY <1>1, <1>4 DEF TasksAt, Lists, Drops
<1>6. ASSUME NEW k \in Tasks
      PROVE  (Lone(k) => Lone(k)') /\ (Absent(k) => Absent(k)')
  <2>1. /\ None(stack[t], k) => None(stack'[t], k) /\ k \notin Dropped(t, m)
        /\ One(stack[t], k) => IF k \in Dropped(t, m) THEN None(stack'[t], k) ELSE One(stack'[t], k)
    BY <1>3, <1>4, DropsEnd DEF Dropped
  <2>2. CASE k \notin Dropped(t, m)
    <3>1. (k \in done' <=> k \in done) /\ (k \in aborted' <=> k \in aborted)
      BY <1>1, <2>2 DEF Drops
    <3>2. \A q \in Lists : Same(TasksAt(q), TasksAt(q)', k)
      BY <1>5, <2>1, <2>2 DEF Same
    <3> QED
      BY <3>1, <3>2, StaysLone
  <2>3. CASE k \in Dropped(t, m)
    <3>1. ~None(TasksAt(<<"stack", t>>), k)
      BY <1>5, <2>1, <2>3
    <3>2. ~Absent(k)
      BY <1>5, <3>1 DEF Absent
    <3>3. ASSUME Lone(k)
          PROVE  Lone(k)'
      <4>1. /\ One(TasksAt(<<"stack", t>>), k) /\ k \notin done \cup aborted
            /\ \A p \in Lists \ {<<"stack", t>>} : None(TasksAt(p), k)
        BY <1>5, <3>1, <3>3 DEF Lone
      <4>2. \A p \in Lists : None(TasksAt(p)', k)
        BY <1>5, <2>1, <2>3, <4>1
      <4>3. (k \in done' /\ k \notin aborted') \/ (k \in aborted' /\ k \notin done')
        BY <1>1, <2>3, <4>1 DEF Drops
      <4> QED
        BY <4>2, <4>3 DEF Lone, Lists
    <3> QED
      BY <3>2, <3>3
  <2> QED
    BY <2>2, <2>3
<1>7. tried' = tried
  BY <1>1 DEF Drops
<1> QED
  BY <1>6, <1>7 DEF CtrOnceInv

(* Every step keeps each task in one place. *)
LEMMA CtrStepOnce == CtrTypeInv /\ CtrOnceInv /\ [CtrNext]_ctrVars => CtrOnceInv'
<1> SUFFICES ASSUME CtrTypeInv, CtrOnceInv, [CtrNext]_ctrVars
             PROVE  CtrOnceInv'
  OBVIOUS
<1>1. CASE UNCHANGED ctrVars
  BY <1>1, NoTaskMoves DEF ctrVars, ctrQueues, ctrTasks
<1>2. CASE CtrConstruct \/ CtrSpawnFails \/ CtrDestroys \/ CtrSetStores \/ CtrSetNotifies \/ CtrJoin
  BY <1>2, NoTaskMoves
     DEF CtrConstruct, CtrSpawnFails, CtrDestroys, CtrSetStores, CtrSetNotifies, CtrJoin,
         ctrQueues, ctrTasks
<1>3. ASSUME NEW w \in Workers, CtrSpawn(w) \/ CtrLoop(w) \/ CtrExit(w)
      PROVE  CtrOnceInv'
  BY <1>3, NoTaskMoves DEF CtrSpawn, CtrLoop, CtrExit, ctrQueues, ctrTasks
<1>4. ASSUME NEW t \in Threads, CtrProgress(t)
      PROVE  CtrOnceInv'
  BY <1>2, <1>3, <1>4, SeekOnce DEF CtrProgress, Seeking
<1>5. ASSUME NEW t \in Threads, CtrUser(t) \/ CtrTaskDone(t)
      PROVE  CtrOnceInv'
  BY <1>2, <1>5, SeekOnce, SubmitOnce, EndOnce DEF CtrUser, Seeking, Ending
<1> QED
  BY <1>1, <1>4, <1>5 DEF CtrNext

(* A submitted task is in exactly one place, whoever pulls or steals it:   *)
(* none is lost between two queues, and none is run twice.                 *)
THEOREM CtrRunsEachTaskOnce == CtrSpec => []CtrEachTaskOnce
<1>1. CtrInit => CtrOnceInv
  <2> SUFFICES ASSUME CtrInit
               PROVE  CtrOnceInv
    OBVIOUS
  <2>1. tried = {} /\ done = {} /\ aborted = {} /\ \A q \in Lists : TasksAt(q) = << >>
    BY DEF CtrInit, TasksAt, Lists
  <2>2. \A k : None(<< >>, k)
    BY DEF None
  <2> QED
    BY <2>1, <2>2 DEF CtrOnceInv, Absent
<1>2. CtrTypeInv /\ CtrOnceInv => CtrEachTaskOnce
  BY LoneHasPlace DEF CtrOnceInv, CtrEachTaskOnce, CtrTypeInv, CtrTypeOK
<1> QED
  BY <1>1, <1>2, CtrInitTypes, CtrStepTypes, CtrStepOnce, PTL DEF CtrSpec

-----------------------------------------------------------------------------
(* The waits.  Where a thread is says what it waits on, what it has        *)
(* registered in the flag, and whether it holds condi_mutex.               *)

CvRegistered == {"cv_flag", "cv_pred", "cv_sleep", "cv_end", "cv_clear", "cv_clear_throw"}
AnyRegistered == {"any_point", "any_pred", "any_sleep", "any_end"}

WaitsOn ==
  /\ wpc \in {"cv_point", "cv_set"} \cup CvRegistered => kind = "cv"
  /\ wpc \in {"any_lock"} \cup AnyRegistered => kind = "any"

Registered ==
  condi = IF wpc \in CvRegistered THEN "cv" ELSE IF wpc \in AnyRegistered THEN "any" ELSE "none"

(* Only a thread that sleeps gives condi_mutex back while it is registered. *)
Merged == cmtx = IF wpc \in AnyRegistered \ {"any_sleep"} THEN "w" ELSE "none"

IntrInv == WaitsOn /\ Registered /\ Merged

(* Before the first wait nothing is registered. *)
LEMMA IntrInitInv == IntrInit => IntrInv
  BY DEF IntrInit, IntrInv, WaitsOn, Registered, Merged, CvRegistered, AnyRegistered

(* Every step keeps the registration with the wait it belongs to. *)
LEMMA IntrStepInv == IntrInv /\ [IntrNext]_intrVars => IntrInv'
<1> SUFFICES ASSUME IntrInv, [IntrNext]_intrVars
             PROVE  IntrInv'
  OBVIOUS
<1> USE DEF IntrInv, WaitsOn, Registered, Merged, CvRegistered, AnyRegistered, WGo, IntrEnds
<1>1. CASE UNCHANGED intrVars
  BY <1>1 DEF intrVars
<1>2. CASE IntrCall
  BY <1>2 DEF IntrCall
<1>3. CASE CvPoint \/ CvSet \/ CvFlag \/ CvPred
  BY <1>3 DEF CvPoint, CvSet, CvFlag, CvPred
<1>4. CASE CvWake \/ CvEnd \/ CvClear
  BY <1>4 DEF CvWake, CvEnd, CvClear
<1>5. CASE AnyLock
  BY <1>5 DEF AnyLock
<1>6. CASE AnyPoint
  BY <1>6 DEF AnyPoint
<1>7. CASE AnyPred \/ AnyRelock
  BY <1>7 DEF AnyPred, AnyRelock
<1>8. CASE FutureFlag \/ FutureWait \/ FutureEnd
  BY <1>8 DEF FutureFlag, FutureWait, FutureEnd
<1>9. CASE IntrStore \/ IntrNotify \/ UserReady \/ UserNotifies \/ UserConsumes \/ SpuriousWakeup
  BY <1>9 DEF IntrStore, IntrNotify, UserReady, UserNotifies, UserConsumes, SpuriousWakeup
<1> QED
  BY <1>1, <1>2, <1>3, <1>4, <1>5, <1>6, <1>7, <1>8, <1>9 DEF IntrNext, IntrWaits, IntrUser

(* A wait is registered exactly while it can be told of an interruption,   *)
(* and a wait for a condition_variable_any holds condi_mutex but for its   *)
(* sleep.                                                                  *)
THEOREM IntrInvariance == IntrSpec => []IntrInv
<1> QED
  BY IntrInitInv, IntrStepInv, PTL DEF IntrSpec

(* interrupt() never notifies a condition variable whose wait is over,     *)
(* however the wait ended.                                                 *)
THEOREM RegistrationEnds == IntrSpec => []IntrNoDeadCondi
<1>1. IntrInv => IntrNoDeadCondi
  BY DEF IntrInv, WaitsOn, Registered, CvRegistered, AnyRegistered, IntrNoDeadCondi
<1> QED
  BY <1>1, IntrInvariance, PTL

-----------------------------------------------------------------------------
(* Types again, now of the waits. *)
LEMMA IntrInitTypes == IntrInit => IntrTypeOK
  BY DEF IntrInit, IntrTypeOK

(* Every step of the waits keeps their types. *)
LEMMA IntrStepTypes == IntrTypeOK /\ [IntrNext]_intrVars => IntrTypeOK'
<1> SUFFICES ASSUME IntrTypeOK, [IntrNext]_intrVars
             PROVE  IntrTypeOK'
  OBVIOUS
<1> USE DEF IntrTypeOK
<1>1. CASE UNCHANGED intrVars
  BY <1>1 DEF intrVars
<1>2. CASE CvPoint \/ CvSet \/ CvFlag \/ CvPred \/ CvWake \/ CvEnd \/ CvClear
  BY <1>2 DEF CvPoint, CvSet, CvFlag, CvPred, CvWake, CvEnd, CvClear, IntrEnds, WGo
<1>3. CASE AnyLock \/ AnyPoint \/ AnyPred \/ AnyRelock \/ SpuriousWakeup
  BY <1>3 DEF AnyLock, AnyPoint, AnyPred, AnyRelock, SpuriousWakeup, IntrEnds, WGo
<1>4. CASE FutureFlag \/ FutureWait \/ FutureEnd
  BY <1>4 DEF FutureFlag, FutureWait, FutureEnd, WGo
<1>5. CASE IntrCall \/ IntrStore \/ IntrNotify \/ UserReady \/ UserNotifies \/ UserConsumes
  BY <1>5 DEF IntrCall, IntrStore, IntrNotify, UserReady, UserNotifies, UserConsumes, WGo
<1> QED
  BY <1>1, <1>2, <1>3, <1>4, <1>5 DEF IntrNext, IntrWaits, IntrUser

(* Every variable of the pool, of the waits and of the futures keeps its   *)
(* type, whichever of them runs.                                           *)
THEOREM ControlTypesCorrect == MCSpec => []TypesOK
<1> DEFINE Types == CtrTypeInv /\ IntrTypeOK /\ FutureInv
<1>1. MCInit => Types
  BY CtrInitTypes, IntrInitTypes, FutureInitInv DEF MCInit
<1>2. Types /\ [MCNext]_mcvars => Types'
  <2> SUFFICES ASSUME CtrTypeInv, IntrTypeOK, FutureInv, [MCNext]_mcvars
               PROVE  CtrTypeInv' /\ IntrTypeOK' /\ FutureInv'
    OBVIOUS
  <2>1. [CtrNext]_ctrVars /\ [IntrNext]_intrVars /\ [FutureNext]_futureVars
    BY DEF MCNext, mcvars, MCCtrPool, MCInterrupt, MCFuture
  <2> QED
    BY <2>1, CtrStepTypes, IntrStepTypes, FutureStepInv
<1>3. Types => TypesOK
  BY DEF TypesOK, CtrTypeInv, FutureInv
<1> QED
  BY <1>1, <1>2, <1>3, PTL DEF MCSpec
=============================================================================
