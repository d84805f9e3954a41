------------------------------ MODULE McsLock ------------------------------
(***************************************************************************)
(* mcs_lock and its lock_guard (mcs_spinlock.h): each guard brings a node; *)
(* the lock points to the last node of a chain.  The constructor of the    *)
(* guard swaps its node in, links it behind its predecessor and spins on   *)
(* its own flag; the destructor hands the lock to the next node.  A node   *)
(* lives as long as its guard.                                             *)
(***************************************************************************)
EXTENDS LockThreads, Naturals, Sequences

VARIABLES
  tail,       \* the lock: the thread whose node is last, or Null
  is_owned,   \* is_owned[t], next[t]: the node of the guard of thread t
  next,
  prev,       \* the local tail of the constructor
  mcs_pc,         \* the next step of thread t; "out": it has no guard
  line,       \* history: the threads that swapped in and did not leave, in order
  mutex_life  \* "alive", "dying" (in ~mcs_lock), "dead"

mcsVars == <<tail, is_owned, next, prev, mcs_pc, line, mutex_life>>
node == <<is_owned, next>>

McsInit ==
  /\ tail = Null
  /\ is_owned = [t \in Threads |-> FALSE]
  /\ next = [t \in Threads |-> Null]
  /\ prev = [t \in Threads |-> Null]
  /\ mcs_pc = [t \in Threads |-> "out"]
  /\ line = << >>
  /\ mutex_life = "alive"

-----------------------------------------------------------------------------
(* lock_guard(mcs_lock&) *)

(* Mutant: the flag of the node is left from its last use. *)
ConstructReusesNode(t) ==
  /\ mutex_life = "alive"
  /\ Move(mcs_pc, t, "out", "swap")
  /\ next' = [next EXCEPT ![t] = Null]
  /\ UNCHANGED <<tail, is_owned, prev, line, mutex_life>>

(* A new guard, with a new node.  No guard is made once the lock is being  *)
(* destroyed: that is the caller's obligation.                             *)
Construct(t) ==
  /\ mutex_life = "alive"
  /\ Move(mcs_pc, t, "out", "swap")
  /\ is_owned' = [is_owned EXCEPT ![t] = FALSE]
  /\ next' = [next EXCEPT ![t] = Null]
  /\ UNCHANGED <<tail, prev, line, mutex_life>>

Swap(t) ==
  /\ Move(mcs_pc, t, "swap", IF tail = Null THEN "in" ELSE "link")
  /\ prev' = [prev EXCEPT ![t] = tail]
  /\ tail' = t
  /\ line' = Append(line, t)
  /\ UNCHANGED <<node, mutex_life>>

Link(t) ==
  /\ Move(mcs_pc, t, "link", "spin")
  /\ next' = [next EXCEPT ![prev[t]] = t]
  /\ UNCHANGED <<tail, is_owned, prev, line, mutex_life>>

Spin(t) ==
  /\ is_owned[t]
  /\ Move(mcs_pc, t, "spin", "in")
  /\ UNCHANGED <<tail, node, prev, line, mutex_life>>

-----------------------------------------------------------------------------
(* ~lock_guard: the node dies with the step that leaves. *)

Leave(t) ==
  /\ Move(mcs_pc, t, "in", "cas")
  /\ UNCHANGED <<tail, node, prev, line, mutex_life>>

(* Mutant: a plain store clears the tail, also when others are in line. *)
CasIsStore(t) ==
  /\ Move(mcs_pc, t, "cas", "out")
  /\ tail' = Null
  /\ line' = Tail(line)
  /\ UNCHANGED <<node, prev, mutex_life>>

Cas(t) ==
  /\ \/ /\ tail = t
        /\ Move(mcs_pc, t, "cas", "out")
        /\ tail' = Null
        /\ line' = Tail(line)
     \/ /\ tail # t
        /\ Move(mcs_pc, t, "cas", "wait_next")
        /\ UNCHANGED <<tail, line>>
  /\ UNCHANGED <<node, prev, mutex_life>>

(* Mutant: the destructor does not wait for the link. *)
WaitForNobody(t) ==
  /\ Move(mcs_pc, t, "wait_next", "handoff")
  /\ UNCHANGED <<tail, node, prev, line, mutex_life>>

WaitNext(t) ==
  /\ next[t] # Null
  /\ Move(mcs_pc, t, "wait_next", "handoff")
  /\ UNCHANGED <<tail, node, prev, line, mutex_life>>

(* Mutant: the successor is not told. *)
HandoffIsSilent(t) ==
  /\ Move(mcs_pc, t, "handoff", "out")
  /\ line' = Tail(line)
  /\ UNCHANGED <<tail, node, prev, mutex_life>>

Handoff(t) ==
  /\ Move(mcs_pc, t, "handoff", "out")
  /\ is_owned' = [is_owned EXCEPT ![next[t]] = TRUE]
  /\ line' = Tail(line)
  /\ UNCHANGED <<tail, next, prev, mutex_life>>

-----------------------------------------------------------------------------
(* Mutant: ~mcs_lock does not wait for the lock to be free. *)
DestroyAtOnce ==
  /\ mutex_life = "alive"
  /\ \A t \in Threads : mcs_pc[t] # "swap"
  /\ mutex_life' = "dead"
  /\ UNCHANGED <<tail, node, prev, mcs_pc, line>>

(* ~mcs_lock: it starts when every guard there is has swapped its node in  *)
(* (the caller's obligation: "no guarantee that there are no escaped       *)
(* nodes") and spins until the lock is free.                               *)
Destroy ==
  /\ \/ /\ mutex_life = "alive"
        /\ \A t \in Threads : mcs_pc[t] # "swap"
        /\ mutex_life' = "dying"
     \/ /\ mutex_life = "dying"
        /\ tail = Null
        /\ mutex_life' = "dead"
  /\ UNCHANGED <<tail, node, prev, mcs_pc, line>>

McsRun(t) ==
  Swap(t) \/ Link(t) \/ Spin(t) \/ Leave(t) \/ Cas(t) \/ WaitNext(t) \/ Handoff(t)

McsNext == Destroy \/ \E t \in Threads : Construct(t) \/ McsRun(t)

McsSpec == McsInit /\ [][McsNext]_mcsVars
McsFairness == \A t \in Threads : WF_mcsVars(McsRun(t))

-----------------------------------------------------------------------------
McsLabels == {"out", "swap", "link", "spin", "in", "cas", "wait_next", "handoff"}
Holding == {"in", "cas", "wait_next", "handoff"}

(* Every variable keeps its type. *)
McsTypeOK ==
  /\ tail \in Threads \cup {Null}
  /\ is_owned \in [Threads -> BOOLEAN]
  /\ next \in [Threads -> Threads \cup {Null}]
  /\ prev \in [Threads -> Threads \cup {Null}]
  /\ mcs_pc \in [Threads -> McsLabels]
  /\ line \in Seq(Threads)
  /\ mutex_life \in {"alive", "dying", "dead"}

(* At most one guard is past its constructor and not through its           *)
(* destructor.                                                             *)
McsMutualExclusion ==
  \A s, t \in Threads : mcs_pc[s] \in Holding /\ mcs_pc[t] \in Holding => s = t

(* No thread writes into the node of another that is gone, or was made     *)
(* anew: a predecessor stays until its successor has linked itself, and a  *)
(* successor spins until it is handed the lock.                            *)
McsNoDeadNode ==
  \A t \in Threads :
    /\ mcs_pc[t] = "link" => /\ prev[t] \in Threads \ {t}
                         /\ mcs_pc[prev[t]] \notin {"out", "swap", "handoff"}
                         /\ next[prev[t]] = Null
    /\ mcs_pc[t] = "handoff" => /\ next[t] \in Threads \ {t}
                            /\ mcs_pc[next[t]] = "spin"

(* Once ~mcs_lock has returned, no guard touches the lock. *)
McsNoUseAfterDestroy ==
  mutex_life = "dead" => \A t \in Threads : mcs_pc[t] = "out"

(* First come, first served: the guards get the lock in the order in which *)
(* they swapped their nodes in, one at a time.                             *)
McsFifo == INSTANCE FifoLock WITH inside <- {t \in Threads : mcs_pc[t] \in Holding}
McsImplementsFifoLock == McsFifo!Spec

(* A thread that has swapped its node in gets the lock, however often the  *)
(* others come back for it.                                                *)
McsNoStarvation == \A t \in Threads : (mcs_pc[t] = "link") ~> (mcs_pc[t] = "in")
=============================================================================
