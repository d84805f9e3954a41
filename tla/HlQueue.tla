------------------------------- MODULE HlQueue -------------------------------
(***************************************************************************)
(* hl_queue (sync_queue.h:12-89, sync_queue_base.h:13-111): a lock-free    *)
(* queue.  Head and tail are pointers with an external count; the last     *)
(* node is a dummy.  push() claims the tail node by a compare-and-swap of  *)
(* its data, links a new dummy node and moves the tail; a push() that lost *)
(* the claim helps with that.  A node counts how many of head and tail     *)
(* still hold an external count for it; the last to leave deletes it.      *)
(*                                                                         *)
(* The loops of increase_count, normal_release_ref and set_new_tail end    *)
(* with a compare-and-swap of the value found then, and before that change *)
(* nothing: each is one step.  The loop of ends_release_ref is not: it     *)
(* goes on while the compare-and-swap succeeds and ends when it fails, so  *)
(* that the last one is made on a node the thread has given up.  Nodes are *)
(* deleted and their addresses used again.                                 *)
(***************************************************************************)
EXTENDS LockFree

VARIABLES hq_head, hq_tail,        \* external count and node
          hq_data, hq_next, hq_count,   \* the contents of each node
          hq_live,                 \* the nodes allocated and not deleted
          hq_pc,                   \* the next step of thread t
          hq_life,                 \* the queue: "alive", "dying" (~hl_queue runs), "gone"
          hq_old,                  \* the local __old of push() and pull()
          hq_new,                  \* the local new_node of push()
          hq_to,                   \* the pointer set_new_tail stores
          hq_curr,                 \* the local __curr of ends_release_ref
          hq_then,                 \* where thread t goes after a release
          hq_arg,                  \* the element thread t pushes, or has pulled
          hq_pushed, hq_pulled     \* history: elements whose push() returned, or that pull() took

hqHeap == <<hq_data, hq_next, hq_count, hq_live>>
hqLocals == <<hq_old, hq_new, hq_to, hq_curr, hq_then>>
hqHistory == <<hq_arg, hq_pushed, hq_pulled>>
hqVars == <<hq_head, hq_tail, hqHeap, hq_pc, hq_life, hqLocals, hqHistory>>

HqPtr(c, p) == [count |-> c, ptr |-> p]
HqNull == HqPtr(0, 0)
Fresh == [internal |-> 0, external |-> 2]

(* The constructor: one dummy node, the first address there is. *)
ASSUME DummyAssumption == 1 \in Nodes

HqInit ==
  /\ hq_head = HqPtr(0, 1) /\ hq_tail = HqPtr(0, 1)
  /\ hq_data = [n \in Nodes |-> Null]
  /\ hq_next = [n \in Nodes |-> HqNull]
  /\ hq_count = [n \in Nodes |-> Fresh]
  /\ hq_live = {1}
  /\ hq_life = "alive"
  /\ hq_pc = [t \in Threads |-> "idle"]
  /\ hq_old = [t \in Threads |-> HqNull]
  /\ hq_new = [t \in Threads |-> 0]
  /\ hq_to = [t \in Threads |-> HqNull]
  /\ hq_curr = [t \in Threads |-> Fresh]
  /\ hq_then = [t \in Threads |-> "idle"]
  /\ hq_arg = [t \in Threads |-> Null]
  /\ hq_pushed = {} /\ hq_pulled = {}

(* The locals of a call end with it. *)
HqReturn(t) ==
  /\ hq_old' = [hq_old EXCEPT ![t] = HqNull]
  /\ hq_new' = [hq_new EXCEPT ![t] = 0]
  /\ hq_to' = [hq_to EXCEPT ![t] = HqNull]
  /\ hq_curr' = [hq_curr EXCEPT ![t] = Fresh]
  /\ hq_then' = [hq_then EXCEPT ![t] = "idle"]
  /\ hq_arg' = [hq_arg EXCEPT ![t] = Null]

-----------------------------------------------------------------------------
(* normal_release_ref, ends_release_ref *)

HqNormal(t) ==
  LET n == hq_old[t].ptr
      new == [hq_count[n] EXCEPT !.internal = @ - 1]
  IN /\ Move(hq_pc, t, "normal", hq_then[t])
     /\ hq_count' = [hq_count EXCEPT ![n] = new]
     /\ hq_live' = IF new.internal = 0 /\ new.external = 0 THEN hq_live \ {n} ELSE hq_live
     /\ UNCHANGED <<hq_head, hq_tail, hq_data, hq_next, hqLocals, hqHistory>>

HqEndsLoad(t) ==
  /\ Move(hq_pc, t, "ends_load", "ends_cas")
  /\ hq_curr' = [hq_curr EXCEPT ![t] = hq_count[hq_old[t].ptr]]
  /\ UNCHANGED <<hq_head, hq_tail, hqHeap, hq_old, hq_new, hq_to, hq_then, hqHistory>>

(* What an end leaves of a count: its external count becomes internal.     *)
EndLeft(curr, held) ==
  [internal |-> curr.internal + held - 1, external |-> (curr.external - 1) % 4]

(* Mutant: the other end of the queue is not waited for. *)
HqEndsCasAlone(t) ==
  LET n == hq_old[t].ptr
      new == EndLeft(hq_curr[t], hq_old[t].count)
      swapped == hq_count[n] = hq_curr[t]
  IN /\ hq_pc[t] \in {"ends_cas", "ends_again"}
     /\ Move(hq_pc, t, hq_pc[t], IF swapped THEN "ends_again" ELSE hq_then[t])
     /\ hq_count' = IF swapped THEN [hq_count EXCEPT ![n] = new] ELSE hq_count
     /\ hq_live' = IF ~swapped /\ new.internal = 0 THEN hq_live \ {n} ELSE hq_live
     /\ UNCHANGED <<hq_head, hq_tail, hq_data, hq_next, hqLocals, hqHistory>>

(* A turn of the loop of ends_release_ref: the first compare-and-swap that *)
(* fails ends it.  After one that succeeds, at "ends_again", the thread is *)
(* no longer counted and the node may be deleted; __curr stays as it was,  *)
(* and the next one fails, unless the address is a new node's by then.     *)
HqEndsCas(t) ==
  LET n == hq_old[t].ptr
      new == EndLeft(hq_curr[t], hq_old[t].count)
      swapped == hq_count[n] = hq_curr[t]
  IN /\ hq_pc[t] \in {"ends_cas", "ends_again"}
     /\ Move(hq_pc, t, hq_pc[t], IF swapped THEN "ends_again" ELSE hq_then[t])
     /\ hq_count' = IF swapped THEN [hq_count EXCEPT ![n] = new] ELSE hq_count
     /\ hq_live' = IF ~swapped /\ new = [internal |-> 0, external |-> 0]
                   THEN hq_live \ {n} ELSE hq_live
     /\ UNCHANGED <<hq_head, hq_tail, hq_data, hq_next, hqLocals, hqHistory>>

(* The nodes that threads have given up and are about to touch again.      *)
HqGivenUp == {hq_old[t].ptr : t \in {u \in Threads : hq_pc[u] = "ends_again"}}

(* A new node has the address of one that a thread is about to touch       *)
(* again.  The program has no meaning from here on.                        *)
HqReused == \E t \in Threads :
  hq_pc[t] = "ends_again" /\ hq_count[hq_old[t].ptr].external >= hq_curr[t].external

-----------------------------------------------------------------------------
(* push.  Each element is pushed once. *)

HqPushCall(t) ==
  /\ Move(hq_pc, t, "idle", "p_new")
  /\ \E v \in Values \ (hq_pushed \cup {hq_arg[u] : u \in Threads}) :
       hq_arg' = [hq_arg EXCEPT ![t] = v]
  /\ UNCHANGED <<hq_head, hq_tail, hqHeap, hqLocals, hq_pushed, hq_pulled>>

(* new_node.n_ptr = new node{}: a deleted node's contents are gone.  The   *)
(* address of a node that was given up is used again, or is not.           *)
HqNewNode(t) ==
  /\ Move(hq_pc, t, "p_new", "p_count") \/ Move(hq_pc, t, "p_renew", "p_tail")
  /\ \E n \in Nodes :
       /\ FirstFree(n, hq_live) \/ FirstFree(n, hq_live \cup HqGivenUp)
       /\ hq_live' = hq_live \cup {n}
       /\ hq_data' = [hq_data EXCEPT ![n] = Null]
       /\ hq_next' = [hq_next EXCEPT ![n] = HqNull]
       /\ hq_count' = [hq_count EXCEPT ![n] = Fresh]
       /\ hq_new' = [hq_new EXCEPT ![t] = n]
  /\ UNCHANGED <<hq_head, hq_tail, hq_old, hq_to, hq_curr, hq_then, hqHistory>>

(* increase_count(tail) *)
HqPushCount(t) ==
  LET new == HqPtr(hq_tail.count + 1, hq_tail.ptr) IN
  /\ Move(hq_pc, t, "p_count", "p_data")
  /\ hq_tail.count < MaxCount
  /\ hq_tail' = new
  /\ hq_old' = [hq_old EXCEPT ![t] = new]
  /\ UNCHANGED <<hq_head, hqHeap, hq_new, hq_to, hq_curr, hq_then, hqHistory>>

HqClaim(t) ==
  LET n == hq_old[t].ptr IN
  /\ hq_pc[t] = "p_data"
  /\ \/ /\ hq_data[n] = Null
        /\ Move(hq_pc, t, "p_data", "p_link")
        /\ hq_data' = [hq_data EXCEPT ![n] = hq_arg[t]]
     \/ /\ hq_data[n] # Null
        /\ Move(hq_pc, t, "p_data", "p_help")
        /\ UNCHANGED hq_data
  /\ UNCHANGED <<hq_head, hq_tail, hq_next, hq_count, hq_live, hqLocals, hqHistory>>

(* Link the new node, or take the one that a helper linked and delete it.  *)
HqLink(t) ==
  LET n == hq_old[t].ptr
      mine == HqPtr(0, hq_new[t])
  IN /\ hq_pc[t] = "p_link"
     /\ \/ /\ hq_next[n] = HqNull
           /\ hq_next' = [hq_next EXCEPT ![n] = mine]
           /\ hq_to' = [hq_to EXCEPT ![t] = mine]
           /\ UNCHANGED hq_live
        \/ /\ hq_next[n] # HqNull
           /\ hq_to' = [hq_to EXCEPT ![t] = hq_next[n]]
           /\ hq_live' = hq_live \ {hq_new[t]}
           /\ UNCHANGED hq_next
     /\ Move(hq_pc, t, "p_link", "p_tail")
     /\ hq_new' = [hq_new EXCEPT ![t] = 0]
     /\ hq_then' = [hq_then EXCEPT ![t] = "p_done"]
     /\ UNCHANGED <<hq_head, hq_tail, hq_data, hq_count, hq_old, hq_curr, hqHistory>>

(* A helper that links its node first gets a new one to try again with. *)
HqHelp(t) ==
  LET n == hq_old[t].ptr
      mine == HqPtr(0, hq_new[t])
  IN /\ hq_pc[t] = "p_help"
     /\ \/ /\ hq_next[n] = HqNull
           /\ hq_next' = [hq_next EXCEPT ![n] = mine]
           /\ hq_to' = [hq_to EXCEPT ![t] = mine]
           /\ hq_new' = [hq_new EXCEPT ![t] = 0]
           /\ Move(hq_pc, t, "p_help", "p_renew")
        \/ /\ hq_next[n] # HqNull
           /\ hq_to' = [hq_to EXCEPT ![t] = hq_next[n]]
           /\ Move(hq_pc, t, "p_help", "p_tail")
           /\ UNCHANGED <<hq_next, hq_new>>
     /\ hq_then' = [hq_then EXCEPT ![t] = "p_count"]
     /\ UNCHANGED <<hq_head, hq_tail, hq_data, hq_count, hq_live, hq_old, hq_curr, hqHistory>>

(* set_new_tail: the tail moves on, or another push() has moved it. *)
HqSetTail(t) ==
  /\ hq_pc[t] = "p_tail"
  /\ \/ /\ hq_tail.ptr = hq_old[t].ptr
        /\ Move(hq_pc, t, "p_tail", "ends_load")
        /\ hq_old' = [hq_old EXCEPT ![t] = hq_tail]
        /\ hq_tail' = hq_to[t]
     \/ /\ hq_tail.ptr # hq_old[t].ptr
        /\ Move(hq_pc, t, "p_tail", "normal")
        /\ UNCHANGED <<hq_tail, hq_old>>
  /\ UNCHANGED <<hq_head, hqHeap, hq_new, hq_to, hq_curr, hq_then, hqHistory>>

HqPushReturns(t) ==
  /\ Move(hq_pc, t, "p_done", "idle")
  /\ hq_pushed' = hq_pushed \cup {hq_arg[t]}
  /\ HqReturn(t)
  /\ UNCHANGED <<hq_head, hq_tail, hqHeap, hq_pulled>>

-----------------------------------------------------------------------------
(* pull *)

HqPullCall(t) ==
  /\ Move(hq_pc, t, "idle", "h_count")
  /\ UNCHANGED <<hq_head, hq_tail, hqHeap, hqLocals, hqHistory>>

(* increase_count(head) *)
HqPullCount(t) ==
  LET new == HqPtr(hq_head.count + 1, hq_head.ptr) IN
  /\ Move(hq_pc, t, "h_count", "h_tail")
  /\ hq_head.count < MaxCount
  /\ hq_head' = new
  /\ hq_old' = [hq_old EXCEPT ![t] = new]
  /\ UNCHANGED <<hq_tail, hqHeap, hq_new, hq_to, hq_curr, hq_then, hqHistory>>

(* Mutant: the dummy is taken like any other node. *)
HqPullTailUnseen(t) ==
  /\ Move(hq_pc, t, "h_tail", "h_next")
  /\ UNCHANGED <<hq_head, hq_tail, hqHeap, hqLocals, hqHistory>>

(* Empty when the head node is the dummy. *)
HqPullTail(t) ==
  /\ \/ /\ hq_old[t].ptr = hq_tail.ptr
        /\ Move(hq_pc, t, "h_tail", "normal")
        /\ hq_then' = [hq_then EXCEPT ![t] = "h_done"]
     \/ /\ hq_old[t].ptr # hq_tail.ptr
        /\ Move(hq_pc, t, "h_tail", "h_next")
        /\ UNCHANGED hq_then
  /\ UNCHANGED <<hq_head, hq_tail, hqHeap, hq_old, hq_new, hq_to, hq_curr, hqHistory>>

(* hq_to holds the local new_next. *)
HqPullNext(t) ==
  /\ Move(hq_pc, t, "h_next", "h_cas")
  /\ hq_to' = [hq_to EXCEPT ![t] = hq_next[hq_old[t].ptr]]
  /\ UNCHANGED <<hq_head, hq_tail, hqHeap, hq_old, hq_new, hq_curr, hq_then, hqHistory>>

HqPullCas(t) ==
  /\ \/ /\ hq_head = hq_old[t]
        /\ Move(hq_pc, t, "h_cas", "h_data")
        /\ hq_head' = hq_to[t]
        /\ hq_then' = [hq_then EXCEPT ![t] = "h_done"]
     \/ /\ hq_head # hq_old[t]
        /\ Move(hq_pc, t, "h_cas", "normal")
        /\ hq_then' = [hq_then EXCEPT ![t] = "h_count"]
        /\ UNCHANGED hq_head
  /\ UNCHANGED <<hq_tail, hqHeap, hq_old, hq_new, hq_to, hq_curr, hqHistory>>

HqPullData(t) ==
  LET n == hq_old[t].ptr IN
  /\ Move(hq_pc, t, "h_data", "ends_load")
  /\ hq_arg' = [hq_arg EXCEPT ![t] = hq_data[n]]
  /\ hq_data' = [hq_data EXCEPT ![n] = Null]
  /\ UNCHANGED <<hq_head, hq_tail, hq_next, hq_count, hq_live, hqLocals, hq_pushed, hq_pulled>>

(* The destructor pulls until a pull() returns nothing. *)
HqPullReturns(t) ==
  /\ Move(hq_pc, t, "h_done", IF hq_life = "alive" THEN "idle"
                              ELSE IF hq_arg[t] = Null THEN "d_head" ELSE "h_count")
  /\ hq_pulled' = hq_pulled \cup ({hq_arg[t]} \ {Null})
  /\ HqReturn(t)
  /\ UNCHANGED <<hq_head, hq_tail, hqHeap, hq_pushed>>

-----------------------------------------------------------------------------
(* ~hl_queue: nobody else is in the queue, or will be. *)

HqDestroy(t) ==
  /\ hq_life = "alive" /\ hq_life' = "dying"
  /\ \A u \in Threads : hq_pc[u] = "idle"
  /\ Move(hq_pc, t, "idle", "h_count")
  /\ UNCHANGED <<hq_head, hq_tail, hqHeap, hqLocals, hqHistory>>

(* The node that is left is deleted, however many threads once counted     *)
(* themselves in on it.                                                    *)
HqDeleteHead(t) ==
  /\ Move(hq_pc, t, "d_head", "idle")
  /\ hq_life' = "gone"
  /\ hq_live' = hq_live \ {hq_head.ptr}
  /\ UNCHANGED <<hq_head, hq_tail, hq_data, hq_next, hq_count, hqLocals, hqHistory>>

-----------------------------------------------------------------------------
HqCall(t) == hq_life = "alive" /\ (HqPushCall(t) \/ HqPullCall(t)) /\ UNCHANGED hq_life

HqAccess(t) ==
  \/ HqNewNode(t) \/ HqPushCount(t) \/ HqClaim(t) \/ HqLink(t) \/ HqHelp(t) \/ HqSetTail(t)
  \/ HqPushReturns(t) \/ HqPullCount(t) \/ HqPullTail(t) \/ HqPullNext(t) \/ HqPullCas(t)
  \/ HqPullData(t) \/ HqPullReturns(t) \/ HqNormal(t) \/ HqEndsLoad(t) \/ HqEndsCas(t)

HqRun(t) == (HqAccess(t) /\ UNCHANGED hq_life) \/ HqDestroy(t) \/ HqDeleteHead(t)

HqNext == ~HqReused /\ \E t \in Threads : HqCall(t) \/ HqRun(t)

HqSpec == HqInit /\ [][HqNext]_hqVars

-----------------------------------------------------------------------------
HqPtrs == [count : Nat, ptr : Nodes \cup {0}]
HqCounters == [internal : Int, external : 0 .. 3]

(* Every variable keeps its type. *)
HqTypeOK ==
  /\ hq_head \in HqPtrs /\ hq_tail \in HqPtrs
  /\ hq_data \in [Nodes -> Values \cup {Null}]
  /\ hq_next \in [Nodes -> HqPtrs]
  /\ hq_count \in [Nodes -> HqCounters]
  /\ hq_live \subseteq Nodes /\ hq_life \in {"alive", "dying", "gone"}
  /\ hq_old \in [Threads -> HqPtrs] /\ hq_to \in [Threads -> HqPtrs]
  /\ hq_new \in [Threads -> Nodes \cup {0}]
  /\ hq_curr \in [Threads -> HqCounters]
  /\ hq_arg \in [Threads -> Values \cup {Null}]
  /\ hq_pushed \subseteq Values /\ hq_pulled \subseteq hq_pushed \cup {hq_arg[t] : t \in Threads}

(* The nodes of the queue, from the head to the last one linked. *)
HqChain == ChainFrom(hq_head.ptr, [n \in Nodes |-> hq_next[n].ptr])

HqInQueue == NodesOf(HqChain)

(* The nodes that threads have counted themselves in on and not left. *)
HqUsed ==
  LET users == {t \in Threads :
                  hq_pc[t] \notin {"idle", "p_new", "p_count", "p_done", "h_count", "h_done",
                                    "ends_again", "d_head"}}
  IN {hq_old[t].ptr : t \in users}

(* No node is touched after its deletion: what the queue leads to, what a  *)
(* thread counted itself in on, and the node that a push() has ready are   *)
(* all allocated; the destructor deletes none that is deleted already.     *)
HqNoDeadNode ==
  hq_life = "gone" \/ HqInQueue \cup HqUsed \cup ({hq_new[t] : t \in Threads} \ {0}) \subseteq hq_live

(* The head never overtakes the tail, the tail is the last node or the one *)
(* before it, every node before the tail has its element, and a pull()     *)
(* that has taken a node finds the element there.                          *)
HqListIsWhole ==
  /\ LET c == HqChain
     IN \E i \in DOMAIN c :
          /\ c[i] = hq_tail.ptr
          /\ Len(c) <= i + 1
          /\ \A k \in 1 .. Len(c) - 1 : hq_data[c[k]] # Null
  /\ \A t \in Threads : hq_pc[t] = "h_data" => hq_data[hq_old[t].ptr] # Null

(* The elements on the way out: in the queue, or in the hands of a pull(). *)
HqQueued == NodesOf(DataOf(HqChain, hq_data)) \ {Null}
HqTaken(t) ==
  {v \in Values : \/ hq_pc[t] = "h_data" /\ hq_data[hq_old[t].ptr] = v
                  \/ hq_then[t] = "h_done" /\ hq_arg[t] = v}

(* No element is delivered twice: it is in one node of the queue, in the   *)
(* hands of one pull(), or delivered.                                      *)
HqNothingTwice ==
  /\ LET d == DataOf(HqChain, hq_data)
     IN \A i, k \in DOMAIN d : i # k /\ d[i] = d[k] => d[i] = Null
  /\ LET out == HqQueued \cup hq_pulled
     IN \A t \in Threads : HqTaken(t) \cap out = {}
  /\ \A t, u \in Threads : t # u => HqTaken(t) \cap HqTaken(u) = {}
  /\ HqQueued \cap hq_pulled = {}

(* No element is lost in this queue, "suitable as the main interaction     *)
(* queue in high-load scenarios" (README.md:23): what a push() that has    *)
(* returned put in is queued, on its way out, or delivered.                *)
HqNothingLost == hq_pushed \subseteq HqQueued \cup hq_pulled \cup UNION {HqTaken(t) : t \in Threads}
=============================================================================
