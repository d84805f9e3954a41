------------------------------- MODULE HlStack -------------------------------
(***************************************************************************)
(* hl_stack (sync_stack.h:59-99, sync_stack_base.h:120-228): a lock-free   *)
(* stack with split reference counts.  The head is a pointer with an       *)
(* external count; pull() adds one to it before it uses the node.  Who     *)
(* takes the node off the stack moves the external count into the node,    *)
(* everyone else takes one off there, and the last one deletes the node.   *)
(*                                                                         *)
(* The loop of update_head_count ends with a compare-and-swap of the value *)
(* the head has then, and before that changes nothing: it is one step.     *)
(* Nodes are deleted and their addresses used again.                       *)
(***************************************************************************)
EXTENDS LockFree

VARIABLES hs_head,    \* the head: an external count and a node
          hs_data, hs_next, hs_count,   \* the contents of each node
          hs_live,    \* the nodes allocated and not deleted
          hs_pc,      \* the next step of thread t
          hs_old,     \* the local __old of pull(): a counted pointer
          hs_raw,     \* the local __raw of push()
          hs_call, hs_ret   \* the pending call and its result

hsHeap == <<hs_data, hs_next, hs_count, hs_live>>
hsVars == <<hs_head, hsHeap, hs_pc, hs_old, hs_raw, hs_call, hs_ret>>

CPtr(c, p) == [count |-> c, ptr |-> p]
NullPtr == CPtr(0, 0)

HsIdle == [op |-> "none", arg |-> Null]
HsNoRet == [status |-> "none", val |-> Null]
HsResult(t, st, v) == hs_ret' = [hs_ret EXCEPT ![t] = [status |-> st, val |-> v]]

HsInit ==
  /\ hs_head = NullPtr
  /\ hs_data = [n \in Nodes |-> Null]
  /\ hs_next = [n \in Nodes |-> NullPtr]
  /\ hs_count = [n \in Nodes |-> 0]
  /\ hs_live = {}
  /\ hs_pc = [t \in Threads |-> "idle"]
  /\ hs_old = [t \in Threads |-> NullPtr]
  /\ hs_raw = [t \in Threads |-> 0]
  /\ hs_call = [t \in Threads |-> HsIdle]
  /\ hs_ret = [t \in Threads |-> HsNoRet]

HsCall(t) ==
  /\ \/ \E v \in Values : /\ Move(hs_pc, t, "idle", "new")
                          /\ hs_call' = [hs_call EXCEPT ![t] = [op |-> "push", arg |-> v]]
     \/ /\ Move(hs_pc, t, "idle", "count")
        /\ hs_call' = [hs_call EXCEPT ![t] = [op |-> "pull", arg |-> Null]]
  /\ UNCHANGED <<hs_head, hsHeap, hs_old, hs_raw, hs_ret>>

HsReturn(t) ==
  /\ Move(hs_pc, t, "return", "idle")
  /\ hs_call' = [hs_call EXCEPT ![t] = HsIdle]
  /\ hs_ret' = [hs_ret EXCEPT ![t] = HsNoRet]
  /\ hs_old' = [hs_old EXCEPT ![t] = NullPtr]
  /\ hs_raw' = [hs_raw EXCEPT ![t] = 0]
  /\ UNCHANGED <<hs_head, hsHeap>>

-----------------------------------------------------------------------------
(* push *)

(* The new node remembers the head that it found. *)
HsNew(t) ==
  /\ Move(hs_pc, t, "new", "push")
  /\ \E n \in Nodes :
       /\ FirstFree(n, hs_live)
       /\ hs_live' = hs_live \cup {n}
       /\ hs_raw' = [hs_raw EXCEPT ![t] = n]
       /\ hs_data' = [hs_data EXCEPT ![n] = hs_call[t].arg]
       /\ hs_next' = [hs_next EXCEPT ![n] = hs_head]
       /\ hs_count' = [hs_count EXCEPT ![n] = 0]
  /\ UNCHANGED <<hs_head, hs_old, hs_call, hs_ret>>

(* Mutant: the head is stored without a comparison. *)
HsPushStores(t) ==
  /\ Move(hs_pc, t, "push", "return")
  /\ hs_head' = CPtr(1, hs_raw[t])
  /\ HsResult(t, "success", Null)
  /\ UNCHANGED <<hsHeap, hs_old, hs_raw, hs_call>>

(* A compare-and-swap that fails loads the head that it found. *)
HsPush(t) ==
  /\ hs_pc[t] = "push"
  /\ \/ /\ hs_head = hs_next[hs_raw[t]]
        /\ Move(hs_pc, t, "push", "return")
        /\ hs_head' = CPtr(1, hs_raw[t])
        /\ HsResult(t, "success", Null)
        /\ UNCHANGED hs_next
     \/ /\ hs_head # hs_next[hs_raw[t]]
        /\ hs_next' = [hs_next EXCEPT ![hs_raw[t]] = hs_head]
        /\ UNCHANGED <<hs_head, hs_pc, hs_ret>>
  /\ UNCHANGED <<hs_data, hs_count, hs_live, hs_old, hs_raw, hs_call>>

-----------------------------------------------------------------------------
(* pull *)

(* update_head_count; an empty stack is found empty here. *)
HsCount(t) ==
  LET new == CPtr(hs_head.count + 1, hs_head.ptr) IN
  /\ hs_head.count < MaxCount
  /\ hs_head' = new
  /\ hs_old' = [hs_old EXCEPT ![t] = new]
  /\ \/ new.ptr = 0 /\ Move(hs_pc, t, "count", "return") /\ HsResult(t, "empty", Null)
     \/ new.ptr # 0 /\ Move(hs_pc, t, "count", "take") /\ UNCHANGED hs_ret
  /\ UNCHANGED <<hsHeap, hs_raw, hs_call>>

HsTake(t) ==
  /\ hs_pc[t] = "take"
  /\ \/ /\ hs_head = hs_old[t]
        /\ Move(hs_pc, t, "take", "swap")
        /\ hs_head' = hs_next[hs_old[t].ptr]
        /\ HsResult(t, "success", hs_data[hs_old[t].ptr])
     \/ /\ hs_head # hs_old[t]
        /\ Move(hs_pc, t, "take", "sub")
        /\ UNCHANGED <<hs_head, hs_ret>>
  /\ UNCHANGED <<hsHeap, hs_old, hs_raw, hs_call>>

(* res.swap(__raw->_M_data) *)
HsSwap(t) ==
  /\ Move(hs_pc, t, "swap", "add")
  /\ hs_data' = [hs_data EXCEPT ![hs_old[t].ptr] = Null]
  /\ UNCHANGED <<hs_head, hs_next, hs_count, hs_live, hs_old, hs_raw, hs_call, hs_ret>>

(* fetch_add(k), and delete when the count was d. *)
HsAddOrDelete(n, k, d) ==
  /\ hs_count' = [hs_count EXCEPT ![n] = @ + k]
  /\ hs_live' = IF hs_count[n] = d THEN hs_live \ {n} ELSE hs_live

(* The winner has two references: its own and the one of the stack. *)
HsAdd(t) ==
  LET decrease == hs_old[t].count - 2 IN
  /\ Move(hs_pc, t, "add", "return")
  /\ HsAddOrDelete(hs_old[t].ptr, decrease, -decrease)
  /\ UNCHANGED <<hs_head, hs_data, hs_next, hs_old, hs_raw, hs_call, hs_ret>>

HsSub(t) ==
  /\ Move(hs_pc, t, "sub", "count")
  /\ HsAddOrDelete(hs_old[t].ptr, -1, 1)
  /\ UNCHANGED <<hs_head, hs_data, hs_next, hs_old, hs_raw, hs_call, hs_ret>>

HsRun(t) ==
  \/ HsNew(t) \/ HsPush(t) \/ HsCount(t) \/ HsTake(t) \/ HsSwap(t) \/ HsAdd(t) \/ HsSub(t)
  \/ HsReturn(t)

HsNext == \E t \in Threads : HsCall(t) \/ HsRun(t)

HsSpec == HsInit /\ [][HsNext]_hsVars

-----------------------------------------------------------------------------
(* Every variable keeps its type. *)
CPtrs == [count : Int, ptr : Nodes \cup {0}]

HsTypeOK ==
  /\ hs_head \in CPtrs
  /\ hs_data \in [Nodes -> Values \cup {Null}]
  /\ hs_next \in [Nodes -> CPtrs]
  /\ hs_count \in [Nodes -> Int]
  /\ hs_live \subseteq Nodes
  /\ hs_pc \in [Threads -> {"idle", "new", "push", "count", "take", "swap", "add", "sub", "return"}]
  /\ hs_old \in [Threads -> CPtrs]
  /\ hs_raw \in [Threads -> Nodes \cup {0}]

(* The nodes of the stack, from the head down. *)
HsChain == ChainFrom(hs_head.ptr, [n \in Nodes |-> hs_next[n].ptr])

HsInStack == NodesOf(HsChain)

(* The nodes that a pull() has counted itself in on. *)
HsUsed == {hs_old[t].ptr : t \in {u \in Threads : hs_pc[u] \in {"take", "swap", "add", "sub"}}}

(* The nodes that a push() has ready. *)
HsReady == {hs_raw[t] : t \in {u \in Threads : hs_pc[u] = "push"}}

(* No node is touched after its deletion, or taken for the node that now   *)
(* has its address: what is in the stack, and what a pull() counted itself *)
(* in on, is allocated.                                                    *)
HsNoDeadNode == HsInStack \cup HsUsed \subseteq hs_live

(* The last user of a node deletes it: a node that is neither in the stack *)
(* nor used by a pull(), nor still in the hands of its push(), is gone.    *)
HsNoLeak == hs_live \subseteq HsInStack \cup HsUsed \cup HsReady

(* hl_stack is a linearizable stack: a push() takes effect when its        *)
(* compare-and-swap succeeds, a pull() when it takes the node or counts    *)
(* itself in on null.                                                      *)
HsLifo ==
  INSTANCE LifoStack WITH s <- DataOf(HsChain, hs_data),
                          call <- hs_call, ret <- hs_ret
HsImplementsLifo == HsLifo!Spec
=============================================================================
