------------------------------- MODULE LlStack -------------------------------
(***************************************************************************)
(* ll_stack (sync_stack.h:12-57, sync_stack_base.h:16-118): a lock-free    *)
(* stack that counts the threads inside pull().  A thread that is alone    *)
(* there deletes its node and those that others left pending.              *)
(*                                                                         *)
(* The compare-and-swap helpers take the expected pointer by value: a loop *)
(* that failed once goes on with the same expected pointer, so each is one *)
(* step, possible when the pointer is there.                               *)
(***************************************************************************)
EXTENDS LockFree

VARIABLES ll_head, ll_ready,   \* the stack, and the list of the pending nodes
          ll_ths,              \* _M_ths_count
          ll_data, ll_next,    \* the contents of each node
          ll_live,             \* the nodes allocated and not deleted
          ll_pc,               \* the next step of thread t
          ll_raw,              \* the local temp of push() and of pull()
          ll_list, ll_last,    \* the list that try_reclaim puts back or deletes
          ll_call, ll_ret      \* the pending call and its result

llHeap == <<ll_data, ll_next, ll_live>>
llLocals == <<ll_raw, ll_list, ll_last>>
llVars == <<ll_head, ll_ready, ll_ths, llHeap, ll_pc, llLocals, ll_call, ll_ret>>

LlIdle == [op |-> "none", arg |-> Null]
LlNoRet == [status |-> "none", val |-> Null]
LlResult(t, st, v) == ll_ret' = [ll_ret EXCEPT ![t] = [status |-> st, val |-> v]]

LlInit ==
  /\ ll_head = 0 /\ ll_ready = 0 /\ ll_ths = 0
  /\ ll_data = [n \in Nodes |-> Null]
  /\ ll_next = [n \in Nodes |-> 0]
  /\ ll_live = {}
  /\ ll_pc = [t \in Threads |-> "idle"]
  /\ ll_raw = [t \in Threads |-> 0]
  /\ ll_list = [t \in Threads |-> 0]
  /\ ll_last = [t \in Threads |-> 0]
  /\ ll_call = [t \in Threads |-> LlIdle]
  /\ ll_ret = [t \in Threads |-> LlNoRet]

(* The nodes of a list, from its first on. *)
LlChain(first) == ChainFrom(first, ll_next)

LlNodesOf(first) == NodesOf(LlChain(first))

LlCall(t) ==
  /\ \/ \E v \in Values : /\ Move(ll_pc, t, "idle", "new")
                          /\ ll_call' = [ll_call EXCEPT ![t] = [op |-> "push", arg |-> v]]
     \/ /\ Move(ll_pc, t, "idle", "add")
        /\ ll_call' = [ll_call EXCEPT ![t] = [op |-> "pull", arg |-> Null]]
  /\ UNCHANGED <<ll_head, ll_ready, ll_ths, llHeap, llLocals, ll_ret>>

LlReturn(t) ==
  /\ Move(ll_pc, t, "return", "idle")
  /\ ll_call' = [ll_call EXCEPT ![t] = LlIdle]
  /\ ll_ret' = [ll_ret EXCEPT ![t] = LlNoRet]
  /\ ll_raw' = [ll_raw EXCEPT ![t] = 0]
  /\ ll_list' = [ll_list EXCEPT ![t] = 0]
  /\ ll_last' = [ll_last EXCEPT ![t] = 0]
  /\ UNCHANGED <<ll_head, ll_ready, ll_ths, llHeap>>

-----------------------------------------------------------------------------
(* push *)

LlNew(t) ==
  /\ Move(ll_pc, t, "new", "push")
  /\ \E n \in Nodes :
       /\ FirstFree(n, ll_live)
       /\ ll_live' = ll_live \cup {n}
       /\ ll_raw' = [ll_raw EXCEPT ![t] = n]
       /\ ll_data' = [ll_data EXCEPT ![n] = ll_call[t].arg]
       /\ ll_next' = [ll_next EXCEPT ![n] = ll_head]
  /\ UNCHANGED <<ll_head, ll_ready, ll_ths, ll_list, ll_last, ll_call, ll_ret>>

LlPush(t) ==
  /\ Move(ll_pc, t, "push", "return")
  /\ ll_head = ll_next[ll_raw[t]]
  /\ ll_head' = ll_raw[t]
  /\ LlResult(t, "success", Null)
  /\ UNCHANGED <<ll_ready, ll_ths, llHeap, llLocals, ll_call>>

-----------------------------------------------------------------------------
(* pull *)

LlAdd(t) ==
  /\ Move(ll_pc, t, "add", "load")
  /\ ll_ths' = ll_ths + 1
  /\ UNCHANGED <<ll_head, ll_ready, llHeap, llLocals, ll_call, ll_ret>>

LlLoad(t) ==
  /\ ll_raw' = [ll_raw EXCEPT ![t] = ll_head]
  /\ \/ ll_head # 0 /\ Move(ll_pc, t, "load", "take") /\ UNCHANGED ll_ret
     \/ ll_head = 0 /\ Move(ll_pc, t, "load", "alone") /\ LlResult(t, "empty", Null)
  /\ UNCHANGED <<ll_head, ll_ready, ll_ths, llHeap, ll_list, ll_last, ll_call>>

LlTake(t) ==
  /\ Move(ll_pc, t, "take", "swap")
  /\ ll_head = ll_raw[t]
  /\ ll_head' = ll_next[ll_raw[t]]
  /\ LlResult(t, "success", ll_data[ll_raw[t]])
  /\ UNCHANGED <<ll_ready, ll_ths, llHeap, llLocals, ll_call>>

(* res.swap(temp->_M_data) *)
LlSwap(t) ==
  /\ Move(ll_pc, t, "swap", "alone")
  /\ ll_data' = [ll_data EXCEPT ![ll_raw[t]] = Null]
  /\ UNCHANGED <<ll_head, ll_ready, ll_ths, ll_next, ll_live, llLocals, ll_call, ll_ret>>

-----------------------------------------------------------------------------
(* try_reclaim *)

(* add_with_rlx(0) == 1.  If others are in pull() the node is put back. *)
LlAlone(t) ==
  /\ \/ ll_ths = 1 /\ Move(ll_pc, t, "alone", "delete") /\ UNCHANGED ll_list
     \/ ll_ths # 1 /\ Move(ll_pc, t, "alone", "pend") /\ ll_list' = [ll_list EXCEPT ![t] = ll_raw[t]]
  /\ UNCHANGED <<ll_head, ll_ready, ll_ths, llHeap, ll_raw, ll_last, ll_call, ll_ret>>

(* Mutant: the pending nodes are looked up, and stay in the list. *)
LlDeleteLoads(t) ==
  /\ Move(ll_pc, t, "delete", "sub")
  /\ ll_live' = ll_live \ {ll_raw[t]}
  /\ ll_list' = [ll_list EXCEPT ![t] = ll_ready]
  /\ UNCHANGED <<ll_head, ll_ready, ll_ths, ll_data, ll_next, ll_raw, ll_last, ll_call, ll_ret>>

(* delete __n, and take the pending nodes over *)
LlDelete(t) ==
  /\ Move(ll_pc, t, "delete", "sub")
  /\ ll_live' = ll_live \ {ll_raw[t]}
  /\ ll_list' = [ll_list EXCEPT ![t] = ll_ready]
  /\ ll_ready' = 0
  /\ UNCHANGED <<ll_head, ll_ths, ll_data, ll_next, ll_raw, ll_last, ll_call, ll_ret>>

(* Mutant: the thread counts itself out twice. *)
LlSubTwice(t) ==
  /\ Move(ll_pc, t, "sub", "return")
  /\ ll_ths' = ll_ths - 2
  /\ UNCHANGED <<ll_head, ll_ready, llHeap, llLocals, ll_call, ll_ret>>

(* If another thread came in meanwhile, the nodes are put back. *)
LlSub(t) ==
  /\ ll_ths' = ll_ths - 1
  /\ \/ /\ ll_ths = 1
        /\ Move(ll_pc, t, "sub", "return")
        /\ ll_live' = ll_live \ LlNodesOf(ll_list[t])
     \/ /\ ll_ths # 1
        /\ Move(ll_pc, t, "sub", "put_back")
        /\ UNCHANGED ll_live
  /\ UNCHANGED <<ll_head, ll_ready, ll_data, ll_next, llLocals, ll_call, ll_ret>>

(* pending_nodes: the last node of the list is linked to the pending ones, *)
(* then the first becomes the first of them.  The last node of no list is  *)
(* looked up through a null pointer.                                       *)
LlPend(t) ==
  LET last == IF ll_pc[t] = "pend" THEN ll_list[t]
              ELSE LlChain(ll_list[t])[Len(LlChain(ll_list[t]))]
  IN /\ \/ Move(ll_pc, t, "pend", "link")
        \/ Move(ll_pc, t, "put_back", "link_back")
     /\ ll_list[t] # 0
     /\ ll_last' = [ll_last EXCEPT ![t] = last]
     /\ ll_next' = [ll_next EXCEPT ![last] = ll_ready]
     /\ UNCHANGED <<ll_head, ll_ready, ll_ths, ll_data, ll_live, ll_raw, ll_list, ll_call, ll_ret>>

LlLink(t) ==
  /\ Move(ll_pc, t, "link", "sub_one") \/ Move(ll_pc, t, "link_back", "return")
  /\ ll_ready = ll_next[ll_last[t]]
  /\ ll_ready' = ll_list[t]
  /\ UNCHANGED <<ll_head, ll_ths, llHeap, llLocals, ll_call, ll_ret>>

LlSubOne(t) ==
  /\ Move(ll_pc, t, "sub_one", "return")
  /\ ll_ths' = ll_ths - 1
  /\ UNCHANGED <<ll_head, ll_ready, llHeap, llLocals, ll_call, ll_ret>>

(* A thread is about to follow a null pointer: the program has no meaning  *)
(* after that.                                                             *)
LlNullNode == \E t \in Threads : ll_pc[t] \in {"pend", "put_back"} /\ ll_list[t] = 0

LlRun(t) ==
  \/ LlNew(t) \/ LlPush(t) \/ LlAdd(t) \/ LlLoad(t) \/ LlTake(t) \/ LlSwap(t)
  \/ LlAlone(t) \/ LlDelete(t) \/ LlSub(t) \/ LlPend(t) \/ LlLink(t) \/ LlSubOne(t)
  \/ LlReturn(t)

LlNext == \E t \in Threads : ~LlNullNode /\ (LlCall(t) \/ LlRun(t))

LlSpec == LlInit /\ [][LlNext]_llVars

-----------------------------------------------------------------------------
(* Every variable keeps its type. *)
LlTypeOK ==
  /\ {ll_head, ll_ready} \subseteq Nodes \cup {0}
  /\ ll_ths \in 0 .. Cardinality(Threads)
  /\ ll_data \in [Nodes -> Values \cup {Null}]
  /\ ll_next \in [Nodes -> Nodes \cup {0}]
  /\ ll_live \subseteq Nodes
  /\ ll_raw \in [Threads -> Nodes \cup {0}]
  /\ ll_list \in [Threads -> Nodes \cup {0}]
  /\ ll_last \in [Threads -> Nodes \cup {0}]

(* The nodes that thread t follows a pointer to, now or later. *)
LlHolds(t) ==
  CASE ll_pc[t] \in {"push", "take", "swap", "alone", "delete"} -> {ll_raw[t]} \ {0}
    [] ll_pc[t] \in {"pend", "link"} -> {ll_list[t]} \ {0}
    [] ll_pc[t] \in {"sub", "put_back"} -> LlNodesOf(ll_list[t])
    [] ll_pc[t] = "link_back" ->
         LET c == LlChain(ll_list[t])
         IN {c[i] : i \in {k \in DOMAIN c : \A m \in 1 .. k - 1 : c[m] # ll_last[t]}}
    [] OTHER -> {}

(* No node is touched after its deletion: neither the stack, nor the       *)
(* pending list, nor a thread that loaded the head and lost the race for   *)
(* it, leads to a node that is gone.                                       *)
LlNoDeadNode ==
  LlNodesOf(ll_head) \cup LlNodesOf(ll_ready) \cup UNION {LlHolds(t) : t \in Threads} \subseteq ll_live

(* Every node is in the hands of exactly one: the stack, the pending list, *)
(* or one thread; so each is deleted once, and none is forgotten.          *)
LlOneOwner ==
  LET owned(t) == LlHolds(t) \ (IF ll_pc[t] = "take" THEN {ll_raw[t]} ELSE {})
      parts == <<LlNodesOf(ll_head), LlNodesOf(ll_ready)>>
  IN /\ parts[1] \cap parts[2] = {}
     /\ \A t \in Threads :
          /\ owned(t) \cap (parts[1] \cup parts[2]) = {}
          /\ \A u \in Threads \ {t} : owned(t) \cap owned(u) = {}
     /\ ll_live = parts[1] \cup parts[2] \cup UNION {owned(t) : t \in Threads}

(* ll_stack is a linearizable stack, as long as no thread follows a null   *)
(* pointer.                                                                *)
LlLifo ==
  INSTANCE LifoStack WITH s <- DataOf(LlChain(ll_head), ll_data),
                          call <- ll_call, ret <- ll_ret
LlImplementsLifo == LlLifo!Spec

(* pull() of a stack "designed for low load" (README.md:25) may be called  *)
(* by two threads at once, also when the stack is empty.                   *)
LlNoNullNode == ~LlNullNode
=============================================================================
