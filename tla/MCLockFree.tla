----------------------------- MODULE MCLockFree -----------------------------
(* Who owns which node or object: the lock-free stacks, hl_queue, variant  *)
(* and any for TLC, one state space each: "which" says the one that runs.  *)
(* Threads make MaxCalls calls of a stack, MaxQueueCalls of the queue.     *)
EXTENDS HlStack, LlStack, HlQueue, Holders

CONSTANTS MaxCalls, MaxQueueCalls

VARIABLES which, calls

mcvars == <<which, calls, hsVars, llVars, hqVars, holderVars>>

MCInit ==
  /\ which \in {"hl_stack", "ll_stack", "hl_queue", "holders"}
  /\ calls = 0
  /\ HsInit /\ LlInit /\ HqInit /\ HoldersInit

Calls(max) == calls < max /\ calls' = calls + 1

MCHlStack ==
  /\ which = "hl_stack"
  /\ \E t \in Threads : (HsCall(t) /\ Calls(MaxCalls)) \/ (HsRun(t) /\ UNCHANGED calls)
  /\ UNCHANGED <<which, llVars, hqVars, holderVars>>

MCLlStack ==
  /\ which = "ll_stack"
  /\ ~LlNullNode
  /\ \E t \in Threads : (LlCall(t) /\ Calls(MaxCalls)) \/ (LlRun(t) /\ UNCHANGED calls)
  /\ UNCHANGED <<which, hsVars, hqVars, holderVars>>

MCHlQueue ==
  /\ which = "hl_queue"
  /\ ~HqReused
  /\ \E t \in Threads : (HqCall(t) /\ Calls(MaxQueueCalls)) \/ (HqRun(t) /\ UNCHANGED calls)
  /\ UNCHANGED <<which, hsVars, llVars, holderVars>>

MCHolders ==
  /\ which = "holders"
  /\ HoldersNext
  /\ UNCHANGED <<which, calls, hsVars, llVars, hqVars>>

MCNext == MCHlStack \/ MCLlStack \/ MCHlQueue \/ MCHolders

MCSpec == MCInit /\ [][MCNext]_mcvars

(* Every variable of every part keeps its type. *)
TypesOK == HsTypeOK /\ LlTypeOK /\ HqTypeOK /\ HoldersTypeOK

(* Reclamation is safe: no node is touched after its deletion, or taken    *)
(* for the node that has its address now.                                  *)
NoDeadNode == HsNoDeadNode /\ LlNoDeadNode /\ HqNoDeadNode

(* Every node of a stack is in the list, with a thread or deleted, and the *)
(* list of nodes that ll_stack will delete belongs to one thread.          *)
NodesOwnedOnce == HsNoLeak /\ LlOneOwner

(* The list of hl_queue leads from the head to the tail, and no element    *)
(* is delivered twice.                                                     *)
HqDeliversOnce == HqListIsWhole /\ HqNothingTwice

(* Both stacks are linearizable stacks. *)
ImplementsLifo == HsImplementsLifo /\ LlImplementsLifo
=============================================================================
