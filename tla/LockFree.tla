------------------------------ MODULE LockFree ------------------------------
(* What the lock-free stacks and hl_queue have in common: elements, and    *)
(* nodes that are allocated, deleted, and allocated again.                 *)
EXTENDS LockThreads, Integers, Sequences, FiniteSets

CONSTANTS Values,     \* the elements
          Nodes,      \* the addresses a node may have; 0 is null
          MaxCount    \* bound: the external counts of hl_stack and hl_queue stop here

ASSUME NodesAssumption == Nodes \subseteq Nat \ {0} /\ IsFiniteSet(Nodes)
ASSUME CallersAssumption == IsFiniteSet(Threads)
ASSUME ElementsAssumption == Null \notin Values

(* operator new returns the first address that is not in use. *)
FirstFree(n, live) == n \in Nodes \ live /\ \A m \in Nodes \ live : n <= m

(* Where next leads to from the node first, in as many steps as there are  *)
(* nodes: once it is at null it stays there.                               *)
Walk(first, next) ==
  LET follow == [n \in Nodes \cup {0} |-> IF n = 0 THEN 0 ELSE next[n]]
      at[k \in 1 .. Cardinality(Nodes)] == IF k = 1 THEN first ELSE follow[at[k - 1]]
  IN at

(* The nodes on the way; a list with a cycle is cut.                       *)
ChainFrom(first, next) ==
  LET at == Walk(first, next)
  IN [k \in 1 .. Cardinality({i \in DOMAIN at : at[i] # 0}) |-> at[k]]

NodesOf(c) == {c[i] : i \in DOMAIN c}
DataOf(c, data) == [i \in DOMAIN c |-> data[c[i]]]
=============================================================================
