---------------------------- MODULE LockThreads ----------------------------
(* The threads that use a lock, and how one of them takes a step. *)
CONSTANTS Threads, Null

ASSUME NullAssumption == Null \notin Threads

(* Thread t is at the label from in the program counters pc, and moves to. *)
Move(pc, t, from, to) == pc[t] = from /\ pc' = [pc EXCEPT ![t] = to]
=============================================================================
