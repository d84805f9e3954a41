------------------------------ MODULE SpinLock ------------------------------
(***************************************************************************)
(* spin_lock and its lock_guard (simple_spinlock.h): one pointer, to the   *)
(* guard that has the lock.                                                *)
(***************************************************************************)
EXTENDS LockThreads

VARIABLES lock,   \* the thread whose guard has the lock, or Null
          spin_pc      \* the next step of thread t

spinVars == <<lock, spin_pc>>

SpinInit == lock = Null /\ spin_pc = [t \in Threads |-> "out"]

SpinAsk(t) == Move(spin_pc, t, "out", "cas") /\ UNCHANGED lock

(* The compare-and-swap of the constructor, tried until it succeeds. *)
SpinCas(t) ==
  /\ lock = Null
  /\ Move(spin_pc, t, "cas", "in")
  /\ lock' = t

SpinUnlock(t) == Move(spin_pc, t, "in", "out") /\ lock' = Null

SpinRun(t) == SpinCas(t) \/ SpinUnlock(t)
SpinNext == \E t \in Threads : SpinAsk(t) \/ SpinRun(t)

SpinSpec == SpinInit /\ [][SpinNext]_spinVars
SpinFairness == \A t \in Threads : WF_spinVars(SpinRun(t))

-----------------------------------------------------------------------------
(* The lock has one holder: the guard whose address the word is. *)
SpinMutualExclusion == \A t \in Threads : spin_pc[t] = "in" <=> lock = t

(* A thread that spins gets in, if the others stop coming back. *)
SpinEveryoneGetsIn == \A t \in Threads : (spin_pc[t] = "cas") ~> (spin_pc[t] = "in")
=============================================================================
