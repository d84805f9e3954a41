------------------------------ MODULE MCControl ------------------------------
(* ctr_pool, interrupt_wait() and t_future for TLC, one state space each:  *)
(* "which" says the one that runs.  Nothing of the others begins.          *)
EXTENDS CtrPool, Interrupt, TFuture

VARIABLE which

mcvars == <<which, ctrVars, intrVars, futureVars>>

MCInit ==
  /\ which \in {"ctr_pool", "interrupt_wait", "futures"}
  /\ CtrInit /\ IntrInit /\ FutureInit

MCCtrPool == which = "ctr_pool" /\ CtrNext /\ UNCHANGED <<intrVars, futureVars>>
MCInterrupt == which = "interrupt_wait" /\ IntrNext /\ UNCHANGED <<ctrVars, futureVars>>
MCFuture == which = "futures" /\ FutureNext /\ UNCHANGED <<ctrVars, intrVars>>

MCNext == (MCCtrPool \/ MCInterrupt \/ MCFuture) /\ UNCHANGED which

MCSpec == MCInit /\ [][MCNext]_mcvars /\ CtrFairness /\ IntrFairness /\ FutureFairness

(* interrupt() returns, and an interrupted wait for a condition_variable   *)
(* or a future ends.                                                       *)
IntrIsAnswered == IntrReturns /\ IntrDelivered

(* Every variable of every part keeps its type. *)
TypesOK == CtrTypeOK /\ IntrTypeOK /\ FutureTypeOK
=============================================================================
