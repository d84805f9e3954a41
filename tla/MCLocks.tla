------------------------------ MODULE MCLocks ------------------------------
(* The locks and rcu_t for TLC, one state space each: "which" says the one *)
(* that runs.  A thread comes back to mcs_lock as often as it likes; the   *)
(* other locks are not fair, and threads ask for them MaxRounds times.     *)
EXTENDS Locks, Bitwise

CONSTANT MaxRounds

VARIABLES which, rounds

MCBitAnd(a, b) == a & b

mcvars == <<which, rounds, mcsVars, spinVars, rwVars, seqVars, rcuVars>>

MCInit ==
  /\ which \in {"mcs", "spin", "rw", "seq", "rcu"}
  /\ rounds = 0
  /\ McsInit /\ SpinInit /\ RwInit /\ SeqInit /\ RcuInit

Asks == rounds < MaxRounds /\ rounds' = rounds + 1

MCMcs ==
  /\ which = "mcs"
  /\ McsNext
  /\ UNCHANGED <<which, rounds, spinVars, rwVars, seqVars, rcuVars>>

MCSpin ==
  /\ which = "spin"
  /\ \E t \in Threads : (SpinAsk(t) /\ Asks) \/ (SpinRun(t) /\ UNCHANGED rounds)
  /\ UNCHANGED <<which, mcsVars, rwVars, seqVars, rcuVars>>

MCRw ==
  /\ which = "rw"
  /\ \E t \in Threads : (RwAsk(t) /\ Asks) \/ (RwRun(t) /\ UNCHANGED rounds)
  /\ UNCHANGED <<which, mcsVars, spinVars, seqVars, rcuVars>>

MCSeq ==
  /\ which = "seq"
  /\ \E t \in Threads : (SeqBegin(t) /\ Asks) \/ (SeqRun(t) /\ UNCHANGED rounds)
  /\ UNCHANGED <<which, mcsVars, spinVars, rwVars, rcuVars>>

MCRcu ==
  /\ which = "rcu"
  /\ RcuNext
  /\ UNCHANGED <<which, rounds, mcsVars, spinVars, rwVars, seqVars>>

MCNext == MCMcs \/ MCSpin \/ MCRw \/ MCSeq \/ MCRcu

MCSpec == MCInit /\ [][MCNext]_mcvars
            /\ McsFairness /\ SpinFairness /\ RwFairness /\ SeqFairness

(* A guard that waits for mcs_lock gets in, however often the others come  *)
(* back.  A thread that spins on another lock gets in, and a reader that   *)
(* retries finishes, if the others stop: no unlock leaves the word in a    *)
(* state that nobody can take.                                             *)
EveryoneGetsIn ==
  McsNoStarvation /\ SpinEveryoneGetsIn /\ RwEveryoneGetsIn /\ SeqReadersFinish
=============================================================================
