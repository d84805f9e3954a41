-------------------------------- MODULE Locks --------------------------------
(* The locks and an rcu_t side by side: they share no state, and a thread  *)
(* that is in one of them may be in another.                               *)
EXTENDS McsLock, SpinLock, RwSpLock, SeqSpLock, Rcu

LocksSpec == McsSpec /\ SpinSpec /\ RwSpec /\ SeqSpec /\ RcuSpec

(* Every variable of every lock keeps its type. *)
TypesOK == McsTypeOK /\ RwTypeOK /\ SeqTypeOK /\ RcuTypeOK

(* Under every interleaving, and at the ends of the width of the words, a  *)
(* writer is alone, readers are not with a writer, and the word of each    *)
(* lock says who is in.                                                    *)
LocksExclude == SpinMutualExclusion /\ RwExclusion /\ RwWordCountsReaders /\ SeqWritersExclude
=============================================================================
