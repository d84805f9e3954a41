------------------------------ MODULE RwSpLock ------------------------------
(***************************************************************************)
(* rw_sp_lock (rw_lock.h): one word, R_FREE + the number of readers, or 0  *)
(* while a writer has the lock.  A reader may come in while the bit R_FREE *)
(* is set, a writer when there are no readers.                             *)
(***************************************************************************)
EXTENDS LockThreads, Naturals, FiniteSets

CONSTANTS R_FREE,   \* the bit R_FREE, 0x01000000 in the code
          Width     \* the values of the word, 2^32 in the code

W_FREE == 0

ASSUME RFreeAssumption == R_FREE \in Nat \ {0}
ASSUME WidthAssumption == Width \in Nat /\ 2 * R_FREE < Width
ASSUME FiniteAssumption == IsFiniteSet(Threads)

VARIABLES cnt,      \* the word
          rw_pc,       \* the next step of thread t
          old       \* the local old of r_lock

rwVars == <<cnt, rw_pc, old>>

RwInit ==
  /\ cnt = R_FREE
  /\ rw_pc = [t \in Threads |-> "out"]
  /\ old = [t \in Threads |-> 0]

(* x & R_FREE: R_FREE is a power of two. *)
FreeBit(x) == (x \div R_FREE) % 2 = 1

RwAsk(t) ==
  /\ Move(rw_pc, t, "out", "r_load") \/ Move(rw_pc, t, "out", "w_cas")
  /\ UNCHANGED <<cnt, old>>

RLoad(t) ==
  /\ FreeBit(cnt)
  /\ Move(rw_pc, t, "r_load", "r_cas")
  /\ old' = [old EXCEPT ![t] = cnt]
  /\ UNCHANGED cnt

(* Mutant: a reader adds one without comparing. *)
RAdds(t) ==
  /\ Move(rw_pc, t, "r_cas", "reading")
  /\ cnt' = (cnt + 1) % Width
  /\ old' = [old EXCEPT ![t] = 0]

RCas(t) ==
  /\ \/ /\ cnt = old[t]
        /\ Move(rw_pc, t, "r_cas", "reading")
        /\ cnt' = (old[t] + 1) % Width
     \/ /\ cnt # old[t]
        /\ Move(rw_pc, t, "r_cas", "r_load")
        /\ UNCHANGED cnt
  /\ old' = [old EXCEPT ![t] = 0]

(* A compare_exchange that fails changes nothing: w_lock tries again. *)
WCas(t) ==
  /\ cnt = R_FREE
  /\ Move(rw_pc, t, "w_cas", "writing")
  /\ cnt' = W_FREE
  /\ UNCHANGED old

RUnlock(t) ==
  /\ Move(rw_pc, t, "reading", "out")
  /\ cnt' = (cnt + Width - 1) % Width
  /\ UNCHANGED old

WUnlock(t) ==
  /\ Move(rw_pc, t, "writing", "out")
  /\ cnt' = R_FREE
  /\ UNCHANGED old

RwRun(t) == RLoad(t) \/ RCas(t) \/ WCas(t) \/ RUnlock(t) \/ WUnlock(t)

RwNext == \E t \in Threads : RwAsk(t) \/ RwRun(t)

RwSpec == RwInit /\ [][RwNext]_rwVars
RwFairness == \A t \in Threads : WF_rwVars(RwRun(t))

-----------------------------------------------------------------------------
RwLabels == {"out", "r_load", "r_cas", "reading", "w_cas", "writing"}

(* Every variable keeps its type. *)
RwTypeOK ==
  /\ cnt \in 0 .. Width - 1
  /\ rw_pc \in [Threads -> RwLabels]
  /\ old \in [Threads -> 0 .. Width - 1]

Readers == {t \in Threads : rw_pc[t] = "reading"}
Writers == {t \in Threads : rw_pc[t] = "writing"}

(* A writer is alone.  It takes the lock with one compare-and-swap, while  *)
(* a reader loads the word first and adds to it later.                     *)
RwExclusion == \A w \in Writers : Writers = {w} /\ Readers = {}

(* The word counts the readers, also when their number reaches the bit     *)
(* R_FREE and carries into the next: then no reader comes in, and the lock *)
(* does not look free to a writer.                                         *)
RwWordCountsReaders ==
  /\ Cardinality(Readers) <= R_FREE
  /\ cnt = IF Writers = {} THEN R_FREE + Cardinality(Readers) ELSE W_FREE

(* Whoever asks for the lock gets it, if the others stop asking. *)
RwEveryoneGetsIn ==
  \A t \in Threads : (rw_pc[t] \in {"r_load", "w_cas"}) ~> (rw_pc[t] \in {"reading", "writing"})
=============================================================================
