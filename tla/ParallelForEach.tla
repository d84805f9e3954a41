---------------------------- MODULE ParallelForEach ----------------------------
(***************************************************************************)
(* parallel_for_each (con_algo.h:54-94) and get_task (con_utility.h:55-68).*)
(* The caller submits a task for each chunk of two elements, then gets one *)
(* future after the other.  The task of chunk 1 takes the callable __f     *)
(* away with it: later ones get what moving from it leaves.                *)
(***************************************************************************)
EXTENDS AlgoPool

CONSTANT Length      \* of the range; its elements are 1 .. Length

ToVisit == 1 .. Length
min_elements_in_chunk == 2
chunks == (Length + min_elements_in_chunk - 1) \div min_elements_in_chunk

ASSUME LengthAssumption == Length \in Nat /\ chunks <= MaxJobs

VARIABLES
  idx,       \* the chunk that is submitted or waited for
  callable,  \* __f after it was moved from: "same", "throws" when called, "hollow"
  visits     \* visits[e]: how often f, as it was given, was called with element e

eachVars == <<idx, callable, visits>>

EachInit ==
  /\ AlgoPoolInit
  /\ idx = 1 /\ callable = "same" /\ visits = [e \in ToVisit |-> 0]

ChunkEnd(i) == IF i = chunks THEN Length ELSE i * min_elements_in_chunk

ForEachCall ==
  /\ phase = "none"
  /\ phase' = IF Length = 0 THEN "visited" ELSE "submit"
  /\ \E c \in {"same", "throws", "hollow"} : callable' = c
  /\ UNCHANGED <<jobs, dozing, running, promised, idx, visits>>

ForEachSubmits ==
  /\ phase = "submit"
  /\ SubmitJob(idx)
  /\ \/ idx = chunks /\ phase' = "get" /\ idx' = 1
     \/ idx < chunks /\ idx' = idx + 1 /\ UNCHANGED phase
  /\ UNCHANGED <<running, promised, callable, visits>>

(* Mutant: the future is dropped, with the exception in it. *)
GetsNothing ==
  /\ phase = "get"
  /\ \/ idx = chunks /\ phase' = "visited" /\ UNCHANGED idx
     \/ idx < chunks /\ idx' = idx + 1 /\ UNCHANGED phase
  /\ UNCHANGED <<jobs, dozing, running, promised, callable, visits>>

ForEachGets ==
  /\ phase = "get"
  /\ \/ promised[idx] = "exception" /\ phase' = "visit_threw" /\ UNCHANGED idx
     \/ promised[idx] = "value" /\ idx = chunks /\ phase' = "visited" /\ UNCHANGED idx
     \/ promised[idx] = "value" /\ idx < chunks /\ idx' = idx + 1 /\ UNCHANGED phase
  /\ UNCHANGED <<jobs, dozing, running, promised, callable, visits>>

(* get_task: the future of chunk i gets TRUE, or the exception of f. *)
Fulfils(w, i, r) ==
  /\ promised' = [promised EXCEPT ![i] = r]
  /\ running' = [running EXCEPT ![w] = << >>]

(* The loop over chunk i, which has called f for "at" of its elements.     *)
Visit(w, i, at) ==
  LET e == (i - 1) * min_elements_in_chunk + at + 1 IN
  /\ At(w, i, at)
  /\ \/ e > ChunkEnd(i) /\ Fulfils(w, i, "value") /\ UNCHANGED visits
     \/ e <= ChunkEnd(i) /\ Fulfils(w, i, "exception") /\ UNCHANGED visits
     \/ /\ e <= ChunkEnd(i) /\ ~(i > 1 /\ callable = "throws")
        /\ running' = [running EXCEPT ![w] = Moves(@, at + 1)]
        /\ visits' = IF i > 1 /\ callable = "hollow" THEN visits ELSE [visits EXCEPT ![e] = @ + 1]
        /\ UNCHANGED promised
  /\ UNCHANGED <<phase, jobs, dozing, idx, callable>>

EachStep(w) ==
  /\ Visiting
  /\ \/ (WorkerTakes(w) \/ WorkerDozes(w)) /\ UNCHANGED eachVars
     \/ \E i \in 1 .. chunks, at \in 0 .. min_elements_in_chunk : Visit(w, i, at)

EachNext == ForEachCall \/ ForEachSubmits \/ ForEachGets \/ \E w \in PoolWorkers : EachStep(w)

(* Threads are scheduled, and a call of f ends. *)
EachFairness ==
  /\ WF_<<algoPoolVars, eachVars>>(ForEachSubmits \/ ForEachGets)
  /\ \A w \in PoolWorkers : WF_<<algoPoolVars, eachVars>>(EachStep(w))

EachSpec == EachInit /\ [][EachNext]_<<algoPoolVars, eachVars>> /\ EachFairness

-----------------------------------------------------------------------------
(* Every variable of the traversal keeps its type. *)
EachTypeOK ==
  /\ idx \in 1 .. chunks + 1 /\ callable \in {"same", "throws", "hollow"}
  /\ visits \in [ToVisit -> Nat]

(* No element is visited twice, and when parallel_for_each returns all     *)
(* were, by the callable that was given: unless moving from it leaves      *)
(* something that can be called and is not the same.  It throws only if a  *)
(* chunk before which all were visited failed.                             *)
ForEachVisitsAll ==
  /\ \A e \in ToVisit : visits[e] <= 1
  /\ phase = "visited" /\ callable # "hollow" => \A e \in ToVisit : visits[e] = 1
  /\ phase = "visit_threw" =>
       /\ promised[idx] = "exception"
       /\ \A i \in 1 .. idx - 1 : promised[i] = "value"

(* parallel_for_each ends, unless the workers slept through a submission:  *)
(* the caller does not help.                                               *)
ForEachReturns == (phase \in {"submit", "get"}) ~> (phase \in {"visited", "visit_threw"} \/ WorkersMissed)
=============================================================================
