--------------------------- MODULE OwnershipProofs ---------------------------
(***************************************************************************)
(* Who has the result of a future: chains and trees of any size.           *)
(***************************************************************************)
EXTENDS TFuture, TLAPS

-----------------------------------------------------------------------------
(* t_future: the inductive invariant, part by part. *)

(* What then() took away from the user is in one thread. *)
OwnedInv(f) ==
  owned[f] =>
    /\ link[f] # "none" /\ link[source[f]] # "none" /\ ~held[source[f]]
    /\ \A g \in Linked : owned[g] /\ source[g] = source[f] => g = f

(* The thread of f calls nothing before the future it took is ready. *)
TurnInv(f) ==
  /\ link[f] # "deferred"
  /\ link[f] \in {"none", "poll", "call"} => calls[f] = 0 /\ result[f] = "none"
  /\ link[f] = "call" => owned[f] /\ Ready(source[f])

(* A thread that is done has called, or passed an exception on. *)
DoneInv(f) ==
  link[f] \in {"exit", "over"} =>
    \/ /\ calls[f] = 1 /\ owned[f] /\ Ready(source[f])
       /\ isVoid[source[f]] \/ result[source[f]] = "value"
    \/ /\ calls[f] = 0 /\ result[f] = "exception"
       /\ owned[f] => result[source[f]] = "exception" /\ Ready(source[f])

(* What is ready holds something, that of t_async() as well. *)
ResultInv == \A f \in Futures : link[f] \in {"exit", "over"} => result[f] # "none"

FutureInv ==
  /\ FutureTypeOK /\ ResultInv
  /\ \A f \in Linked : OwnedInv(f) /\ TurnInv(f) /\ DoneInv(f)

-----------------------------------------------------------------------------
(* The futures are the first one and the links that then() makes. *)
LEMMA WhichFutures == Futures = Linked \cup {0} /\ 0 \notin Linked /\ Links \in Nat
  BY LinksAssumption DEF LinksAssumption, Futures, Linked

(* Before t_async() there is no future. *)
LEMMA FutureInitInv == FutureInit => FutureInv
  BY WhichFutures DEF FutureInit, FutureInv, FutureTypeOK, ResultInv, OwnedInv, TurnInv, DoneInv

(* A step of one future that is not ready yet, after which the user holds  *)
(* no more futures, leaves those that wait for it and the others alone.    *)
LEMMA StepOfOne ==
  ASSUME FutureInv, NEW f \in Futures, NEW l, NEW r, NEW n,
         link' = [link EXCEPT ![f] = l], result' = [result EXCEPT ![f] = r],
         calls' = [calls EXCEPT ![f] = n], UNCHANGED futureShape,
         held' \in [Futures -> BOOLEAN], \A g \in Futures : held'[g] => held[g],
         l \in {"poll", "call", "exit", "over"}, n \in Nat,
         link[f] \in {"deferred", "poll", "call", "exit"},
         \/ l = "call" /\ r = "none"
         \/ l \in {"exit", "over"} /\ r \in {"value", "exception"},
         f \in Linked => TurnInv(f)' /\ DoneInv(f)'
  PROVE  FutureInv'
<1> USE WhichFutures DEF FutureInv, futureShape, Ready
<1>1. FutureTypeOK'
  BY DEF FutureTypeOK
<1>2. ResultInv'
  BY DEF FutureTypeOK, ResultInv
<1>3. ASSUME NEW g \in Linked PROVE OwnedInv(g)'
  BY <1>3 DEF FutureTypeOK, OwnedInv
<1>4. ASSUME NEW g \in Linked, g # f PROVE TurnInv(g)' /\ DoneInv(g)'
  BY <1>4 DEF FutureTypeOK, TurnInv, DoneInv
<1> QED
  BY <1>1, <1>2, <1>3, <1>4

-----------------------------------------------------------------------------
(* t_async() makes the first future, which std::async may defer. *)
LEMMA TAsyncInv == FutureInv /\ TAsync => FutureInv'
<1> SUFFICES ASSUME FutureInv, TAsync PROVE FutureInv'
  OBVIOUS
<1> USE WhichFutures DEF FutureInv, TAsync, Ready
<1>1. FutureTypeOK'
  BY DEF FutureTypeOK
<1>2. ResultInv'
  BY DEF FutureTypeOK, ResultInv
<1>3. ASSUME NEW g \in Linked PROVE OwnedInv(g)' /\ TurnInv(g)' /\ DoneInv(g)'
  BY <1>3 DEF FutureTypeOK, OwnedInv, TurnInv, DoneInv
<1> QED
  BY <1>1, <1>2, <1>3

(* then() makes a link; what it takes is not taken yet. *)
LEMMA ThenInv ==
  ASSUME FutureInv, NEW p \in Futures, NEW f \in Linked, Then(p, f) PROVE FutureInv'
<1> USE WhichFutures DEF FutureInv, Then, Ready
<1>1. FutureTypeOK'
  BY DEF FutureTypeOK
<1>2. ResultInv'
  BY DEF FutureTypeOK, ResultInv
<1>3. p # f
  OBVIOUS
<1>4. ASSUME NEW g \in Linked PROVE OwnedInv(g)'
  <2>1. CASE g = f
    BY <1>3, <2>1 DEF FutureTypeOK, OwnedInv
  <2>2. CASE g # f
    BY <1>3, <2>2 DEF FutureTypeOK, OwnedInv
  <2> QED
    BY <2>1, <2>2
<1>5. ASSUME NEW g \in Linked PROVE TurnInv(g)' /\ DoneInv(g)'
  <2>1. CASE g = f
    BY <1>3, <2>1 DEF FutureTypeOK, TurnInv, DoneInv
  <2>2. CASE g # f
    BY <1>3, <2>2 DEF FutureTypeOK, TurnInv, DoneInv, OwnedInv
  <2> QED
    BY <2>1, <2>2
<1> QED
  BY <1>1, <1>2, <1>4, <1>5

(* A link that got nothing holds an exception. *)
LEMMA ThenFailsInv ==
  ASSUME FutureInv, NEW p \in Futures, ThenFails(p) PROVE FutureInv'
  BY WhichFutures
     DEF FutureInv, ThenFails, Ready, futureShape, FutureTypeOK, ResultInv, OwnedInv, TurnInv, DoneInv

(* The user gets a result, and runs a call that was deferred. *)
LEMMA GetInv ==
  ASSUME FutureInv, NEW f \in Futures, Get(f) PROVE FutureInv'
<1> USE WhichFutures DEF FutureInv, Get, Ready, futureShape
<1>1. CASE link[f] = "over"
  BY <1>1 DEF FutureTypeOK, ResultInv, OwnedInv, TurnInv, DoneInv
<1>2. CASE link[f] = "deferred"
  <2>1. PICK r \in {"value", "exception"} : result' = [result EXCEPT ![f] = r]
    BY <1>2
  <2>2. f \notin Linked
    BY <1>2 DEF TurnInv
  <2>3. /\ calls' = [calls EXCEPT ![f] = calls[f] + 1] /\ calls[f] + 1 \in Nat
        /\ held' \in [Futures -> BOOLEAN] /\ \A g \in Futures : held'[g] => held[g]
    BY <1>2 DEF FutureTypeOK
  <2> QED
    BY <1>2, <2>1, <2>2, <2>3, StepOfOne
<1> QED
  BY <1>1, <1>2

(* The thread of a link looks at the future it took. *)
LEMMA PollInv ==
  ASSUME FutureInv, NEW f \in Linked, Poll(f) PROVE FutureInv'
<1> USE WhichFutures DEF FutureInv, Poll, DoesNotCall, futureShape
<1>1. PICK l \in {"call", "exit"}, r \in {"none", "exception"} :
        /\ link' = [link EXCEPT ![f] = l] /\ result' = [result EXCEPT ![f] = r]
        /\ calls' = [calls EXCEPT ![f] = 0] /\ (l = "call" <=> r = "none")
        /\ IF l = "call" THEN owned[f] /\ Ready(source[f]) ELSE ~owned[f]
  BY DEF FutureTypeOK, TurnInv
<1>2. TurnInv(f)' /\ DoneInv(f)'
  BY <1>1 DEF FutureTypeOK, TurnInv, DoneInv, Ready
<1>3. held' \in [Futures -> BOOLEAN] /\ \A g \in Futures : held'[g] => held[g]
  BY DEF FutureTypeOK
<1> QED
  BY <1>1, <1>2, <1>3, StepOfOne

(* A thread calls its function, or passes an exception on. *)
LEMMA CallInv ==
  ASSUME FutureInv, NEW f \in Futures, Call(f) PROVE FutureInv'
<1> USE WhichFutures DEF FutureInv, Call, Calls, DoesNotCall, futureShape
<1>1. PICK r \in {"value", "exception"}, n \in {calls[f], calls[f] + 1} :
        /\ result' = [result EXCEPT ![f] = r] /\ calls' = [calls EXCEPT ![f] = n]
        /\ f \in Linked =>
             IF n = calls[f] THEN r = "exception" /\ result[source[f]] = "exception"
             ELSE isVoid[source[f]] \/ result[source[f]] # "exception"
  BY DEF FutureTypeOK
<1>2. ASSUME f \in Linked PROVE TurnInv(f)' /\ DoneInv(f)'
  <2>1. /\ calls[f] = 0 /\ owned[f] /\ Ready(source[f]) /\ source[f] # f
        /\ result[source[f]] \in {"value", "exception"}
    BY <1>2 DEF FutureTypeOK, TurnInv, ResultInv, Ready
  <2> QED
    BY <1>1, <1>2, <2>1 DEF FutureTypeOK, TurnInv, DoneInv, Ready
<1>3. held' \in [Futures -> BOOLEAN] /\ \A g \in Futures : held'[g] => held[g]
  BY DEF FutureTypeOK
<1>4. n \in Nat
  BY <1>1 DEF FutureTypeOK
<1> QED
  BY <1>1, <1>2, <1>3, <1>4, StepOfOne

(* A thread ends, and its future is ready. *)
LEMMA ExitInv ==
  ASSUME FutureInv, NEW f \in Futures, Exit(f) PROVE FutureInv'
<1> USE WhichFutures DEF FutureInv, Exit, futureShape
<1>1. PICK r \in {"value", "exception"}, n \in Nat :
        result' = [result EXCEPT ![f] = r] /\ calls' = [calls EXCEPT ![f] = n]
  BY DEF FutureTypeOK, ResultInv
<1>2. ASSUME f \in Linked PROVE TurnInv(f)' /\ DoneInv(f)'
  BY <1>2 DEF FutureTypeOK, TurnInv, DoneInv, Ready
<1>3. held' \in [Futures -> BOOLEAN] /\ \A g \in Futures : held'[g] => held[g]
  BY DEF FutureTypeOK
<1> QED
  BY <1>1, <1>2, <1>3, StepOfOne

(* Every step keeps the invariant of the futures. *)
LEMMA FutureStepInv == FutureInv /\ [FutureNext]_futureVars => FutureInv'
<1> SUFFICES ASSUME FutureInv, [FutureNext]_futureVars PROVE FutureInv'
  OBVIOUS
<1>1. CASE UNCHANGED futureVars
  BY <1>1 DEF futureVars, futureShape, FutureInv, FutureTypeOK, ResultInv, OwnedInv, TurnInv,
              DoneInv, Ready
<1>2. CASE FutureNext
  BY <1>2, TAsyncInv, ThenInv, ThenFailsInv, GetInv, PollInv, CallInv, ExitInv
     DEF FutureNext, ThreadStep
<1> QED
  BY <1>1, <1>2

-----------------------------------------------------------------------------
(* The futures keep their types, and every thread of then() has one place  *)
(* in its chain.                                                           *)
THEOREM FutureInvariance == FutureSpec => []FutureInv
<1> QED
  BY FutureInitInv, FutureStepInv, PTL DEF FutureSpec

(* However the threads and the user of the futures interleave, a           *)
(* continuation is called at most once, with the result before it.         *)
THEOREM ContinuationsInOrder == FutureSpec => []ThenInOrder
<1>1. FutureInv => ThenInOrder
  <2> SUFFICES ASSUME FutureInv, NEW f \in Linked
               PROVE  /\ calls[f] <= 1
                      /\ calls[f] = 1 => owned[f] /\ Ready(source[f])
                      /\ owned[f] => /\ ~held[source[f]]
                                     /\ \A g \in Linked : owned[g] /\ source[g] = source[f] => g = f
                      /\ result[f] = "value" =>
                           calls[f] = 1 /\ (isVoid[source[f]] \/ result[source[f]] = "value")
                      /\ Ready(f) =>
                           result[f] # "none" /\ (calls[f] = 0 => ~owned[f] \/ result[source[f]] = "exception")
    BY DEF ThenInOrder
  <2>1. link[f] \in {"none", "poll", "call", "exit", "over"}
    BY WhichFutures DEF FutureInv, FutureTypeOK, TurnInv
  <2>2. \/ calls[f] = 0 /\ result[f] = "none"
        \/ link[f] \in {"exit", "over"} /\ DoneInv(f)
    BY <2>1 DEF FutureInv, TurnInv
  <2> QED
    BY <2>2, WhichFutures DEF FutureInv, FutureTypeOK, ResultInv, OwnedInv, TurnInv, DoneInv, Ready
<1> QED
  BY <1>1, FutureInvariance, PTL
=============================================================================
