------------------------------- MODULE TFuture -------------------------------
(***************************************************************************)
(* t_future (t_future.h): t_async(f).then(g).then(h) ...  Every then()     *)
(* moves the future into a detached thread, which polls it until it is     *)
(* ready, calls the continuation and gives the result to a new future.     *)
(*                                                                         *)
(* Future 0 is the one of t_async(), futures 1 .. Links are those that     *)
(* then() made.  Nothing stops the user from calling then() or get() on a  *)
(* future that was moved away, so the futures form a tree.                 *)
(***************************************************************************)
EXTENDS Integers

CONSTANT Links

ASSUME LinksAssumption == Links \in Nat

Futures == 0 .. Links
Linked == 1 .. Links

VARIABLES
  isVoid,   \* isVoid[f]: future f is a t_future<void>
  source,   \* source[f]: the future that then() made f of
  owned,    \* owned[f]: that future was not yet moved away
  held,     \* held[f]: the user can still call get() and then() on f
  link,     \* link[f]: the thread behind f: "none", "deferred", "poll", "call", "exit", "over"
  result,   \* result[f]: "none", "value", "exception", the latter two stored in f
  calls     \* calls[f]: how many times the callable of f was called

futureShape == <<isVoid, source, owned>>
futureVars == <<futureShape, held, link, result, calls>>

FutureInit ==
  /\ isVoid = [f \in Futures |-> FALSE]
  /\ source = [f \in Futures |-> 0]
  /\ owned = [f \in Futures |-> FALSE]
  /\ held = [f \in Futures |-> FALSE]
  /\ link = [f \in Futures |-> "none"]
  /\ result = [f \in Futures |-> "none"]
  /\ calls = [f \in Futures |-> 0]

(* wait_for() of a future tells ready once its thread is over. *)
Ready(f) == link[f] = "over"

-----------------------------------------------------------------------------
(* The user *)

(* std::async without a policy: a thread, or a call put off until a get(). *)
TAsync ==
  /\ link[0] = "none"
  /\ \E how \in {"call", "deferred"} : link' = [link EXCEPT ![0] = how]
  /\ \E v \in BOOLEAN : isVoid' = [isVoid EXCEPT ![0] = v]
  /\ held' = [held EXCEPT ![0] = TRUE]
  /\ UNCHANGED <<source, owned, result, calls>>

(* then() moves future p, or what is left of it, to the thread of f.       *)
Then(p, f) ==
  /\ link[p] # "none" /\ link[f] = "none"
  /\ \A g \in Linked : g < f => link[g] # "none"
  /\ source' = [source EXCEPT ![f] = p]
  /\ owned' = [owned EXCEPT ![f] = held[p]]
  /\ held' = [held EXCEPT ![p] = FALSE, ![f] = TRUE]
  /\ link' = [link EXCEPT ![f] = "poll"]
  /\ \E v \in BOOLEAN : isVoid' = [isVoid EXCEPT ![f] = v]
  /\ UNCHANGED <<result, calls>>

(* No thread can be started: then() throws, and future p is gone with the  *)
(* callable of the thread.                                                 *)
ThenFails(p) ==
  /\ link[p] # "none" /\ held[p]
  /\ held' = [held EXCEPT ![p] = FALSE]
  /\ UNCHANGED <<futureShape, link, result, calls>>

(* get(): a deferred call is made here. *)
Get(f) ==
  /\ held[f] /\ link[f] \in {"over", "deferred"}
  /\ held' = [held EXCEPT ![f] = FALSE]
  /\ IF link[f] = "over" THEN UNCHANGED <<link, result, calls>>
     ELSE /\ link' = [link EXCEPT ![f] = "over"]
          /\ calls' = [calls EXCEPT ![f] = @ + 1]
          /\ \E r \in {"value", "exception"} : result' = [result EXCEPT ![f] = r]
  /\ UNCHANGED futureShape

-----------------------------------------------------------------------------
(* The threads *)

Calls(f) ==
  /\ calls' = [calls EXCEPT ![f] = @ + 1]
  /\ \E r \in {"value", "exception"} : result' = [result EXCEPT ![f] = r]

DoesNotCall(f) ==
  /\ result' = [result EXCEPT ![f] = "exception"]
  /\ UNCHANGED calls

(* Mutant: the thread does not poll. *)
PollOnce(f) ==
  /\ link[f] = "poll"
  /\ link' = [link EXCEPT ![f] = "call"]
  /\ UNCHANGED <<futureShape, held, result, calls>>

(* Mutant: what wait_for() throws is not passed on. *)
PollForever(f) ==
  /\ link[f] = "poll"
  /\ owned[f] /\ Ready(source[f])
  /\ link' = [link EXCEPT ![f] = "call"]
  /\ UNCHANGED <<futureShape, held, result, calls>>

(* A future without a state makes wait_for() throw.  One that is deferred  *)
(* never tells ready.                                                      *)
Poll(f) ==
  /\ link[f] = "poll"
  /\ \/ /\ ~owned[f]
        /\ DoesNotCall(f) /\ link' = [link EXCEPT ![f] = "exit"]
     \/ /\ owned[f] /\ Ready(source[f])
        /\ link' = [link EXCEPT ![f] = "call"] /\ UNCHANGED <<result, calls>>
  /\ UNCHANGED <<futureShape, held>>

(* spwan_async calls func(_f.get()); spwan_async_void calls func() and     *)
(* never looks at what _f holds.                                           *)
Call(f) ==
  /\ link[f] = "call"
  /\ IF f \in Linked /\ ~isVoid[source[f]] /\ result[source[f]] = "exception"
     THEN DoesNotCall(f) ELSE Calls(f)
  /\ link' = [link EXCEPT ![f] = "exit"]
  /\ UNCHANGED <<futureShape, held>>

(* What set_value_linkthread_exit stored is ready when the thread is over.  *)
Exit(f) ==
  /\ link[f] = "exit"
  /\ link' = [link EXCEPT ![f] = "over"]
  /\ UNCHANGED <<futureShape, held, result, calls>>

ThreadStep(f) == Call(f) \/ Exit(f) \/ (f \in Linked /\ Poll(f))

FutureNext ==
  \/ TAsync
  \/ \E f \in Futures : ThreadStep(f) \/ Get(f) \/ ThenFails(f) \/ (f \in Linked /\ \E p \in Futures : Then(p, f))

FutureFairness == \A f \in Futures : WF_futureVars(ThreadStep(f))

FutureSpec == FutureInit /\ [][FutureNext]_futureVars /\ FutureFairness
-----------------------------------------------------------------------------
(* Every variable of the futures keeps its type. *)
FutureTypeOK ==
  /\ isVoid \in [Futures -> BOOLEAN] /\ owned \in [Futures -> BOOLEAN]
  /\ held \in [Futures -> BOOLEAN] /\ source \in [Futures -> Futures]
  /\ link \in [Futures -> {"none", "deferred", "poll", "call", "exit", "over"}]
  /\ result \in [Futures -> {"none", "value", "exception"}]
  /\ calls \in [Futures -> Nat]

(* A continuation is called at most once, after the future before it is    *)
(* ready, and no two of them get the same future.  If that future carries  *)
(* a value, its exception goes on in place of the call.  A t_future<void>  *)
(* is different: its exception is lost there and the chain goes on.        *)
ThenInOrder ==
  \A f \in Linked :
    /\ calls[f] <= 1
    /\ calls[f] = 1 => owned[f] /\ Ready(source[f])
    /\ owned[f] => /\ ~held[source[f]]
                   /\ \A g \in Linked : owned[g] /\ source[g] = source[f] => g = f
    /\ result[f] = "value" => calls[f] = 1 /\ (isVoid[source[f]] \/ result[source[f]] = "value")
    /\ Ready(f) => result[f] # "none" /\ (calls[f] = 0 => ~owned[f] \/ result[source[f]] = "exception")

(* Future f waits, through futures that were all there, for a deferred one *)
(* that nobody can call get() on any more.                                 *)
Stuck[f \in Futures] == IF f = 0 THEN link[0] = "deferred" /\ ~held[0]
                        ELSE owned[f] /\ Stuck[source[f]]

(* Every then() makes a future that gets ready, also of a future that was  *)
(* moved away or holds an exception, unless the chain begins with a call   *)
(* that std::async deferred: its thread then polls forever.                *)
ThenResolves == \A f \in Linked : link[f] = "poll" ~> Ready(f) \/ Stuck[f]
=============================================================================
