----------------------------- MODULE FifoQueue -----------------------------
(***************************************************************************)
(* What normal_queue promises its callers: a FIFO queue whose operations   *)
(* take effect in one step between the call and the return.  Closing is    *)
(* one-way.  A push or a pull that BEGINS after the close has no effect on *)
(* the elements; one that began before it may still go either way.         *)
(***************************************************************************)
EXTENDS Sequences

CONSTANTS Threads, Values, Null

VARIABLES q,        \* the elements, oldest first
          closed,   \* close() took effect
          call,     \* call[t]: the pending call of thread t, or Idle
          ret       \* ret[t]: the result of the call, NoRet until it has taken effect

vars == <<q, closed, call, ret>>

Ops == {"push", "try_push", "pull", "try_pull", "empty", "closed", "close"}
Pushes == {"push", "try_push"}

Idle == [op |-> "none", arg |-> Null, late |-> FALSE]
NoRet == [status |-> "none", val |-> Null]
Result(s, v) == [status |-> s, val |-> v]

Init ==
  /\ q = << >>
  /\ closed = FALSE
  /\ call = [t \in Threads |-> Idle]
  /\ ret = [t \in Threads |-> NoRet]

Pending(t, ops) == call[t].op \in ops /\ ret[t] = NoRet

TakesEffect(t, s, v) ==
  /\ ret' = [ret EXCEPT ![t] = Result(s, v)]
  /\ UNCHANGED call

(* The call is made; late says that it began after the close. *)
Call(t, o, v) ==
  /\ call[t] = Idle
  /\ call' = [call EXCEPT ![t] = [op |-> o, arg |-> v, late |-> closed]]
  /\ UNCHANGED <<q, closed, ret>>

(* The element joins the end of the queue. *)
Enq(t) ==
  /\ Pending(t, Pushes)
  /\ call[t].op = "push" => ~call[t].late
  /\ q' = Append(q, call[t].arg)
  /\ TakesEffect(t, "success", Null)
  /\ UNCHANGED closed

EnqClosed(t) ==
  /\ Pending(t, {"push"})
  /\ closed
  /\ TakesEffect(t, "throw", Null)
  /\ UNCHANGED <<q, closed>>

(* The oldest element leaves the queue and is the result. *)
Deq(t) ==
  /\ Pending(t, {"pull", "try_pull"})
  /\ call[t].op = "pull" => ~call[t].late
  /\ q # << >>
  /\ q' = Tail(q)
  /\ TakesEffect(t, "success", Head(q))
  /\ UNCHANGED closed

DeqClosed(t) ==
  /\ Pending(t, {"pull"})
  /\ closed
  /\ TakesEffect(t, "closed", Null)
  /\ UNCHANGED <<q, closed>>

DeqEmpty(t) ==
  /\ Pending(t, {"try_pull"})
  /\ q = << >>
  /\ TakesEffect(t, "empty", Null)
  /\ UNCHANGED <<q, closed>>

Observe(t) ==
  /\ \/ /\ Pending(t, {"empty"})
        /\ TakesEffect(t, IF q = << >> THEN "empty" ELSE "nonempty", Null)
     \/ /\ Pending(t, {"closed"})
        /\ TakesEffect(t, IF closed THEN "closed" ELSE "open", Null)
  /\ UNCHANGED <<q, closed>>

Close(t) ==
  /\ Pending(t, {"close"})
  /\ closed' = TRUE
  /\ TakesEffect(t, "success", Null)
  /\ UNCHANGED q

Return(t) ==
  /\ call[t] # Idle
  /\ ret[t] # NoRet
  /\ call' = [call EXCEPT ![t] = Idle]
  /\ ret' = [ret EXCEPT ![t] = NoRet]
  /\ UNCHANGED <<q, closed>>

Next ==
  \E t \in Threads :
    \/ \E o \in Ops \ Pushes : Call(t, o, Null)
    \/ \E o \in Pushes, v \in Values : Call(t, o, v)
    \/ Enq(t) \/ EnqClosed(t)
    \/ Deq(t) \/ DeqClosed(t) \/ DeqEmpty(t)
    \/ Observe(t) \/ Close(t) \/ Return(t)

Spec == Init /\ [][Next]_vars
=============================================================================
