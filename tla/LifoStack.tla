------------------------------ MODULE LifoStack ------------------------------
(* What a stack promises its callers: each operation takes effect in one   *)
(* step between its call and its return, on a LIFO sequence of elements.   *)
EXTENDS Sequences

CONSTANTS Threads, Values, Null

VARIABLES s,        \* the elements, the newest first
          call,     \* call[t]: the pending call of thread t, or Idle
          ret       \* ret[t]: its result, NoRet until it has taken effect

vars == <<s, call, ret>>

Idle == [op |-> "none", arg |-> Null]
NoRet == [status |-> "none", val |-> Null]
Result(st, v) == [status |-> st, val |-> v]

Init ==
  /\ s = << >>
  /\ call = [t \in Threads |-> Idle]
  /\ ret = [t \in Threads |-> NoRet]

Pending(t, o) == call[t].op = o /\ ret[t] = NoRet

TakesEffect(t, st, v) ==
  /\ ret' = [ret EXCEPT ![t] = Result(st, v)]
  /\ UNCHANGED call

Call(t) ==
  /\ call[t] = Idle
  /\ \/ \E v \in Values : call' = [call EXCEPT ![t] = [op |-> "push", arg |-> v]]
     \/ call' = [call EXCEPT ![t] = [op |-> "pull", arg |-> Null]]
  /\ UNCHANGED <<s, ret>>

Push(t) ==
  /\ Pending(t, "push")
  /\ TakesEffect(t, "success", Null)
  /\ s' = <<call[t].arg>> \o s

Pull(t) ==
  /\ Pending(t, "pull")
  /\ ret'[t] # NoRet /\ s # << >>
  /\ TakesEffect(t, "success", Head(s))
  /\ s' = Tail(s)

PullEmpty(t) ==
  /\ Pending(t, "pull")
  /\ TakesEffect(t, "empty", Null)
  /\ s = << >> /\ UNCHANGED s

Return(t) ==
  /\ call[t] # Idle /\ ret[t] # NoRet
  /\ call' = [call EXCEPT ![t] = Idle]
  /\ ret' = [ret EXCEPT ![t] = NoRet]
  /\ UNCHANGED s

Next == \E t \in Threads : Call(t) \/ Push(t) \/ Pull(t) \/ PullEmpty(t) \/ Return(t)

Spec == Init /\ [][Next]_vars
=============================================================================
