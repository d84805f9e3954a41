---------------------------- MODULE MCSyncQueue ----------------------------
(* normal_queue for TLC: a producer, a consumer and a third thread that    *)
(* pushes, pulls and closes make at most MaxCalls calls in all, and at     *)
(* most MaxWakes wake-ups are spurious.                                    *)
EXTENDS SyncQueue

CONSTANTS Producer, Consumer, MaxCalls, MaxWakes

VARIABLES calls, wakes

mcvars == <<vars, calls, wakes>>

MCInit == Init /\ calls = 0 /\ wakes = 0

Role(t) ==
  CASE t = Producer -> call'[t].op \in Pushes
    [] t = Consumer -> call'[t].op \in {"pull", "try_pull", "empty"}
    [] OTHER -> call'[t].op \in {"push", "pull", "closed", "close"}

MCNext ==
  \E t \in Threads :
    \/ calls < MaxCalls /\ CallAny(t) /\ Role(t) /\ calls' = calls + 1 /\ UNCHANGED wakes
    \/ wakes < MaxWakes /\ SpuriousWake(t) /\ wakes' = wakes + 1 /\ UNCHANGED calls
    \/ Run(t) /\ UNCHANGED <<calls, wakes>>

(* A thread inside an operation keeps running; callers need not call. *)
MCSpec == MCInit /\ [][MCNext]_mcvars /\ \A t \in Threads : WF_vars(Run(t))

(* Every call returns, except a pull() that sleeps on the condition        *)
(* variable: no order of the locks or of the notifications blocks the      *)
(* others.                                                                 *)
EveryCallReturns ==
  \A t \in Threads : (call[t] # Idle) ~> (call[t] = Idle \/ t \in waiters)

(* A thread that is asleep when close() stores its flag is woken by it.    *)
(* (One that goes to sleep between the store and the notification is too;  *)
(* the one between its predicate and its sleep is not.)                    *)
SleepersSeeClose ==
  \A t \in Threads :
    (t \in waiters /\ \E c \in Threads : pc[c] = "close_store") ~> (t \notin waiters)

=============================================================================
