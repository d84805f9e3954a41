------------------------------ MODULE FifoLock ------------------------------
(* What a fair lock promises: threads queue up, and only the first of the  *)
(* queue is inside.                                                        *)
EXTENDS Sequences

CONSTANT Threads

VARIABLES line,    \* the threads that asked for the lock, in order
          inside   \* the threads that have it

vars == <<line, inside>>

Init == line = << >> /\ inside = {}

Join(t) == line' = Append(line, t) /\ UNCHANGED inside

Enter(t) ==
  /\ line # << >> /\ Head(line) = t
  /\ inside = {}
  /\ inside' = {t}
  /\ UNCHANGED line

(* A thread that finds nobody in line is inside at once. *)
JoinEmpty(t) ==
  /\ line = << >> /\ inside = {}
  /\ line' = <<t>>
  /\ inside' = {t}

Leave(t) ==
  /\ inside = {t}
  /\ line # << >> /\ Head(line) = t
  /\ inside' = {}
  /\ line' = Tail(line)

Next == \E t \in Threads : Join(t) \/ Enter(t) \/ JoinEmpty(t) \/ Leave(t)

Spec == Init /\ [][Next]_vars
=============================================================================
