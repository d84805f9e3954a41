------------------------------ MODULE Dispatcher ------------------------------
(***************************************************************************)
(* Message passing (message.h, sender.h, receiver.h, dispatcher.h): senders*)
(* put messages of several types into the msg_queue of one receiver, which *)
(* takes them with r.wait().handle<A>(f).handle<B>(g): the destructor of   *)
(* the last temporary of the chain pulls messages until one of them finds  *)
(* its handler.  A handler may itself wait, so waits nest.                 *)
(*                                                                         *)
(* The queue is a normal_queue, whose operations take effect in one step   *)
(* (SyncQueue implements FifoQueue); what a caller sees of its condition   *)
(* variable, a notification that falls between the predicate and the       *)
(* sleep, is kept.                                                         *)
(***************************************************************************)
EXTENDS Integers, Sequences

CONSTANTS Senders,
          Kinds,          \* the types of the messages
          ClosedKind,     \* sync_queue_closed
          MaxMessages, MaxWaits, MaxHandlers

ASSUME KindsAssumption == ClosedKind \in Kinds
ASSUME BoundsAssumption == MaxMessages \in Nat /\ MaxWaits \in Nat /\ MaxHandlers \in Nat

Chains == UNION {[1 .. n -> Kinds] : n \in 0 .. MaxHandlers}

Default == 0     \* what pull() makes up when the queue is closed
Dropped == 0     \* the fate of a message that is not handled, otherwise its link
Thrown == -1

VARIABLES
  sent,       \* the types of the messages pushed so far, in their order
  taken,      \* how many of them the receiver has pulled
  closed,     \* closed_ of the queue
  notifying,  \* the threads between their push or close and its notification
  frames,     \* the waits in progress, the innermost last: [wait, chain]
  rpc,        \* the receiver: "user", "pull", "window", "asleep", "patch"
  msg, at,    \* patcher() is at link "at" of the innermost chain with message msg
  waited,     \* how many times wait() was called
  log         \* log[i]: what became of message i: [wait, chain, fate]

queueVars == <<sent, closed, notifying>>
dispatchVars == <<queueVars, taken, frames, rpc, msg, at, waited, log>>

DispatchInit ==
  /\ sent = << >> /\ taken = 0 /\ closed = FALSE /\ notifying = {}
  /\ frames = << >> /\ rpc = "user" /\ msg = Default /\ at = 0
  /\ waited = 0 /\ log = << >>

Top == frames[Len(frames)]
IsA(m, k) == m # Default /\ sent[m] = k    \* dynamic_pointer_cast

-----------------------------------------------------------------------------
(* The senders, and whoever closes the queue *)

Send(s, k) ==
  /\ s \notin notifying /\ Len(sent) < MaxMessages
  /\ sent' = Append(sent, k)
  /\ notifying' = notifying \cup {s}
  /\ UNCHANGED <<closed, taken, frames, rpc, msg, at, waited, log>>

CloseQueue(s) ==
  /\ s \notin notifying /\ ~closed
  /\ closed' = TRUE
  /\ notifying' = notifying \cup {s}
  /\ UNCHANGED <<sent, taken, frames, rpc, msg, at, waited, log>>

Notify(s) ==
  /\ s \in notifying
  /\ notifying' = notifying \ {s}
  /\ rpc' = IF rpc = "asleep" THEN "pull" ELSE rpc
  /\ UNCHANGED <<sent, closed, taken, frames, msg, at, waited, log>>

-----------------------------------------------------------------------------
(* The receiver *)

(* wait(), the handle() calls, and the destructor of the last temporary.   *)
Wait(chain) ==
  /\ rpc = "user" /\ waited < MaxWaits
  /\ waited' = waited + 1
  /\ frames' = Append(frames, [wait |-> waited + 1, chain |-> chain])
  /\ rpc' = "pull"
  /\ UNCHANGED <<queueVars, taken, msg, at, log>>

Pull ==
  /\ rpc = "pull"
  /\ \/ /\ closed
        /\ rpc' = "patch" /\ at' = Len(Top.chain) /\ UNCHANGED <<taken, msg>>
     \/ /\ ~closed /\ taken < Len(sent)
        /\ taken' = taken + 1 /\ msg' = taken + 1
        /\ rpc' = "patch" /\ at' = Len(Top.chain)
     \/ /\ ~closed /\ taken = Len(sent)
        /\ rpc' = "window" /\ UNCHANGED <<taken, msg, at>>
  /\ UNCHANGED <<queueVars, frames, waited, log>>

FallsAsleep ==
  /\ rpc = "window"
  /\ rpc' = "asleep"
  /\ UNCHANGED <<queueVars, taken, frames, msg, at, waited, log>>

(* A spurious wake-up of the condition variable. *)
WakesUp ==
  /\ rpc = "asleep"
  /\ rpc' = "pull"
  /\ UNCHANGED <<queueVars, taken, frames, msg, at, waited, log>>

(* patcher() comes back with what became of the message, and the receiver  *)
(* goes on at "to".                                                        *)
Patched(fate, to) ==
  /\ rpc' = to /\ msg' = Default /\ at' = 0
  /\ log' = IF msg = Default THEN log
            ELSE Append(log, [wait |-> Top.wait, chain |-> Top.chain, fate |-> fate])

(* Mutant: a link that does not match does not ask the one before it. *)
PatchOneLink ==
  /\ rpc = "patch" /\ at > 0
  /\ \/ IsA(msg, Top.chain[at]) /\ Patched(at, "user")
     \/ ~IsA(msg, Top.chain[at]) /\ at' = 0 /\ UNCHANGED <<rpc, msg, log>>
  /\ UNCHANGED <<queueVars, taken, frames, waited>>

(* A link runs its handler, or passes the message to the one before it.    *)
Patch ==
  /\ rpc = "patch" /\ at > 0
  /\ \/ IsA(msg, Top.chain[at]) /\ Patched(at, "user")
     \/ ~IsA(msg, Top.chain[at]) /\ at' = at - 1 /\ UNCHANGED <<rpc, msg, log>>
  /\ UNCHANGED <<queueVars, taken, frames, waited>>

(* Mutant: the loop ends with the message that nobody handles. *)
PatchBaseBreaks ==
  /\ rpc = "patch" /\ at = 0
  /\ Patched(Dropped, "user")
  /\ frames' = SubSeq(frames, 1, Len(frames) - 1)
  /\ UNCHANGED <<queueVars, taken, waited>>

(* The base throws for a sync_queue_closed message, through some waits;    *)
(* any other message is dropped and the loop goes on.                      *)
PatchBase ==
  /\ rpc = "patch" /\ at = 0
  /\ \/ /\ IsA(msg, ClosedKind)
        /\ Patched(Thrown, "user")
        /\ \E m \in 0 .. Len(frames) - 1 : frames' = SubSeq(frames, 1, m)
     \/ /\ ~IsA(msg, ClosedKind)
        /\ Patched(Dropped, "pull") /\ UNCHANGED frames
  /\ UNCHANGED <<queueVars, taken, waited>>

(* The handler returns, and with it the wait; or it throws, and the        *)
(* exception may leave some of the handlers around it as well.             *)
HandlerEnds ==
  /\ rpc = "user" /\ frames # << >>
  /\ \E m \in 0 .. Len(frames) - 1 : frames' = SubSeq(frames, 1, m)
  /\ UNCHANGED <<queueVars, taken, rpc, msg, at, waited, log>>

-----------------------------------------------------------------------------
ReceiverStep == Pull \/ FallsAsleep \/ Patch \/ PatchBase

DispatchNext ==
  \/ ReceiverStep \/ HandlerEnds \/ WakesUp
  \/ \E chain \in Chains : Wait(chain)
  \/ \E s \in Senders : Notify(s) \/ CloseQueue(s) \/ \E k \in Kinds : Send(s, k)

(* Threads are scheduled; a handler ends, even one that waits in between.  *)
DispatchFairness ==
  /\ WF_dispatchVars(ReceiverStep)
  /\ SF_dispatchVars(HandlerEnds)
  /\ \A s \in Senders : WF_dispatchVars(Notify(s))

DispatchSpec == DispatchInit /\ [][DispatchNext]_dispatchVars /\ DispatchFairness

-----------------------------------------------------------------------------
(* Every variable of the message passing keeps its type. *)
DispatchTypeOK ==
  /\ sent \in Seq(Kinds) /\ Len(sent) <= MaxMessages
  /\ taken \in 0 .. Len(sent) /\ closed \in BOOLEAN /\ notifying \subseteq Senders
  /\ frames \in Seq([wait : 1 .. waited, chain : Chains])
  /\ rpc \in {"user", "pull", "window", "asleep", "patch"}
  /\ rpc # "user" => frames # << >>
  /\ msg \in 0 .. taken /\ at \in 0 .. MaxHandlers /\ waited \in 0 .. MaxWaits

(* What the user of a chain reads in it: the last handle() of a message's  *)
(* type has it; a sync_queue_closed that nobody handles is thrown, any     *)
(* other message that nobody handles is dropped.                           *)
Fate(chain, k) ==
  LET fits == {i \in DOMAIN chain : chain[i] = k} IN
  IF fits # {} THEN CHOOSE i \in fits : \A j \in fits : j <= i
  ELSE IF k = ClosedKind THEN Thrown ELSE Dropped

InProgress(w) == \E i \in DOMAIN frames : frames[i].wait = w
Answered(w) == \E i \in DOMAIN log : log[i].wait = w /\ log[i].fate # Dropped

(* Messages are dealt with in the order they were sent, each by the wait   *)
(* that took it as its chain says.  A wait drops until it finds a message  *)
(* for it, which is its last: when it is over, that one was handled or     *)
(* thrown, whatever the handlers waited for in between.                    *)
DispatchedInOrder ==
  /\ Len(log) = taken - (IF rpc = "patch" /\ msg # Default THEN 1 ELSE 0)
  /\ \A i \in DOMAIN log :
       /\ log[i].fate = Fate(log[i].chain, sent[i])
       /\ log[i].fate # Dropped =>
            \A j \in DOMAIN log : j > i => log[j].wait # log[i].wait
  /\ \A w \in 1 .. waited :
       ~InProgress(w) \/ (rpc = "user" \/ w # Top.wait) => Answered(w)

(* The receiver sleeps although there is a message: the notification fell  *)
(* between the predicate and the sleep, and only another one wakes it.     *)
SleepsOnMessage == rpc = "asleep" /\ taken < Len(sent) /\ notifying = {}

(* A message that the innermost wait handles ends that wait, unless the    *)
(* queue is closed (the loop then spins on default messages) or its        *)
(* notification was missed.                                                *)
WaitEnds ==
  \A w \in 1 .. MaxWaits :
    (/\ frames # << >> /\ Top.wait = w /\ rpc # "user"
     /\ \E i \in taken + 1 .. Len(sent) : Fate(Top.chain, sent[i]) # Dropped)
      ~> (Answered(w) \/ closed \/ SleepsOnMessage)
=============================================================================
