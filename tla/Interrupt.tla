------------------------------ MODULE Interrupt ------------------------------
(***************************************************************************)
(* The waits that interrupt() ends early (thread_handler.h:29-170): a      *)
(* thread calls interrupt_wait() on a condition_variable ("cv"), on a      *)
(* condition_variable_any ("any") or on a future ("future"); another calls *)
(* interrupt(), that is, set(); a third makes what is waited for true.     *)
(*                                                                         *)
(* Two mutexes: the caller's, held around a wait for a condition, and      *)
(* condi_mutex of the flag.  The waits for a condition_variable and for a  *)
(* future wake up every 10 ms; the one for a condition_variable_any sleeps *)
(* until it is notified.                                                   *)
(***************************************************************************)

VARIABLES
  iflag,       \* interrupted
  condi,       \* the condition variable registered in the flag: "cv", "any" or "none"
  cmtx, lk,    \* the holders of condi_mutex and of the caller's mutex: "w", "n" or "none"
  ready,       \* the predicate, or the future's state
  kind,        \* what the thread waits on
  wpc, ipc, npc,    \* where the waiting, the interrupting and the notifying thread are
  asleep       \* the waiting thread is asleep on its condition variable

intrVars == <<iflag, condi, cmtx, lk, ready, kind, wpc, ipc, npc, asleep>>

IntrInit ==
  /\ iflag = FALSE /\ condi = "none" /\ cmtx = "none" /\ lk = "none"
  /\ ready = FALSE /\ asleep = FALSE
  /\ kind = "none" /\ wpc = "out" /\ ipc = "store" /\ npc = "ready"

WGo(from, to) == wpc = from /\ wpc' = to

-----------------------------------------------------------------------------
(* A wait begins; for a condition the caller has locked its mutex. *)
IntrCall ==
  /\ \E k \in {"cv", "any", "future"} :
       /\ kind' = k
       /\ \/ k = "future" /\ WGo("out", "f_flag") /\ UNCHANGED lk
          \/ k = "cv" /\ WGo("out", "cv_point") /\ lk = "none" /\ lk' = "w"
          \/ k = "any" /\ WGo("out", "any_lock") /\ lk = "none" /\ lk' = "w"
  /\ UNCHANGED <<iflag, condi, cmtx, ready, ipc, npc, asleep>>

(* The wait is over, by returning or by throwing thread_interrupted; the   *)
(* condition variable may be gone after that.                              *)
IntrEnds(to) ==
  /\ wpc' = to
  /\ lk' = IF kind = "future" THEN lk ELSE "none"

-----------------------------------------------------------------------------
(* wait(condition_variable&, ...) *)

CvPoint ==
  /\ wpc = "cv_point"
  /\ \/ iflag /\ IntrEnds("thrown")
     \/ ~iflag /\ wpc' = "cv_set" /\ UNCHANGED lk
  /\ UNCHANGED <<iflag, condi, cmtx, ready, kind, ipc, npc, asleep>>

CvSet ==
  /\ WGo("cv_set", "cv_flag")
  /\ cmtx = "none"
  /\ condi' = "cv"
  /\ UNCHANGED <<iflag, cmtx, lk, ready, kind, ipc, npc, asleep>>

(* Mutant: the loop does not look at the flag. *)
CvFlagUnseen ==
  /\ WGo("cv_flag", "cv_pred")
  /\ UNCHANGED <<iflag, condi, cmtx, lk, ready, kind, ipc, npc, asleep>>

CvFlag ==
  /\ WGo("cv_flag", IF iflag THEN "cv_end" ELSE "cv_pred")
  /\ UNCHANGED <<iflag, condi, cmtx, lk, ready, kind, ipc, npc, asleep>>

CvPred ==
  /\ \/ ready /\ WGo("cv_pred", "cv_end") /\ UNCHANGED <<lk, asleep>>
     \/ ~ready /\ WGo("cv_pred", "cv_sleep") /\ lk' = "none" /\ asleep' = TRUE
  /\ UNCHANGED <<iflag, condi, cmtx, ready, kind, ipc, npc>>

(* Notified, or the 10 ms have passed; wait_for locks the mutex again. *)
CvWake ==
  /\ WGo("cv_sleep", "cv_flag")
  /\ lk = "none" /\ lk' = "w"
  /\ asleep' = FALSE
  /\ UNCHANGED <<iflag, condi, cmtx, ready, kind, ipc, npc>>

(* The last interrupt_point() decides how the wait ends; the guard clears  *)
(* the registration either way.                                            *)
CvEnd ==
  /\ WGo("cv_end", IF iflag THEN "cv_clear_throw" ELSE "cv_clear")
  /\ UNCHANGED <<iflag, condi, cmtx, lk, ready, kind, ipc, npc, asleep>>

(* Mutant: the guard forgets the condition variable. *)
CvForgets ==
  /\ \/ wpc = "cv_clear" /\ IntrEnds("out")
     \/ wpc = "cv_clear_throw" /\ IntrEnds("thrown")
  /\ cmtx = "none"
  /\ UNCHANGED <<iflag, condi, cmtx, ready, kind, ipc, npc, asleep>>

CvClear ==
  /\ \/ wpc = "cv_clear" /\ IntrEnds("out")
     \/ wpc = "cv_clear_throw" /\ IntrEnds("thrown")
  /\ cmtx = "none"
  /\ condi' = "none"
  /\ UNCHANGED <<iflag, cmtx, ready, kind, ipc, npc, asleep>>

-----------------------------------------------------------------------------
(* wait(condition_variable_any&, ...): merged_lock holds condi_mutex too *)

AnyLock ==
  /\ WGo("any_lock", "any_point")
  /\ cmtx = "none" /\ cmtx' = "w"
  /\ condi' = "any"
  /\ UNCHANGED <<iflag, lk, ready, kind, ipc, npc, asleep>>

(* interrupt_point() before and after the wait; ~merged_lock *)
AnyPoint ==
  /\ wpc \in {"any_point", "any_end"}
  /\ \/ /\ wpc = "any_point" /\ ~iflag
        /\ wpc' = "any_pred"
        /\ UNCHANGED <<condi, cmtx, lk>>
     \/ /\ wpc = "any_end" \/ iflag
        /\ IntrEnds(IF iflag THEN "thrown" ELSE "out")
        /\ condi' = "none" /\ cmtx' = "none"
  /\ UNCHANGED <<iflag, ready, kind, ipc, npc, asleep>>

AnyPred ==
  /\ \/ ready /\ WGo("any_pred", "any_end") /\ UNCHANGED <<lk, cmtx, asleep>>
     \/ ~ready /\ WGo("any_pred", "any_sleep") /\ lk' = "none" /\ cmtx' = "none" /\ asleep' = TRUE
  /\ UNCHANGED <<iflag, condi, ready, kind, ipc, npc>>

(* std::lock takes both mutexes or none. *)
AnyRelock ==
  /\ WGo("any_sleep", "any_pred")
  /\ ~asleep
  /\ cmtx = "none" /\ lk = "none" /\ cmtx' = "w" /\ lk' = "w"
  /\ UNCHANGED <<iflag, condi, ready, kind, ipc, npc, asleep>>

SpuriousWakeup ==
  /\ wpc = "any_sleep" /\ asleep
  /\ asleep' = FALSE
  /\ UNCHANGED <<iflag, condi, cmtx, lk, ready, kind, wpc, ipc, npc>>

-----------------------------------------------------------------------------
(* wait(future&) *)

FutureFlag ==
  /\ WGo("f_flag", IF iflag THEN "f_end" ELSE "f_wait")
  /\ UNCHANGED <<iflag, condi, cmtx, lk, ready, kind, ipc, npc, asleep>>

FutureWait ==
  /\ WGo("f_wait", IF ready THEN "f_end" ELSE "f_flag")
  /\ UNCHANGED <<iflag, condi, cmtx, lk, ready, kind, ipc, npc, asleep>>

FutureEnd ==
  /\ WGo("f_end", IF iflag THEN "thrown" ELSE "out")
  /\ UNCHANGED <<iflag, condi, cmtx, lk, ready, kind, ipc, npc, asleep>>

-----------------------------------------------------------------------------
(* interrupt() *)

IntrStore ==
  /\ ipc = "store" /\ ipc' = "notify"
  /\ iflag' = TRUE
  /\ UNCHANGED <<condi, cmtx, lk, ready, kind, wpc, npc, asleep>>

(* Under condi_mutex, whoever is registered is notified. *)
IntrNotify ==
  /\ ipc = "notify" /\ ipc' = "done"
  /\ cmtx = "none"
  /\ asleep' = (asleep /\ condi = "none")
  /\ UNCHANGED <<iflag, condi, cmtx, lk, ready, kind, wpc, npc>>

(* The user's other thread makes the predicate true under the mutex. *)
UserReady ==
  /\ npc = "ready" /\ npc' = "notify"
  /\ kind = "future" \/ lk = "none"
  /\ ready' = TRUE
  /\ UNCHANGED <<iflag, condi, cmtx, lk, kind, wpc, ipc, asleep>>

UserNotifies ==
  /\ npc = "notify" /\ npc' = "ready"
  /\ asleep' = FALSE
  /\ UNCHANGED <<iflag, condi, cmtx, lk, ready, kind, wpc, ipc>>

(* What was waited for is used up, and may be waited for again. *)
UserConsumes ==
  /\ ready /\ wpc = "out"
  /\ ready' = FALSE
  /\ UNCHANGED <<iflag, condi, cmtx, lk, kind, wpc, ipc, npc, asleep>>

-----------------------------------------------------------------------------
IntrWaits ==
  \/ CvPoint \/ CvSet \/ CvFlag \/ CvPred \/ CvWake \/ CvEnd \/ CvClear
  \/ AnyLock \/ AnyPoint \/ AnyPred \/ AnyRelock
  \/ FutureFlag \/ FutureWait \/ FutureEnd

IntrUser == IntrCall \/ IntrStore \/ UserReady \/ UserConsumes

IntrNext == IntrWaits \/ IntrNotify \/ IntrUser \/ UserNotifies \/ SpuriousWakeup

(* The waiting thread and interrupt() go on, and a mutex is not given to   *)
(* the other one forever; that what is waited for comes true, that         *)
(* interrupt() is called, or that a sleeper wakes up for no reason, is not *)
(* assumed.                                                                *)
IntrFairness ==
  /\ WF_intrVars(IntrWaits) /\ SF_intrVars(IntrNotify) /\ WF_intrVars(UserNotifies)

IntrSpec == IntrInit /\ [][IntrNext]_intrVars /\ IntrFairness

-----------------------------------------------------------------------------
(* Every variable keeps its type. *)
IntrTypeOK ==
  /\ {iflag, ready, asleep} \subseteq BOOLEAN
  /\ condi \in {"cv", "any", "none"}
  /\ cmtx \in {"w", "none"} /\ lk \in {"w", "none"}
  /\ kind \in {"none", "cv", "any", "future"}
  /\ ipc \in {"store", "notify", "done"} /\ npc \in {"ready", "notify"}

(* interrupt() notifies only a condition variable that some wait is still  *)
(* using: a registration ends with the wait, also when it throws.          *)
IntrNoDeadCondi == condi # "none" => kind = condi /\ wpc \notin {"out", "thrown"}

(* interrupt() returns: it and the waits never block each other for good.  *)
IntrReturns == ipc = "notify" ~> ipc = "done"

InWait(kinds) == kind \in kinds /\ wpc \notin {"out", "thrown"}

(* An interrupted wait for a condition_variable or a future ends, also     *)
(* when the notification of interrupt() came too early.                    *)
IntrDelivered == iflag /\ InWait({"cv", "future"}) ~> ~InWait({"cv", "future"})

(* interrupt_wait() is "with condi, condi_any, and future"                 *)
(* (thread_handler.h:164): an interrupted wait for a                       *)
(* condition_variable_any ends as well.                                    *)
IntrAnyDelivered == iflag /\ InWait({"any"}) ~> ~InWait({"any"})
=============================================================================
