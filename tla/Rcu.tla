-------------------------------- MODULE Rcu --------------------------------
(***************************************************************************)
(* rcu_t and r_transfer (rcu.h): readers take a counted reference to the   *)
(* current payload under the mutex; an updater publishes a new payload,    *)
(* masks the count of the old one and drops its own references.  The count *)
(* of a payload that is current carries the bias `locked'.                 *)
(*                                                                         *)
(* read() is one action: it holds the mutex and makes one access to the    *)
(* count.  update() makes its accesses to src and to the count one by one, *)
(* since it reads src and touches the count without the mutex.             *)
(***************************************************************************)
EXTENDS LockThreads, Naturals, FiniteSets

CONSTANTS Payloads,    \* payloads that may be allocated: 1 .. n
          locked,      \* the bias: 0x01000000 in the code
          unlocked,    \* the mask: 0x00111111 in the code
          CountWidth,  \* the values of a count: 2^32 in the code
          BitAnd(_, _) \* the operator & on counts

ASSUME PayloadsAssumption == Payloads \subseteq Nat \ {0}

(* There is room for every reader above the bias. *)
ASSUME RoomAssumption ==
  /\ IsFiniteSet(Threads)
  /\ locked \in Nat \ {0} /\ CountWidth \in Nat
  /\ locked + Cardinality(Threads) + 1 < CountWidth

ASSUME MaskAssumption == \A c \in 0 .. CountWidth - 1 : BitAnd(c, unlocked) \in 0 .. CountWidth - 1

VARIABLES src,     \* the payload published, 0 for none
          count,     \* count[p]: the count of payload p
          live,    \* live[p]: allocated and not deleted
          used,    \* the payloads ever allocated
          rcu_pc,      \* the next step of thread t
          held,    \* held[t]: the payload of the r_transfer that read() returned
          tsf,     \* the locals tsf, clue and tmp of update()
          clue,
          tmp,
          gone,    \* ~rcu_t has run
          touched  \* history: a payload was accessed after its deletion

rcuVars == <<src, count, live, used, rcu_pc, held, tsf, clue, tmp, gone, touched>>

Zero == [t \in Threads |-> 0]

RcuInit ==
  /\ src = 0
  /\ count = [p \in Payloads |-> 0]
  /\ live = [p \in Payloads |-> FALSE]
  /\ used = {}
  /\ rcu_pc = [t \in Threads |-> "out"]
  /\ held = Zero /\ tsf = Zero /\ clue = Zero /\ tmp = Zero
  /\ gone = FALSE /\ touched = FALSE

Touch(p) == touched' = (touched \/ ~live[p])

(* Mutant: the count is a signed number. *)
DropSigned(p) ==
  /\ Touch(p)
  /\ count' = [count EXCEPT ![p] = @ - 1]
  /\ live' = [live EXCEPT ![p] = @ /\ count[p] # 1]

(* ~r_transfer: fetch_sub(1), and delete when the count was 1. *)
Drop(p) ==
  /\ Touch(p)
  /\ count' = [count EXCEPT ![p] = (@ + CountWidth - 1) % CountWidth]
  /\ live' = [live EXCEPT ![p] = @ /\ count[p] # 1]

-----------------------------------------------------------------------------
(* A reader *)

RcuRead(t) ==
  /\ \/ /\ src = 0
        /\ UNCHANGED <<rcu_pc, count, held, touched>>
     \/ /\ src # 0
        /\ Move(rcu_pc, t, "out", "reading")
        /\ Touch(src)
        /\ count' = [count EXCEPT ![src] = (@ + 1) % CountWidth]
        /\ held' = [held EXCEPT ![t] = src]
  /\ rcu_pc[t] = "out"
  /\ UNCHANGED <<src, live, used, tsf, clue, tmp>>

ReadEnds(t) ==
  /\ Move(rcu_pc, t, "reading", "out")
  /\ Drop(held[t])
  /\ held' = [held EXCEPT ![t] = 0]
  /\ UNCHANGED <<src, used, tsf, clue, tmp>>

-----------------------------------------------------------------------------
(* update *)

New(t) ==
  /\ Move(rcu_pc, t, "out", "u_clue")
  /\ \E p \in Payloads \ used :
       /\ \A o \in Payloads \ used : p <= o
       /\ used' = used \cup {p}
       /\ live' = [live EXCEPT ![p] = TRUE]
       /\ count' = [count EXCEPT ![p] = locked + 1]
       /\ tsf' = [tsf EXCEPT ![t] = p]
  /\ UNCHANGED <<src, held, clue, tmp, touched>>

(* Mutant: clue is copied as if src were already replaced. *)
CopyClueLate(t) ==
  /\ Move(rcu_pc, t, "u_clue", "u_src")
  /\ clue' = [clue EXCEPT ![t] = tsf[t]]
  /\ UNCHANGED <<src, count, live, used, held, tsf, tmp, touched>>

CopyClue(t) ==
  /\ Move(rcu_pc, t, "u_clue", "u_src")
  /\ clue' = [clue EXCEPT ![t] = src]
  /\ UNCHANGED <<src, count, live, used, held, tsf, tmp, touched>>

(* Under the mutex. *)
Publish(t) ==
  /\ Move(rcu_pc, t, "u_src", IF clue[t] = 0 THEN "u_tsf" ELSE "u_load")
  /\ src' = tsf[t]
  /\ UNCHANGED <<count, live, used, held, tsf, clue, tmp, touched>>

Load(t) ==
  /\ Move(rcu_pc, t, "u_load", "u_mask")
  /\ Touch(clue[t])
  /\ tmp' = [tmp EXCEPT ![t] = count[clue[t]]]
  /\ UNCHANGED <<src, count, live, used, held, tsf, clue>>

(* A compare-and-swap that fails loads the count it found. *)
Mask(t) ==
  /\ rcu_pc[t] = "u_mask"
  /\ Touch(clue[t])
  /\ \/ /\ count[clue[t]] = tmp[t]
        /\ rcu_pc' = [rcu_pc EXCEPT ![t] = "u_drop"]
        /\ count' = [count EXCEPT ![clue[t]] = BitAnd(tmp[t], unlocked)]
        /\ tmp' = [tmp EXCEPT ![t] = 0]
     \/ /\ count[clue[t]] # tmp[t]
        /\ tmp' = [tmp EXCEPT ![t] = count[clue[t]]]
        /\ UNCHANGED <<rcu_pc, count>>
  /\ UNCHANGED <<src, live, used, held, tsf, clue>>

DropClue(t) ==
  /\ Move(rcu_pc, t, "u_drop", "u_tsf")
  /\ Drop(clue[t])
  /\ clue' = [clue EXCEPT ![t] = 0]
  /\ UNCHANGED <<src, used, held, tsf, tmp>>

DropTsf(t) ==
  /\ Move(rcu_pc, t, "u_tsf", "out")
  /\ Drop(tsf[t])
  /\ tsf' = [tsf EXCEPT ![t] = 0]
  /\ UNCHANGED <<src, used, held, clue, tmp>>

(* ~rcu_t destroys src.  Nobody calls read() or update() any more, but     *)
(* readers may keep what they have.                                        *)
RcuDestroy ==
  /\ ~gone /\ gone' = TRUE
  /\ \A t \in Threads : rcu_pc[t] \in {"out", "reading"}
  /\ src' = 0
  /\ IF src = 0 THEN UNCHANGED <<count, live, touched>> ELSE Drop(src)
  /\ UNCHANGED <<used, rcu_pc, held, tsf, clue, tmp>>

(* After an access to a deleted payload the program has no meaning. *)
RcuNext ==
  /\ ~touched
  /\ \/ RcuDestroy
     \/ /\ UNCHANGED gone
        /\ \E t \in Threads :
             \/ ~gone /\ (RcuRead(t) \/ New(t))
             \/ ReadEnds(t) \/ CopyClue(t) \/ Publish(t)
             \/ Load(t) \/ Mask(t) \/ DropClue(t) \/ DropTsf(t)

RcuSpec == RcuInit /\ [][RcuNext]_rcuVars

-----------------------------------------------------------------------------
(* Every variable keeps its type. *)
RcuTypeOK ==
  /\ src \in Payloads \cup {0}
  /\ count \in [Payloads -> 0 .. CountWidth - 1]
  /\ live \in [Payloads -> BOOLEAN] /\ gone \in BOOLEAN
  /\ used \subseteq Payloads
  /\ rcu_pc \in [Threads -> {"out", "reading", "u_clue", "u_src", "u_load", "u_mask", "u_drop", "u_tsf"}]
  /\ {held, tsf, clue} \subseteq [Threads -> Payloads \cup {0}]
  /\ tmp \in [Threads -> 0 .. CountWidth - 1]

(* The payload that is published is not deleted, however the updaters      *)
(* interleave: an updater masks and drops only what it has replaced.       *)
RcuCurrentIsLive == src # 0 => live[src]

(* A reader's payload stays until the reader is through with it: that is   *)
(* what the usage comment of rcu.h:3-15 relies on.                         *)
RcuReadersPayloadIsLive == \A t \in Threads : held[t] # 0 => live[held[t]]
=============================================================================
