---------------------------- MODULE LocksProofs ----------------------------
(***************************************************************************)
(* The locks that spin and rcu_t, for any finite number of threads and any *)
(* width of their words: exclusion, the order mcs_lock serves in and its   *)
(* use of the nodes, what a reader of seq_sp_lock gets, the count of the   *)
(* payload that is published, and all the locks side by side.              *)
(***************************************************************************)
EXTENDS Locks, SequenceTheorems, FiniteSetTheorems, TLAPS

USE NullAssumption DEF NullAssumption

-----------------------------------------------------------------------------
(* mcs_lock: the inductive invariant, part by part. *)

InLine == {"link", "spin", "in", "cas", "wait_next", "handoff"}

(* The line holds the threads between their swap and their release, once.  *)
LineInv ==
  /\ \A i, j \in 1 .. Len(line) : line[i] = line[j] => i = j
  /\ \A i \in 1 .. Len(line) : mcs_pc[line[i]] \in InLine
  /\ \A t \in Threads : mcs_pc[t] \in InLine => \E i \in 1 .. Len(line) : line[i] = t

(* The lock points to the last of the line, whose node has no successor.   *)
TailInv ==
  /\ line = << >> => tail = Null
  /\ \A i \in 1 .. Len(line) : i = Len(line) => tail = line[i] /\ next[line[i]] = Null

(* The first of the line holds the lock or has been handed it; the others  *)
(* have not.                                                               *)
OwnerInv ==
  \A i \in 1 .. Len(line) :
    IF i = 1
    THEN \/ mcs_pc[line[i]] \in Holding
         \/ mcs_pc[line[i]] = "spin" /\ is_owned[line[i]]
    ELSE mcs_pc[line[i]] \in {"link", "spin"} /\ ~is_owned[line[i]]

(* Each node knows its successor as soon as that one has linked itself.    *)
LinkInv ==
  \A i, j \in 1 .. Len(line) :
    j = i + 1 =>
      IF mcs_pc[line[j]] = "link"
      THEN prev[line[j]] = line[i] /\ next[line[i]] = Null
      ELSE next[line[i]] = line[j]

(* A guard that did not find itself last has a successor; one that has not *)
(* swapped in has a fresh node; a dying lock gets no new guards.           *)
GuardInv ==
  /\ \A t \in Threads :
       /\ mcs_pc[t] \in {"wait_next", "handoff"} => Len(line) > 1
       /\ mcs_pc[t] = "handoff" => next[t] # Null
       /\ mcs_pc[t] = "swap" => ~is_owned[t] /\ next[t] = Null
  /\ mutex_life # "alive" => \A t \in Threads : mcs_pc[t] # "swap"
  /\ mutex_life = "dead" => line = << >>

McsInv == McsTypeOK /\ LineInv /\ TailInv /\ OwnerInv /\ LinkInv /\ GuardInv

-----------------------------------------------------------------------------
(* The initial states satisfy the invariant. *)
LEMMA McsInitInv == McsInit => McsInv
<1> SUFFICES ASSUME McsInit
             PROVE  McsInv
  OBVIOUS
<1>1. line \in Seq(Threads) /\ Len(line) = 0
  BY EmptySeq DEF McsInit
<1> QED
  BY <1>1 DEF McsInit, McsInv, McsTypeOK, LineInv, TailInv, OwnerInv, LinkInv, GuardInv, InLine,
              McsLabels

(* A new guard has a fresh node, in nobody's chain. *)
LEMMA ConstructInv ==
  ASSUME McsInv, NEW t \in Threads, Construct(t)
  PROVE  McsInv'
<1> USE DEF McsInv, McsTypeOK, LineInv, OwnerInv, InLine, Holding, McsLabels, Move, node, Construct
<1>1. \A i \in 1 .. Len(line) : line[i] \in Threads /\ line[i] # t
  BY DEF Construct
<1>2. McsTypeOK'
  BY <1>1
<1>3. LineInv'
  BY <1>1
<1>4. TailInv'
  BY <1>1 DEF TailInv, LinkInv, GuardInv
<1>5. OwnerInv'
  BY <1>1
<1>6. LinkInv'
  BY <1>1 DEF TailInv, LinkInv, GuardInv
<1>7. GuardInv'
  BY <1>1 DEF TailInv, LinkInv, GuardInv
<1> QED
  BY <1>2, <1>3, <1>4, <1>5, <1>6, <1>7

(* The node that is swapped in becomes the last of the line. *)
LEMMA SwapInv ==
  ASSUME McsInv, NEW t \in Threads, Swap(t)
  PROVE  McsInv'
<1> USE DEF McsInv, McsTypeOK, LineInv, OwnerInv, InLine, Holding, McsLabels, Move, node, Swap
<1>1. \A i \in 1 .. Len(line) : line[i] \in Threads /\ line[i] # t
  BY DEF Swap
<1>2. /\ line' \in Seq(Threads) /\ Len(line') = Len(line) + 1 /\ line'[Len(line) + 1] = t
      /\ \A i \in 1 .. Len(line) : line'[i] = line[i]
  BY AppendProperties DEF Swap
<1>3. \A i \in 1 .. Len(line') : i \in 1 .. Len(line) \/ i = Len(line) + 1
  BY <1>2
<1>4. tail = Null <=> Len(line) = 0
  BY EmptySeq DEF TailInv
<1>5. McsTypeOK'
  BY <1>1, <1>2, <1>3, <1>4
<1>6. LineInv'
  BY <1>1, <1>2, <1>3, <1>4
<1>7. TailInv'
  BY <1>1, <1>2, <1>3, <1>4 DEF TailInv, LinkInv, GuardInv
<1>8. OwnerInv'
  <2>1. ~is_owned[t] /\ is_owned' = is_owned
    BY DEF GuardInv
  <2>2. ASSUME NEW i \in 1 .. Len(line)
        PROVE  i = 1 => Len(line) # 0
    OBVIOUS
  <2>3. mcs_pc'[t] = (IF Len(line) = 0 THEN "in" ELSE "link")
    BY <1>4
  <2> QED
    BY <1>1, <1>2, <1>3, <2>1, <2>2, <2>3
<1>9. LinkInv'
  BY <1>1, <1>2, <1>3, <1>4 DEF TailInv, LinkInv, GuardInv
<1>10. GuardInv'
  BY <1>1, <1>2, <1>3, <1>4 DEF TailInv, LinkInv, GuardInv
<1> QED
  BY <1>5, <1>6, <1>7, <1>8, <1>9, <1>10

(* The predecessor, still in the line, learns its successor. *)
LEMMA LinkStepInv ==
  ASSUME McsInv, NEW t \in Threads, Link(t)
  PROVE  McsInv'
<1> USE DEF McsInv, McsTypeOK, LineInv, OwnerInv, InLine, Holding, McsLabels, Move, node, Link
<1>1. \A i \in 1 .. Len(line) : line[i] \in Threads
  OBVIOUS
<1>2. PICK j \in 1 .. Len(line) : line[j] = t
  BY DEF Link
<1>3. j # 1 /\ j - 1 \in 1 .. Len(line) /\ line[j - 1] = prev[t] /\ line[j - 1] # t
  BY <1>2, SMTT(30) DEF Link, LinkInv
<1>4. \A i \in 1 .. Len(line) : i # j - 1 => line[i] # prev[t]
  BY <1>3, SMTT(30)
<1>5. McsTypeOK'
  BY <1>1, <1>2, <1>3, <1>4
<1>6. LineInv'
  BY <1>1, <1>2, <1>3, <1>4
<1>7. TailInv'
  BY <1>1, <1>2, <1>3, <1>4 DEF TailInv, LinkInv, GuardInv
<1>8. OwnerInv'
  BY <1>1, <1>2, <1>3, <1>4
<1>9. LinkInv'
  BY <1>1, <1>2, <1>3, <1>4 DEF TailInv, LinkInv, GuardInv
<1>10. GuardInv'
  <2>1. mcs_pc[prev[t]] \in InLine /\ prev[t] \in Threads
    BY <1>3, SMTT(30)
  <2>2. ASSUME NEW s \in Threads
        PROVE  next'[s] = IF s = prev[t] THEN t ELSE next[s]
    BY <2>1
  <2> QED
    BY <2>1, <2>2 DEF GuardInv
<1> QED
  BY <1>5, <1>6, <1>7, <1>8, <1>9, <1>10

(* A thread that leaves the spin has been handed the lock: it is the first. *)
LEMMA SpinInv ==
  ASSUME McsInv, NEW t \in Threads, Spin(t)
  PROVE  McsInv'
<1> USE DEF McsInv, McsTypeOK, LineInv, OwnerInv, InLine, Holding, McsLabels, Move, node, Spin
<1>1. \A i \in 1 .. Len(line) : line[i] \in Threads
  OBVIOUS
<1>2. PICK j \in 1 .. Len(line) : line[j] = t
  BY DEF Spin
<1>3. McsTypeOK'
  BY <1>1, <1>2
<1>4. LineInv'
  BY <1>1, <1>2
<1>5. TailInv'
  BY <1>1, <1>2 DEF TailInv, LinkInv, GuardInv
<1>6. OwnerInv'
  BY <1>1, <1>2
<1>7. LinkInv'
  BY <1>1, <1>2 DEF TailInv, LinkInv, GuardInv
<1>8. GuardInv'
  BY <1>1, <1>2 DEF TailInv, LinkInv, GuardInv
<1> QED
  BY <1>3, <1>4, <1>5, <1>6, <1>7, <1>8

(* Leaving the critical section keeps the place in line. *)
LEMMA LeaveInv ==
  ASSUME McsInv, NEW t \in Threads, Leave(t)
  PROVE  McsInv'
<1> USE DEF McsInv, McsTypeOK, LineInv, OwnerInv, InLine, Holding, McsLabels, Move, node, Leave
<1>1. \A i \in 1 .. Len(line) : line[i] \in Threads
  OBVIOUS
<1>2. PICK j \in 1 .. Len(line) : line[j] = t
  BY DEF Leave
<1>3. McsTypeOK'
  BY <1>1, <1>2
<1>4. LineInv'
  BY <1>1, <1>2
<1>5. TailInv'
  BY <1>1, <1>2 DEF TailInv, LinkInv, GuardInv
<1>6. OwnerInv'
  BY <1>1, <1>2
<1>7. LinkInv'
  BY <1>1, <1>2 DEF TailInv, LinkInv, GuardInv
<1>8. GuardInv'
  BY <1>1, <1>2 DEF TailInv, LinkInv, GuardInv
<1> QED
  BY <1>3, <1>4, <1>5, <1>6, <1>7, <1>8

(* A thread whose successor is linked goes on to hand over. *)
LEMMA WaitNextInv ==
  ASSUME McsInv, NEW t \in Threads, WaitNext(t)
  PROVE  McsInv'
<1> USE DEF McsInv, McsTypeOK, LineInv, OwnerInv, InLine, Holding, McsLabels, Move, node, WaitNext
<1>1. \A i \in 1 .. Len(line) : line[i] \in Threads
  OBVIOUS
<1>2. PICK j \in 1 .. Len(line) : line[j] = t
  BY DEF WaitNext
<1>3. McsTypeOK'
  BY <1>1, <1>2
<1>4. LineInv'
  BY <1>1, <1>2
<1>5. TailInv'
  BY <1>1, <1>2 DEF TailInv, LinkInv, GuardInv
<1>6. OwnerInv'
  BY <1>1, <1>2
<1>7. LinkInv'
  BY <1>1, <1>2 DEF TailInv, LinkInv, GuardInv
<1>8. GuardInv'
  BY <1>1, <1>2 DEF TailInv, LinkInv, GuardInv
<1> QED
  BY <1>3, <1>4, <1>5, <1>6, <1>7, <1>8

(* The compare-and-swap frees the lock when the line is only its holder. *)
LEMMA CasInv ==
  ASSUME McsInv, NEW t \in Threads, Cas(t), tail = t
  PROVE  McsInv'
<1> USE DEF McsInv, McsTypeOK, LineInv, OwnerInv, InLine, Holding, McsLabels, Move, node, Cas
<1>1. \A i \in 1 .. Len(line) : line[i] \in Threads
  OBVIOUS
<1>2. 1 \in 1 .. Len(line) /\ line[1] = t /\ line # << >>
  BY EmptySeq DEF Cas
<1>3. /\ line' \in Seq(Threads) /\ Len(line') = Len(line) - 1
      /\ \A i \in 1 .. Len(line) - 1 : line'[i] = line[i + 1] /\ i + 1 \in 1 .. Len(line)
  <2>1. line' = Tail(line) /\ line \in Seq(Threads) /\ Len(line) \in Nat
    BY LenProperties DEF Cas
  <2>2. Tail(line) \in Seq(Threads) /\ Len(Tail(line)) = Len(line) - 1
    BY <1>2, <2>1, HeadTailProperties
  <2>3. \A i \in 1 .. Len(line) - 1 : Tail(line)[i] = line[i + 1]
    BY <1>2, <2>1, <2>2, HeadTailProperties
  <2>4. \A i \in 1 .. Len(line) - 1 : i + 1 \in 1 .. Len(line)
    BY <2>1
  <2> QED
    BY <2>1, <2>2, <2>3, <2>4
<1>4. Len(line) = 1 /\ Len(line') = 0
  BY <1>1, <1>2, <1>3 DEF TailInv
<1>5. McsTypeOK'
  BY <1>1, <1>2, <1>3, <1>4
<1>6. LineInv'
  BY <1>1, <1>2, <1>3, <1>4
<1>7. TailInv'
  BY <1>1, <1>2, <1>3, <1>4 DEF TailInv, LinkInv, GuardInv
<1>8. OwnerInv'
  BY <1>1, <1>2, <1>3, <1>4
<1>9. LinkInv'
  BY <1>1, <1>2, <1>3, <1>4 DEF TailInv, LinkInv, GuardInv
<1>10. GuardInv'
  BY <1>1, <1>2, <1>3, <1>4 DEF TailInv, LinkInv, GuardInv
<1> QED
  BY <1>5, <1>6, <1>7, <1>8, <1>9, <1>10

(* The compare-and-swap fails when there are others in line. *)
LEMMA CasFailsInv ==
  ASSUME McsInv, NEW t \in Threads, Cas(t), tail # t
  PROVE  McsInv'
<1> USE DEF McsInv, McsTypeOK, LineInv, OwnerInv, InLine, Holding, McsLabels, Move, node, Cas
<1>1. \A i \in 1 .. Len(line) : line[i] \in Threads
  OBVIOUS
<1>2. PICK j \in 1 .. Len(line) : line[j] = t
  BY DEF Cas
<1>3. j = 1 /\ Len(line) > 1
  BY <1>2 DEF Cas, TailInv
<1>4. McsTypeOK'
  BY <1>1, <1>2, <1>3
<1>5. LineInv'
  BY <1>1, <1>2, <1>3
<1>6. TailInv'
  BY <1>1, <1>2, <1>3 DEF TailInv, LinkInv, GuardInv
<1>7. OwnerInv'
  BY <1>1, <1>2, <1>3
<1>8. LinkInv'
  BY <1>1, <1>2, <1>3 DEF TailInv, LinkInv, GuardInv
<1>9. GuardInv'
  BY <1>1, <1>2, <1>3 DEF TailInv, LinkInv, GuardInv
<1> QED
  BY <1>4, <1>5, <1>6, <1>7, <1>8, <1>9

(* The hand-over makes the second of the line the first. *)
LEMMA HandoffInv ==
  ASSUME McsInv, NEW t \in Threads, Handoff(t)
  PROVE  McsInv'
<1> USE DEF McsInv, McsTypeOK, LineInv, OwnerInv, InLine, Holding, McsLabels, Move, node, Handoff
<1>1. \A i \in 1 .. Len(line) : line[i] \in Threads
  OBVIOUS
<1>2. 1 \in 1 .. Len(line) /\ line[1] = t /\ line # << >>
  BY EmptySeq DEF Handoff
<1>3. /\ line' \in Seq(Threads) /\ Len(line') = Len(line) - 1
      /\ \A i \in 1 .. Len(line) - 1 : line'[i] = line[i + 1] /\ i + 1 \in 1 .. Len(line)
  <2>1. line' = Tail(line) /\ line \in Seq(Threads) /\ Len(line) \in Nat
    BY LenProperties DEF Handoff
  <2>2. Tail(line) \in Seq(Threads) /\ Len(Tail(line)) = Len(line) - 1
    BY <1>2, <2>1, HeadTailProperties
  <2>3. \A i \in 1 .. Len(line) - 1 : Tail(line)[i] = line[i + 1]
    BY <1>2, <2>1, <2>2, HeadTailProperties
  <2>4. \A i \in 1 .. Len(line) - 1 : i + 1 \in 1 .. Len(line)
    BY <2>1
  <2> QED
    BY <2>1, <2>2, <2>3, <2>4
<1>4. /\ 2 \in 1 .. Len(line) /\ line[2] = next[t] /\ line[2] # t /\ mcs_pc[line[2]] = "spin"
  BY <1>1, <1>2 DEF Handoff, GuardInv, LinkInv
<1>5. \A i \in 1 .. Len(line') :
         i \in Nat /\ i + 1 # 1 /\ i + 1 \in 1 .. Len(line) /\ line'[i] = line[i + 1] /\ line[i + 1] # t
  BY <1>2, <1>3
<1>6. \A i, j \in 1 .. Len(line') : i + 1 = j + 1 => i = j
  BY <1>5
<1>7. /\ \A s \in Threads : mcs_pc'[s] = IF s = t THEN "out" ELSE mcs_pc[s]
      /\ \A s \in Threads : is_owned'[s] = IF s = line[2] THEN TRUE ELSE is_owned[s]
      /\ next' = next /\ prev' = prev /\ tail' = tail /\ mutex_life' = mutex_life
  BY <1>4
<1>8. McsTypeOK'
  BY <1>1, <1>2, <1>3, <1>4
<1>9. LineInv'
  <2>1. ASSUME NEW i \in 1 .. Len(line'), NEW j \in 1 .. Len(line'), line'[i] = line'[j]
        PROVE  i = j
    BY <1>5, <1>6, <2>1
  <2>2. ASSUME NEW i \in 1 .. Len(line')
        PROVE  mcs_pc'[line'[i]] \in InLine
    BY <1>1, <1>5, <1>7
  <2>3. ASSUME NEW s \in Threads, mcs_pc'[s] \in InLine
        PROVE  \E i \in 1 .. Len(line') : line'[i] = s
    <3>1. s # t /\ mcs_pc[s] \in InLine
      BY <1>7, <2>3
    <3>2. PICK j \in 1 .. Len(line) : line[j] = s
      BY <3>1
    <3>3. j # 1 /\ j - 1 \in 1 .. Len(line') /\ (j - 1) + 1 = j
      BY <1>2, <1>3, <3>1, <3>2
    <3>4. line'[j - 1] = line[(j - 1) + 1]
      BY <1>5, <3>3
    <3> QED  BY <3>2, <3>3, <3>4, ZenonT(30)
  <2> QED  BY <2>1, <2>2, <2>3
<1>10. TailInv'
  <2>1. Len(line) > 1 /\ Len(line') # 0 /\ Len(<< >>) = 0
    BY <1>3, <1>4
  <2>2. ASSUME NEW i \in 1 .. Len(line'), i = Len(line')
        PROVE  tail' = line'[i] /\ next'[line'[i]] = Null
    <3>1. i + 1 = Len(line)
      BY <1>3, <2>2
    <3> QED  BY <1>5, <1>7, <3>1 DEF TailInv
  <2> QED  BY <2>1, <2>2 DEF TailInv
<1>11. OwnerInv'
  <2>1. ASSUME NEW i \in 1 .. Len(line'), i = 1
        PROVE  mcs_pc'[line'[i]] = "spin" /\ is_owned'[line'[i]]
    <3>1. line'[i] = line[2] /\ line[2] \in Threads
      BY <1>1, <1>4, <1>5, <2>1
    <3> QED  BY <1>4, <1>7, <3>1
  <2>2. ASSUME NEW i \in 1 .. Len(line'), i # 1
        PROVE  mcs_pc'[line'[i]] \in {"link", "spin"} /\ ~is_owned'[line'[i]]
    <3>1. i + 1 # 2 /\ line[i + 1] # line[2] /\ line[i + 1] \in Threads
      BY <1>1, <1>4, <1>5, <2>2
    <3>2. mcs_pc[line[i + 1]] \in {"link", "spin"} /\ ~is_owned[line[i + 1]]
      BY <1>5
    <3>3. line[i + 1] # t /\ line'[i] = line[i + 1]
      BY <1>5
    <3>4. /\ mcs_pc'[line[i + 1]] = mcs_pc[line[i + 1]]
          /\ is_owned'[line[i + 1]] = is_owned[line[i + 1]]
      BY <1>7, <3>1, <3>3, ZenonT(30)
    <3> QED  BY <3>2, <3>3, <3>4, ZenonT(30)
  <2> QED  BY <2>1, <2>2
<1>12. LinkInv'
  <2>1. ASSUME NEW i \in 1 .. Len(line'), NEW j \in 1 .. Len(line'), j = i + 1
        PROVE  IF mcs_pc'[line'[j]] = "link"
               THEN prev'[line'[j]] = line'[i] /\ next'[line'[i]] = Null
               ELSE next'[line'[i]] = line'[j]
    <3>1. j + 1 = (i + 1) + 1 /\ mcs_pc'[line'[j]] = mcs_pc[line[j + 1]]
      BY <1>1, <1>5, <1>7, <2>1
    <3> QED  BY <1>5, <1>7, <3>1 DEF LinkInv
  <2> QED  BY <2>1 DEF LinkInv
<1>13. GuardInv'
  <2>1. ASSUME NEW s \in Threads
        PROVE  mcs_pc'[s] \notin {"wait_next", "handoff"}
    <3>1. CASE s = t
      BY <1>7, <3>1
    <3>2. CASE s # t
      <4>1. ASSUME mcs_pc[s] \in {"wait_next", "handoff"}
            PROVE  FALSE
        <5>1. PICK j \in 1 .. Len(line) : line[j] = s
          BY <4>1
        <5>2. j # 1
          BY <1>2, <3>2, <5>1
        <5> QED  BY <4>1, <5>1, <5>2
      <4> QED  BY <1>7, <3>2, <4>1
    <3> QED  BY <3>1, <3>2
  <2>2. ASSUME NEW s \in Threads, mcs_pc'[s] = "swap"
        PROVE  ~is_owned'[s] /\ next'[s] = Null
    <3>1. mcs_pc[s] = "swap" /\ s # line[2]
      BY <1>4, <1>7, <2>2
    <3> QED  BY <1>7, <3>1, ZenonT(30) DEF GuardInv
  <2>3. mutex_life # "dead" /\ (mutex_life # "alive" => \A s \in Threads : mcs_pc'[s] # "swap")
    BY <1>2, <1>7 DEF GuardInv
  <2> QED  BY <1>7, <2>1, <2>2, <2>3 DEF GuardInv
<1> QED
  BY <1>8, <1>9, <1>10, <1>11, <1>12, <1>13

(* The lock dies when nobody is in line. *)
LEMMA DestroyInv ==
  ASSUME McsInv, Destroy
  PROVE  McsInv'
<1> USE DEF McsInv, McsTypeOK, LineInv, OwnerInv, InLine, Holding, McsLabels, Move, node, Destroy
<1>1. \A i \in 1 .. Len(line) : line[i] \in Threads
  OBVIOUS
<1>2. tail = Null => line = << >>
  BY <1>1, EmptySeq DEF TailInv
<1>3. McsTypeOK'
  BY <1>1, <1>2
<1>4. LineInv'
  BY <1>1, <1>2
<1>5. TailInv'
  BY <1>1, <1>2 DEF TailInv, LinkInv, GuardInv
<1>6. OwnerInv'
  BY <1>1, <1>2
<1>7. LinkInv'
  BY <1>1, <1>2 DEF TailInv, LinkInv, GuardInv
<1>8. GuardInv'
  BY <1>1, <1>2 DEF TailInv, LinkInv, GuardInv
<1> QED
  BY <1>3, <1>4, <1>5, <1>6, <1>7, <1>8

-----------------------------------------------------------------------------
(* Every step keeps the invariant. *)
LEMMA McsStepInv == McsInv /\ [McsNext]_mcsVars => McsInv'
<1> SUFFICES ASSUME McsInv, [McsNext]_mcsVars
             PROVE  McsInv'
  OBVIOUS
<1>1. CASE UNCHANGED mcsVars
  BY <1>1 DEF mcsVars, McsInv, McsTypeOK, LineInv, TailInv, OwnerInv, LinkInv, GuardInv
<1>2. CASE Destroy
  BY <1>2, DestroyInv
<1>3. ASSUME NEW t \in Threads, Construct(t) \/ McsRun(t)
      PROVE  McsInv'
  BY <1>3, ConstructInv, SwapInv, LinkStepInv, SpinInv, LeaveInv, CasInv, CasFailsInv, WaitNextInv,
     HandoffInv DEF McsRun
<1> QED
  BY <1>1, <1>2, <1>3 DEF McsNext

(* The invariant of the lock: every reachable state satisfies it. *)
THEOREM McsInvariance == McsSpec => []McsInv
  BY McsInitInv, McsStepInv, PTL DEF McsSpec

(* mcs_lock is type correct. *)
THEOREM McsTypeCorrect == McsSpec => []McsTypeOK
<1>1. McsInv => McsTypeOK
  BY DEF McsInv
<1> QED
  BY McsInvariance, <1>1, PTL

(* Only the first of the line holds the lock. *)
LEMMA HolderIsFirst ==
  ASSUME McsInv, NEW t \in Threads, mcs_pc[t] \in Holding
  PROVE  line # << >> /\ Len(line) > 0 /\ line[1] = t
  BY EmptySeq DEF McsInv, McsTypeOK, LineInv, OwnerInv, InLine, Holding

(* At most one thread is between the end of the constructor of its guard   *)
(* and the end of the destructor.                                          *)
THEOREM McsExclusion == McsSpec => []McsMutualExclusion
<1>1. McsInv => McsMutualExclusion
  BY HolderIsFirst DEF McsMutualExclusion
<1> QED
  BY McsInvariance, <1>1, PTL

(* A guard writes only into nodes of guards that are still there. *)
THEOREM McsNodesLive == McsSpec => []McsNoDeadNode
<1>1. ASSUME McsInv
      PROVE  McsNoDeadNode
  <2> USE <1>1 DEF McsInv, McsTypeOK, LineInv, OwnerInv, InLine, Holding
  <2>1. ASSUME NEW t \in Threads, mcs_pc[t] = "link"
        PROVE  /\ prev[t] \in Threads \ {t}
               /\ mcs_pc[prev[t]] \notin {"out", "swap", "handoff"}
               /\ next[prev[t]] = Null
    <3>1. PICK j \in 1 .. Len(line) : line[j] = t
      BY <2>1
    <3>2. j # 1 /\ j - 1 \in 1 .. Len(line) /\ j = (j - 1) + 1
      BY <2>1, <3>1
    <3>3. line[j - 1] = prev[t] /\ next[prev[t]] = Null /\ line[j - 1] # t
      BY <2>1, <3>1, <3>2, SMTT(30) DEF LinkInv
    <3> QED  BY <3>2, <3>3 DEF GuardInv
  <2>2. ASSUME NEW t \in Threads, mcs_pc[t] = "handoff"
        PROVE  next[t] \in Threads \ {t} /\ mcs_pc[next[t]] = "spin"
    <3>1. line[1] = t /\ 1 \in 1 .. Len(line) /\ 2 \in 1 .. Len(line) /\ next[t] # Null
      BY <2>2, HolderIsFirst DEF GuardInv
    <3>2. line[2] = next[t] /\ line[2] # t /\ mcs_pc[line[2]] = "spin"
      BY <3>1 DEF LinkInv
    <3> QED  BY <3>1, <3>2
  <2> QED  BY <2>1, <2>2 DEF McsNoDeadNode
<1> QED
  BY McsInvariance, <1>1, PTL

(* No guard is left when the destructor of the lock has returned. *)
THEOREM McsSafeDestruction == McsSpec => []McsNoUseAfterDestroy
<1>1. ASSUME McsInv, mutex_life = "dead", NEW t \in Threads
      PROVE  mcs_pc[t] = "out"
  <2>1. Len(line) = 0
    BY <1>1, EmptySeq DEF McsInv, GuardInv
  <2>2. ~ \E i \in 1 .. Len(line) : line[i] = t
    BY <2>1
  <2>3. mcs_pc[t] # "swap" /\ mcs_pc[t] \in McsLabels
    BY <1>1 DEF McsInv, McsTypeOK, GuardInv
  <2> QED
    BY <1>1, <2>2, <2>3 DEF McsInv, LineInv, InLine, McsLabels
<1>2. McsInv => McsNoUseAfterDestroy
  BY <1>1 DEF McsNoUseAfterDestroy
<1> QED
  BY McsInvariance, <1>2, PTL

-----------------------------------------------------------------------------
(* mcs_lock implements the abstract lock. *)

Inside == {t \in Threads : mcs_pc[t] \in Holding}

(* The threads that have the lock: the first of the line, or nobody.       *)
LEMMA InsideIsFirst ==
  ASSUME McsInv, NEW t \in Threads, mcs_pc[t] \in Holding
  PROVE  Inside = {t} /\ line # << >> /\ Head(line) = t
<1>1. \A s \in Inside : s = t
  BY HolderIsFirst DEF Inside
<1> QED
  BY <1>1, HolderIsFirst DEF Inside, McsInv, McsTypeOK

(* A step that leaves every thread where it was, inside or outside.        *)
LEMMA InsideKept ==
  ASSUME McsInv, NEW t \in Threads, NEW to, mcs_pc' = [mcs_pc EXCEPT ![t] = to],
         mcs_pc[t] \in Holding <=> to \in Holding
  PROVE  Inside' = Inside
  BY DEF Inside, McsInv, McsTypeOK

(* A thread that swaps its node in joins the line, and is inside at once   *)
(* if it finds nobody there.                                               *)
LEMMA SwapJoins ==
  ASSUME McsInv, NEW t \in Threads, Swap(t)
  PROVE  McsFifo!Join(t) \/ McsFifo!JoinEmpty(t)
<1> USE DEF Swap, Move, Holding
<1>1. CASE tail = Null
  <2>1. line = << >>
    BY <1>1, EmptySeq DEF McsInv, McsTypeOK, TailInv
  <2>2. Inside = {}
    BY <2>1, InsideIsFirst DEF Inside
  <2>3. Inside' = {t}
    BY <1>1, <2>2 DEF Inside, McsInv, McsTypeOK
  <2>4. line' = <<t>>
    BY <2>1
  <2> QED
    BY <2>1, <2>2, <2>3, <2>4 DEF McsFifo!JoinEmpty, Inside
<1>2. CASE tail # Null
  <2>1. Inside' = Inside
    BY <1>2, InsideKept
  <2> QED
    BY <2>1 DEF McsFifo!Join, Inside
<1> QED
  BY <1>1, <1>2

(* A thread that finds itself handed the lock is the first of the line.    *)
LEMMA SpinEnters ==
  ASSUME McsInv, NEW t \in Threads, Spin(t)
  PROVE  McsFifo!Enter(t)
<1> USE DEF Spin, Move, Holding
<1>1. PICK i \in 1 .. Len(line) : line[i] = t
  BY DEF McsInv, LineInv, InLine
<1>2. i = 1 /\ line # << >> /\ Head(line) = t
  BY <1>1 DEF McsInv, McsTypeOK, OwnerInv
<1>3. Inside = {}
  BY <1>1, <1>2, HolderIsFirst DEF Inside
<1>4. Inside' = {t}
  BY <1>3 DEF Inside, McsInv, McsTypeOK
<1> QED
  BY <1>2, <1>3, <1>4 DEF McsFifo!Enter, Inside

(* The thread inside leaves, when the line behind it is empty or has been  *)
(* told.                                                                   *)
LEMMA ReleaseLeaves ==
  ASSUME McsInv, NEW t \in Threads, mcs_pc[t] \in Holding,
         mcs_pc' = [mcs_pc EXCEPT ![t] = "out"], line' = Tail(line)
  PROVE  McsFifo!Leave(t)
<1>1. Inside = {t} /\ line # << >> /\ Head(line) = t
  BY InsideIsFirst
<1>2. Inside' = {}
  BY <1>1 DEF Inside, Holding, McsInv, McsTypeOK
<1> QED
  BY <1>1, <1>2 DEF McsFifo!Leave, Inside

(* Every step is a step of the abstract lock, or none. *)
LEMMA McsStepRefines ==
  McsInv /\ [McsNext]_mcsVars => [McsFifo!Next]_(McsFifo!vars)
<1> SUFFICES ASSUME McsInv, [McsNext]_mcsVars
             PROVE  [McsFifo!Next]_(McsFifo!vars)
  OBVIOUS
<1>1. Inside' = Inside /\ line' = line => UNCHANGED McsFifo!vars
  BY DEF McsFifo!vars, Inside
<1>2. CASE UNCHANGED mcsVars \/ Destroy
  BY <1>1, <1>2 DEF mcsVars, Destroy, Inside
<1>3. ASSUME NEW t \in Threads, Construct(t) \/ McsRun(t)
      PROVE  [McsFifo!Next]_(McsFifo!vars)
  <2> USE DEF Move, Holding
  <2>1. CASE Construct(t)
    BY <1>1, <2>1, InsideKept DEF Construct
  <2>2. CASE Swap(t)
    BY <2>2, SwapJoins DEF McsFifo!Next
  <2>3. CASE Link(t)
    BY <1>1, <2>3, InsideKept DEF Link
  <2>4. CASE Spin(t)
    BY <2>4, SpinEnters DEF McsFifo!Next
  <2>5. CASE Leave(t)
    BY <1>1, <2>5, InsideKept DEF Leave
  <2>6. CASE Cas(t)
    <3>1. CASE tail = t
      BY <2>6, <3>1, ReleaseLeaves DEF Cas, McsFifo!Next
    <3>2. CASE tail # t
      BY <1>1, <2>6, <3>2, InsideKept DEF Cas
    <3> QED
      BY <3>1, <3>2
  <2>7. CASE WaitNext(t)
    BY <1>1, <2>7, InsideKept DEF WaitNext
  <2>8. CASE Handoff(t)
    BY <2>8, ReleaseLeaves DEF Handoff, McsFifo!Next
  <2> QED
    BY <1>3, <2>1, <2>2, <2>3, <2>4, <2>5, <2>6, <2>7, <2>8 DEF McsRun
<1> QED
  BY <1>2, <1>3 DEF McsNext

(* The free lock is the abstract lock with nobody in line. *)
LEMMA McsInitRefines == McsInit => McsFifo!Init
  BY DEF McsInit, McsFifo!Init, Holding

(* First come, first served: every behaviour of mcs_lock is one of the     *)
(* lock that lets its line in one by one.                                  *)
THEOREM McsFirstComeFirstServed == McsSpec => McsImplementsFifoLock
<1>1. McsInit => McsFifo!Init
  BY McsInitRefines
<1>2. McsInv /\ [McsNext]_mcsVars => [McsFifo!Next]_(McsFifo!vars)
  BY McsStepRefines
<1> QED
  BY <1>1, <1>2, McsInvariance, PTL DEF McsSpec, McsImplementsFifoLock, McsFifo!Spec

-----------------------------------------------------------------------------
HIDE NullAssumption DEF NullAssumption

(* rw_sp_lock: the inductive invariant.  A reader that is about to add to  *)
(* the word has seen the bit set in the value it compares with.            *)

RwInv ==
  /\ RwTypeOK
  /\ RwExclusion
  /\ RwWordCountsReaders
  /\ \A t \in Threads : rw_pc[t] = "r_cas" => FreeBit(old[t])

(* The word with R_FREE readers does not have the bit. *)
LEMMA CarryClearsBit == ~FreeBit(R_FREE + R_FREE)
<1>1. R_FREE \in Nat /\ R_FREE > 0
  BY RFreeAssumption DEF RFreeAssumption
<1>2. (R_FREE + R_FREE) \div R_FREE = 2
  BY <1>1, Z3
<1> QED
  BY <1>2 DEF FreeBit

(* Nor has the word of a writer. *)
LEMMA WriterClearsBit == ~FreeBit(W_FREE)
<1>1. R_FREE \in Nat /\ R_FREE > 0
  BY RFreeAssumption DEF RFreeAssumption
<1>2. 0 \div R_FREE = 0
  BY <1>1, Z3
<1> QED
  BY <1>2 DEF FreeBit, W_FREE

(* The readers are finitely many. *)
LEMMA ReadersFinite == IsFiniteSet(Readers) /\ Cardinality(Readers) \in Nat
  BY FiniteAssumption, FS_Subset, FS_CardinalityType DEF FiniteAssumption, Readers

(* Initially nobody reads or writes. *)
LEMMA RwInitInv == RwInit => RwInv
<1> SUFFICES ASSUME RwInit
             PROVE  RwInv
  OBVIOUS
<1>1. Readers = {} /\ Writers = {}
  BY DEF RwInit, Readers, Writers
<1>2. Cardinality(Readers) = 0
  BY <1>1, FS_EmptySet
<1>3. RwTypeOK
  BY RFreeAssumption, WidthAssumption
     DEF RFreeAssumption, WidthAssumption, RwInit, RwTypeOK, RwLabels
<1> QED
  BY <1>1, <1>2, <1>3, RFreeAssumption
     DEF RFreeAssumption, RwInv, RwInit, RwExclusion, RwWordCountsReaders

(* A reader comes in: the bit was set, so nobody writes and the number of  *)
(* readers is below R_FREE.                                                *)
LEMMA RCasInv ==
  ASSUME RwInv, NEW t \in Threads, RCas(t)
  PROVE  RwInv'
<1> USE RFreeAssumption, WidthAssumption
    DEF RFreeAssumption, WidthAssumption, RwInv, RwTypeOK, RwLabels, RCas, Move
<1>1. CASE cnt = old[t] /\ rw_pc' = [rw_pc EXCEPT ![t] = "reading"]
  <2>1. FreeBit(cnt) /\ rw_pc[t] = "r_cas" /\ cnt' = (cnt + 1) % Width
    BY <1>1
  <2>2. Writers = {} /\ cnt = R_FREE + Cardinality(Readers)
    BY <2>1, WriterClearsBit DEF RwWordCountsReaders
  <2>3. Cardinality(Readers) < R_FREE
    BY <2>1, <2>2, CarryClearsBit, ReadersFinite DEF RwWordCountsReaders
  <2>4. Readers' = Readers \cup {t} /\ t \notin Readers /\ Writers' = Writers
    BY <1>1, <2>1 DEF Readers, Writers
  <2>5. Cardinality(Readers') = Cardinality(Readers) + 1
    BY <2>4, ReadersFinite, FS_AddElement
  <2>6. cnt' = R_FREE + Cardinality(Readers')
    <3>1. cnt + 1 \in 0 .. Width - 1
      BY <2>2, <2>3, ReadersFinite
    <3> QED
      BY <2>1, <2>2, <2>5, <3>1, ReadersFinite
  <2>7. RwWordCountsReaders'
    BY <2>2, <2>3, <2>4, <2>5, <2>6, ReadersFinite DEF RwWordCountsReaders
  <2>8. RwTypeOK'
    BY <1>1, <2>2, <2>3, <2>5, <2>6, ReadersFinite
  <2> QED
    BY <1>1, <2>2, <2>4, <2>7, <2>8 DEF RwExclusion
<1>2. CASE cnt # old[t] /\ rw_pc' = [rw_pc EXCEPT ![t] = "r_load"] /\ cnt' = cnt
  <2>1. Readers' = Readers /\ Writers' = Writers
    BY <1>2 DEF Readers, Writers
  <2> QED
    BY <1>2, <2>1 DEF RwExclusion, RwWordCountsReaders
<1> QED
  BY <1>1, <1>2

(* A writer comes in: the word says that there are no readers. *)
LEMMA WCasInv ==
  ASSUME RwInv, NEW t \in Threads, WCas(t)
  PROVE  RwInv'
<1> USE RFreeAssumption, WidthAssumption
    DEF RFreeAssumption, WidthAssumption, RwInv, RwTypeOK, RwLabels, WCas, Move, W_FREE
<1>1. Writers = {} /\ Cardinality(Readers) = 0
  BY ReadersFinite DEF RwWordCountsReaders
<1>2. Readers = {}
  BY <1>1, ReadersFinite, FS_EmptySet
<1>3. Readers' = {} /\ Writers' = {t}
  BY <1>1, <1>2 DEF Readers, Writers
<1>4. Cardinality(Readers') = 0
  BY <1>3, FS_EmptySet
<1>5. RwTypeOK'
  OBVIOUS
<1>6. RwExclusion'
  BY <1>3 DEF RwExclusion
<1>7. RwWordCountsReaders'
  BY <1>3, <1>4 DEF RwWordCountsReaders
<1> QED
  BY <1>5, <1>6, <1>7

(* A reader leaves. *)
LEMMA RUnlockInv ==
  ASSUME RwInv, NEW t \in Threads, RUnlock(t)
  PROVE  RwInv'
<1> USE RFreeAssumption, WidthAssumption
    DEF RFreeAssumption, WidthAssumption, RwInv, RwTypeOK, RwLabels, RUnlock, Move
<1>1. t \in Readers /\ Writers = {}
  BY DEF Readers, RwExclusion
<1>2. Readers' = Readers \ {t} /\ Writers' = Writers
  BY DEF Readers, Writers
<1>3. Cardinality(Readers') = Cardinality(Readers) - 1 /\ Cardinality(Readers') \in Nat
  BY <1>1, <1>2, ReadersFinite, FS_RemoveElement, FS_CardinalityType
<1>4. cnt = R_FREE + Cardinality(Readers) /\ cnt - 1 \in 0 .. Width - 1
  BY <1>1, <1>3, ReadersFinite DEF RwWordCountsReaders
<1>5. cnt' = cnt - 1
  <2>1. (cnt + Width - 1) % Width = cnt - 1
    <3>1. Width \in Nat /\ Width > 0
      OBVIOUS
    <3>2. \A n \in 0 .. Width - 1 : (n + Width) % Width = n
      BY <3>1, Z3
    <3> QED
      BY <1>4, <3>1, <3>2
  <2> QED
    BY <2>1
<1>6. RwTypeOK'
  BY <1>4, <1>5
<1>7. RwWordCountsReaders'
  BY <1>1, <1>2, <1>3, <1>4, <1>5, ReadersFinite DEF RwWordCountsReaders
<1> QED
  BY <1>1, <1>2, <1>6, <1>7 DEF RwExclusion

(* A writer leaves. *)
LEMMA WUnlockInv ==
  ASSUME RwInv, NEW t \in Threads, WUnlock(t)
  PROVE  RwInv'
<1> USE RFreeAssumption, WidthAssumption
    DEF RFreeAssumption, WidthAssumption, RwInv, RwTypeOK, RwLabels, WUnlock, Move
<1>1. Writers = {t} /\ Readers = {}
  BY DEF Writers, RwExclusion
<1>2. Readers' = {} /\ Writers' = {}
  BY <1>1 DEF Readers, Writers
<1>3. Cardinality(Readers') = 0
  BY <1>2, FS_EmptySet
<1>4. RwTypeOK'
  OBVIOUS
<1> QED
  BY <1>2, <1>3, <1>4 DEF RwExclusion, RwWordCountsReaders

(* Every step keeps the invariant. *)
LEMMA RwStepInv == RwInv /\ [RwNext]_rwVars => RwInv'
<1> SUFFICES ASSUME RwInv, [RwNext]_rwVars
             PROVE  RwInv'
  OBVIOUS
<1>1. CASE UNCHANGED rwVars
  BY <1>1 DEF rwVars, RwInv, RwTypeOK, RwExclusion, RwWordCountsReaders, Readers, Writers
<1>2. ASSUME NEW t \in Threads, RwAsk(t) \/ RLoad(t)
      PROVE  RwInv'
  <2>1. Readers' = Readers /\ Writers' = Writers /\ cnt' = cnt
    BY <1>2 DEF RwInv, RwTypeOK, RwAsk, RLoad, Move, Readers, Writers
  <2>2. RwTypeOK' /\ \A s \in Threads : rw_pc'[s] = "r_cas" => FreeBit(old'[s])
    BY <1>2 DEF RwInv, RwTypeOK, RwLabels, RwAsk, RLoad, Move, FreeBit
  <2> QED
    BY <2>1, <2>2 DEF RwInv, RwExclusion, RwWordCountsReaders, FreeBit
<1> QED
  BY <1>1, <1>2, RCasInv, WCasInv, RUnlockInv, WUnlockInv DEF RwNext, RwRun

(* rw_sp_lock excludes: a writer is alone, and the word counts the         *)
(* readers, also when their number carries into the next bit.              *)
THEOREM RwLockExcludes == RwSpec => [](RwExclusion /\ RwWordCountsReaders)
<1>1. RwInv => RwExclusion /\ RwWordCountsReaders
  BY DEF RwInv
<1> QED
  BY RwInitInv, RwStepInv, <1>1, PTL DEF RwSpec
-----------------------------------------------------------------------------
(* seq_sp_lock: the inductive invariant. *)

(* Writers take turns, and the counter says whether one is in its section. *)
TurnInv ==
  /\ \A t \in Threads : seq_pc[t] \in HasLock => sp_lock
  /\ \A s, t \in Threads : seq_pc[s] \in HasLock /\ seq_pc[t] \in HasLock => s = t
  /\ seq_cnt = IF \E t \in Threads : seq_pc[t] \in Section THEN 1 ELSE 0

(* Only between the two writes of a section do the words differ. *)
WordInv == (word[1] # word[2]) <=> \E t \in Threads : seq_pc[t] = "write2"

(* What a reader has read since the last section ended is still there      *)
(* while no section is open; what it has accepted belongs together.        *)
ReadInv ==
  \A t \in Threads :
    ~finished[t] =>
      /\ seq_pc[t] \in {"read2", "r_retry"} /\ seq_cnt = 0 => got[t][1] = word[1]
      /\ seq_pc[t] = "r_retry" /\ seq_cnt = 0 => got[t][2] = word[2]
      /\ seq_pc[t] = "accepted" => got[t][1] = got[t][2]

SeqInv == SeqTypeOK /\ TurnInv /\ WordInv /\ ReadInv

(* The counter is 0 or 1, and those differ in their lowest bit. *)
LEMMA OddCounter == Odd(1) /\ ~Odd(0) /\ 0 % SeqWidth = 0 /\ 1 % SeqWidth = 1
                      /\ (0 + 1) % SeqWidth = 1 /\ (1 + SeqWidth - 1) % SeqWidth = 0
<1>1. SeqWidth \in Nat /\ SeqWidth > 1
  BY SeqWidthAssumption DEF SeqWidthAssumption
<1>2. 0 % SeqWidth = 0 /\ 1 % SeqWidth = 1 /\ SeqWidth % SeqWidth = 0
  BY <1>1, Z3
<1> QED
  BY <1>1, <1>2 DEF Odd

(* Initially the lock is free and nobody reads. *)
LEMMA SeqInitInv == SeqInit => SeqInv
<1> SUFFICES ASSUME SeqInit
             PROVE  SeqInv
  OBVIOUS
<1>1. Nothing \in [1 .. 2 -> 0 .. 1] /\ Nothing[1] = Nothing[2]
  BY DEF Nothing
<1>2. SeqTypeOK
  <2>1. word \in [1 .. 2 -> 0 .. 1] /\ got \in [Threads -> [1 .. 2 -> 0 .. 1]]
    BY <1>1 DEF SeqInit
  <2>2. 0 \in 0 .. SeqWidth - 1
    BY SeqWidthAssumption DEF SeqWidthAssumption
  <2>3. seq_cnt \in 0 .. SeqWidth - 1 /\ seq \in [Threads -> 0 .. SeqWidth - 1]
    BY <2>2 DEF SeqInit
  <2>4. seq_pc \in [Threads -> SeqLabels] /\ sp_lock \in BOOLEAN
    BY DEF SeqInit, SeqLabels
  <2>5. finished \in [Threads -> BOOLEAN]
    BY DEF SeqInit
  <2> QED
    BY <2>1, <2>3, <2>4, <2>5 DEF SeqTypeOK
<1>3. TurnInv /\ ReadInv
  BY DEF SeqInit, TurnInv, ReadInv, Section, HasLock
<1>4. WordInv
  BY <1>1 DEF SeqInit, WordInv
<1> QED
  BY <1>2, <1>3, <1>4 DEF SeqInv

(* Every step keeps the types. *)
LEMMA SeqStepType ==
  ASSUME SeqInv, NEW t \in Threads, SeqBegin(t) \/ SeqRun(t)
  PROVE  SeqTypeOK'
<1> USE SeqWidthAssumption
    DEF SeqWidthAssumption, SeqInv, SeqTypeOK, SeqLabels, Move, reader
<1>1. CASE SeqBegin(t) \/ SeqCas(t) \/ WFree(t) \/ RBegin(t) \/ RRetry(t)
  BY <1>1 DEF SeqBegin, SeqCas, WFree, RBegin, RRetry
<1>2. CASE WAdd(t)
  BY <1>2, OddCounter DEF WAdd, TurnInv
<1>3. CASE WSub(t)
  BY <1>3, OddCounter DEF WSub, TurnInv
<1>4. CASE Write(t)
  BY <1>4 DEF Write
<1>5. CASE SeqRead(t)
  <2>1. word[1] \in 0 .. 1 /\ word[2] \in 0 .. 1 /\ got[t] \in [1 .. 2 -> 0 .. 1]
    OBVIOUS
  <2>2. got' \in [Threads -> [1 .. 2 -> 0 .. 1]]
    BY <1>5, <2>1 DEF SeqRead
  <2> QED
    BY <1>5, <2>2 DEF SeqRead
<1>6. CASE RDone(t)
  <2>1. Nothing \in [1 .. 2 -> 0 .. 1]
    BY DEF Nothing
  <2> QED
    BY <1>6, <2>1 DEF RDone
<1> QED
  BY <1>1, <1>2, <1>3, <1>4, <1>5, <1>6 DEF SeqRun

(* A step of a reader, or of a thread that is not in a section, leaves the *)
(* writers where they are.                                                 *)
LEMMA WritersKept ==
  ASSUME SeqInv, NEW t \in Threads, NEW to, seq_pc' = [seq_pc EXCEPT ![t] = to],
         seq_pc[t] \notin Section, to \notin HasLock,
         sp_lock' = sp_lock \/ seq_pc[t] = "w_free", seq_cnt' = seq_cnt, word' = word
  PROVE  TurnInv' /\ WordInv'
<1> USE DEF SeqInv, SeqTypeOK, TurnInv, WordInv, Section, HasLock
<1>1. \A s \in Threads : seq_pc'[s] \in Section <=> seq_pc[s] \in Section
  OBVIOUS
<1>2. \A s \in Threads : seq_pc'[s] = "write2" <=> seq_pc[s] = "write2"
  OBVIOUS
<1>3. \A s \in Threads : seq_pc'[s] \in HasLock => seq_pc[s] \in HasLock /\ s # t
  OBVIOUS
<1> QED
  BY <1>1, <1>2, <1>3

(* The writers take turns. *)
LEMMA SeqStepTurn ==
  ASSUME SeqInv, NEW t \in Threads, SeqCas(t) \/ WAdd(t) \/ Write(t) \/ WSub(t)
  PROVE  TurnInv' /\ WordInv'
<1> USE DEF SeqInv, SeqTypeOK, TurnInv, WordInv, Section, HasLock, Move, reader
<1>1. CASE SeqCas(t)
  <2>1. \A s \in Threads : /\ seq_pc'[s] \in Section <=> seq_pc[s] \in Section
                           /\ seq_pc'[s] = "write2" <=> seq_pc[s] = "write2"
    BY <1>1 DEF SeqCas
  <2> QED
    BY <1>1, <2>1 DEF SeqCas
<1>2. CASE WAdd(t)
  <2>1. seq_cnt = 0
    BY <1>2 DEF WAdd
  <2>2. seq_cnt' = 1
    BY <1>2, <2>1, OddCounter DEF WAdd
  <2>3. \A s \in Threads : seq_pc'[s] = "write2" <=> seq_pc[s] = "write2"
    BY <1>2 DEF WAdd
  <2> QED
    BY <1>2, <2>2, <2>3 DEF WAdd
<1>3. CASE WSub(t)
  <2>1. seq_cnt = 1
    BY <1>3 DEF WSub
  <2>2. seq_cnt' = 0
    BY <1>3, <2>1, OddCounter DEF WSub
  <2>3. \A s \in Threads : seq_pc'[s] = "write2" <=> seq_pc[s] = "write2"
    BY <1>3 DEF WSub
  <2>4. \A s \in Threads : seq_pc'[s] \notin Section
    BY <1>3 DEF WSub
  <2> QED
    BY <1>3, <2>2, <2>3, <2>4 DEF WSub
<1>4. CASE Write(t)
  <2>1. \A s \in Threads : /\ seq_pc'[s] \in Section <=> seq_pc[s] \in Section
                           /\ seq_pc'[s] \in HasLock <=> seq_pc[s] \in HasLock
    BY <1>4 DEF Write
  <2>2. TurnInv'
    BY <1>4, <2>1 DEF Write
  <2>3. CASE seq_pc[t] = "write1"
    <3>1. word[1] = word[2] /\ word'[1] = 1 - word[1] /\ word'[2] = word[2] /\ seq_pc'[t] = "write2"
      BY <1>4, <2>3 DEF Write
    <3> QED
      BY <2>2, <3>1
  <2>4. CASE seq_pc[t] = "write2"
    <3>1. word[1] # word[2] /\ word'[2] = 1 - word[2] /\ word'[1] = word[1]
      BY <1>4, <2>4 DEF Write
    <3>2. word[1] \in 0 .. 1 /\ word[2] \in 0 .. 1
      OBVIOUS
    <3>3. \A s \in Threads : seq_pc'[s] # "write2"
      BY <1>4, <2>4 DEF Write
    <3> QED
      BY <2>2, <3>1, <3>2, <3>3
  <2> QED
    BY <1>4, <2>3, <2>4 DEF Write
<1> QED
  BY <1>1, <1>2, <1>3, <1>4

(* What a reader has is not disturbed by steps outside of its section      *)
(* counter: the words change only while the counter is odd, and the end of *)
(* a section marks every reader.                                           *)
LEMMA SeqStepRead ==
  ASSUME SeqInv, NEW t \in Threads, SeqBegin(t) \/ SeqRun(t)
  PROVE  ReadInv'
<1> USE DEF SeqInv, SeqTypeOK, ReadInv, Move, reader
<1>1. CASE SeqBegin(t) \/ SeqCas(t) \/ WFree(t)
  BY <1>1 DEF SeqBegin, SeqCas, WFree
<1>2. CASE WAdd(t)
  <2>1. seq_cnt' = 1
    BY <1>2, OddCounter DEF WAdd, TurnInv, Section, HasLock
  <2> QED
    BY <1>2, <2>1 DEF WAdd
<1>3. CASE WSub(t)
  BY <1>3 DEF WSub
<1>4. CASE Write(t)
  <2>1. seq_cnt' = 1
    BY <1>4 DEF Write, TurnInv, Section, HasLock
  <2> QED
    BY <1>4, <2>1 DEF Write
<1>5. CASE RBegin(t)
  BY <1>5 DEF RBegin
<1>6. CASE SeqRead(t)
  BY <1>6 DEF SeqRead
<1>7. CASE RRetry(t)
  <2>1. CASE seq_pc'[t] = "accepted" /\ seq_pc' = [seq_pc EXCEPT ![t] = "accepted"]
    <3>1. seq_cnt = 0 /\ seq_pc[t] = "r_retry"
      BY <1>7, <2>1, OddCounter DEF RRetry, TurnInv
    <3>2. word[1] = word[2]
      BY <3>1 DEF TurnInv, WordInv, Section
    <3> QED
      BY <1>7, <2>1, <3>1, <3>2 DEF RRetry
  <2>2. CASE seq_pc' = [seq_pc EXCEPT ![t] = "r_begin"]
    BY <1>7, <2>2 DEF RRetry
  <2> QED
    BY <1>7, <2>1, <2>2 DEF RRetry
<1>8. CASE RDone(t)
  BY <1>8 DEF RDone
<1> QED
  BY <1>1, <1>2, <1>3, <1>4, <1>5, <1>6, <1>7, <1>8 DEF SeqRun

(* Every step keeps the invariant. *)
LEMMA SeqStepInv == SeqInv /\ [SeqNext]_seqVars => SeqInv'
<1> SUFFICES ASSUME SeqInv, [SeqNext]_seqVars
             PROVE  SeqInv'
  OBVIOUS
<1>1. CASE UNCHANGED seqVars
  BY <1>1 DEF seqVars, SeqInv, SeqTypeOK, TurnInv, WordInv, ReadInv
<1>2. ASSUME NEW t \in Threads, SeqBegin(t) \/ SeqRun(t)
      PROVE  SeqInv'
  <2>1. SeqTypeOK' /\ ReadInv'
    BY <1>2, SeqStepType, SeqStepRead
  <2>2. CASE SeqCas(t) \/ WAdd(t) \/ Write(t) \/ WSub(t)
    BY <2>1, <2>2, SeqStepTurn DEF SeqInv
  <2>3. CASE SeqBegin(t) \/ WFree(t) \/ RBegin(t) \/ SeqRead(t) \/ RRetry(t) \/ RDone(t)
    <3>1. PICK to : /\ seq_pc' = [seq_pc EXCEPT ![t] = to]
                    /\ seq_pc[t] \notin Section /\ to \notin HasLock
                    /\ sp_lock' = sp_lock \/ seq_pc[t] = "w_free"
                    /\ seq_cnt' = seq_cnt /\ word' = word
      BY <2>3 DEF SeqBegin, WFree, RBegin, SeqRead, RRetry, RDone, Move, reader, Section, HasLock
    <3> QED
      BY <2>1, <3>1, WritersKept DEF SeqInv
  <2> QED
    BY <1>2, <2>2, <2>3 DEF SeqRun
<1> QED
  BY <1>1, <1>2 DEF SeqNext

(* The invariant of the lock: every reachable state satisfies it. *)
THEOREM SeqInvariance == SeqSpec => []SeqInv
  BY SeqInitInv, SeqStepInv, PTL DEF SeqSpec

(* Writers take turns, and the counter is odd exactly in a section. *)
THEOREM SeqLockExcludes == SeqSpec => []SeqWritersExclude
<1>1. SeqInv => SeqWritersExclude
  BY OddCounter DEF SeqInv, TurnInv, SeqWritersExclude
<1> QED
  BY SeqInvariance, <1>1, PTL

(* A reader of seq_sp_lock accepts words of one section, unless a whole    *)
(* section ended since it began.                                           *)
THEOREM SeqSnapshot == SeqSpec => []SeqSnapshotUnlessOverrun
<1>1. SeqInv => SeqSnapshotUnlessOverrun
  BY DEF SeqInv, ReadInv, SeqSnapshotUnlessOverrun
<1> QED
  BY SeqInvariance, <1>1, PTL
-----------------------------------------------------------------------------
(* rcu_t: the inductive invariant.  A reader, and an updater until it      *)
(* ends, hold one reference each.                                          *)

References(p) == {t \in Threads : held[t] = p \/ tsf[t] = p}
Unpublished(t) == rcu_pc[t] \in {"u_clue", "u_src"}
Replaces(t) == rcu_pc[t] \in {"u_load", "u_mask", "u_drop"}

(* What the locals name, and when. *)
NamesInv ==
  /\ src \in used \cup {0}
  /\ \A t \in Threads :
       /\ held[t] \in used \cup {0} /\ tsf[t] \in used \cup {0} /\ clue[t] \in used \cup {0}
       /\ held[t] # 0 <=> rcu_pc[t] = "reading"
       /\ tsf[t] # 0 <=> rcu_pc[t] \notin {"out", "reading"}
       /\ clue[t] # 0 => rcu_pc[t] \in {"u_src", "u_load", "u_mask", "u_drop"}
       /\ Replaces(t) => clue[t] # 0

(* A payload belongs to the updater that made it, and before it publishes  *)
(* it nobody else knows it.                                                *)
FreshInv ==
  /\ \A s, t \in Threads : tsf[s] = tsf[t] /\ tsf[t] # 0 => s = t
  /\ \A t \in Threads : Unpublished(t) =>
       /\ src # tsf[t]
       /\ \A s \in Threads : held[s] # tsf[t] /\ clue[s] # tsf[t]

(* An updater masks and drops a payload that is not the published one. *)
ReplacedInv == \A t \in Threads : Replaces(t) => clue[t] # src

(* The count of a payload that is published, or will be, is the bias and   *)
(* the references.                                                         *)
BiasInv ==
  \A p \in Payloads :
    p = src \/ (\E t \in Threads : Unpublished(t) /\ tsf[t] = p) =>
      live[p] /\ count[p] = locked + Cardinality(References(p))

RcuInv == RcuTypeOK /\ NamesInv /\ FreshInv /\ ReplacedInv /\ BiasInv

(* A payload is referenced by finitely many threads. *)
LEMMA ReferencesFinite ==
  ASSUME NEW p
  PROVE  /\ IsFiniteSet(References(p)) /\ Cardinality(References(p)) \in Nat
         /\ Cardinality(References(p)) <= Cardinality(Threads) /\ Cardinality(Threads) \in Nat
<1>1. References(p) \subseteq Threads
  BY DEF References
<1> QED
  BY <1>1, RoomAssumption, FS_Subset, FS_CardinalityType DEF RoomAssumption

(* A count that is not at the ends of its width does not wrap. *)
LEMMA CountSteps ==
  /\ \A c \in 0 .. CountWidth - 1 : /\ (c + 1) % CountWidth \in 0 .. CountWidth - 1
                                    /\ (c + CountWidth - 1) % CountWidth \in 0 .. CountWidth - 1
  /\ \A c \in 0 .. CountWidth - 2 : (c + 1) % CountWidth = c + 1
  /\ \A c \in 1 .. CountWidth - 1 : (c + CountWidth - 1) % CountWidth = c - 1
<1>1. CountWidth \in Nat /\ CountWidth > 0
  BY RoomAssumption, FS_CardinalityType DEF RoomAssumption
<1>2. \A n \in 0 .. CountWidth - 1 : n % CountWidth = n /\ (n + CountWidth) % CountWidth = n
  BY <1>1, Z3
<1>3. \A n \in Nat : n % CountWidth \in 0 .. CountWidth - 1
  BY <1>1, Z3
<1> QED
  BY <1>1, <1>2, <1>3

(* Zero is no payload. *)
LEMMA NoPayloadIsZero == 0 \notin Payloads
  BY PayloadsAssumption DEF PayloadsAssumption

(* Initially nothing is allocated. *)
LEMMA RcuInitInv == RcuInit => RcuInv
<1> SUFFICES ASSUME RcuInit
             PROVE  RcuInv
  OBVIOUS
<1>1. 0 \in 0 .. CountWidth - 1
  BY RoomAssumption, FS_CardinalityType DEF RoomAssumption
<1>2. RcuTypeOK
  BY <1>1 DEF RcuInit, RcuTypeOK, Zero
<1>3. NamesInv /\ FreshInv /\ ReplacedInv
  BY DEF RcuInit, NamesInv, FreshInv, ReplacedInv, Zero, Unpublished, Replaces
<1>4. BiasInv
  BY NoPayloadIsZero DEF RcuInit, BiasInv, Unpublished
<1> QED
  BY <1>2, <1>3, <1>4 DEF RcuInv

(* A reader takes a reference to the published payload. *)
LEMMA RcuReadInv ==
  ASSUME RcuInv, NEW t \in Threads, RcuRead(t), UNCHANGED gone
  PROVE  RcuInv'
<1> USE NoPayloadIsZero DEF RcuInv, RcuTypeOK, RcuRead, Move
<1>1. CASE src = 0 /\ UNCHANGED <<rcu_pc, count, held, touched>>
  BY <1>1 DEF NamesInv, FreshInv, ReplacedInv, BiasInv, References, Unpublished, Replaces
<1>2. CASE src # 0 /\ count' = [count EXCEPT ![src] = (@ + 1) % CountWidth]
           /\ held' = [held EXCEPT ![t] = src] /\ rcu_pc' = [rcu_pc EXCEPT ![t] = "reading"]
  <2>1. src \in Payloads /\ rcu_pc[t] = "out" /\ held[t] = 0 /\ tsf[t] = 0
    BY <1>2 DEF NamesInv
  <2>2. RcuTypeOK'
    BY <1>2, <2>1, CountSteps
  <2>3. NamesInv'
    BY <1>2, <2>1 DEF NamesInv, Replaces
  <2>4. FreshInv' /\ ReplacedInv'
    BY <1>2, <2>1 DEF FreshInv, ReplacedInv, Unpublished, Replaces
  <2>5. t \notin References(src) /\ References(src)' = References(src) \cup {t}
    BY <1>2, <2>1 DEF References
  <2>6. Cardinality(References(src)') = Cardinality(References(src)) + 1
    BY <2>5, ReferencesFinite, FS_AddElement
  <2>7. count'[src] = locked + Cardinality(References(src)')
    <3>1. count[src] = locked + Cardinality(References(src))
      BY <2>1 DEF BiasInv
    <3>2. count[src] \in 0 .. CountWidth - 2
      BY <3>1, ReferencesFinite, RoomAssumption DEF RoomAssumption
    <3> QED
      BY <1>2, <2>1, <2>6, <3>1, <3>2, CountSteps, ReferencesFinite, RoomAssumption
         DEF RoomAssumption
  <2>8. \A p \in Payloads \ {src} : References(p)' = References(p) /\ count'[p] = count[p]
    BY <1>2, <2>1 DEF References
  <2>9. BiasInv'
    BY <1>2, <2>1, <2>7, <2>8 DEF BiasInv, Unpublished
  <2> QED
    BY <2>2, <2>3, <2>4, <2>9
<1> QED
  BY <1>1, <1>2

(* A reference goes: the count of a payload that is published follows, and *)
(* it does not reach zero.                                                 *)
LEMMA DropKeepsBias ==
  ASSUME RcuInv, NEW t \in Threads, NEW q \in Payloads, Drop(q), UNCHANGED src,
         \A s \in Threads : Unpublished(s)' => Unpublished(s) /\ tsf'[s] = tsf[s] /\ tsf[s] # q,
         \A p \in Payloads \ {q} : References(p)' = References(p),
         t \in References(q), References(q)' = References(q) \ {t}
  PROVE  BiasInv'
<1> USE DEF RcuInv, RcuTypeOK, Drop
<1>1. \A p \in Payloads \ {q} : count'[p] = count[p] /\ live'[p] = live[p]
  OBVIOUS
<1>2. ASSUME q = src
      PROVE  live'[q] /\ count'[q] = locked + Cardinality(References(q)')
  <2>1. live[q] /\ count[q] = locked + Cardinality(References(q))
    BY <1>2 DEF BiasInv
  <2>2. Cardinality(References(q)') = Cardinality(References(q)) - 1
        /\ Cardinality(References(q)') \in Nat
    <3>1. Cardinality(References(q) \ {t}) = Cardinality(References(q)) - 1
          /\ IsFiniteSet(References(q) \ {t})
      BY ReferencesFinite, FS_RemoveElement
    <3> QED
      BY <3>1, FS_CardinalityType
  <2>3. count[q] \in 2 .. CountWidth - 1
    BY <2>1, <2>2, ReferencesFinite, RoomAssumption DEF RoomAssumption
  <2> QED
    BY <2>1, <2>2, <2>3, CountSteps, ReferencesFinite, RoomAssumption DEF RoomAssumption
<1>3. ASSUME NEW p \in Payloads, p # q, p = src \/ \E s \in Threads : Unpublished(s)' /\ tsf'[s] = p
      PROVE  live'[p] /\ count'[p] = locked + Cardinality(References(p)')
  <2>1. p = src \/ \E s \in Threads : Unpublished(s) /\ tsf[s] = p
    BY <1>3
  <2> QED
    BY <1>1, <1>3, <2>1 DEF BiasInv
<1>4. ~\E s \in Threads : Unpublished(s)' /\ tsf'[s] = q
  OBVIOUS
<1> QED
  BY <1>2, <1>3, <1>4 DEF BiasInv

(* A reader is through with its payload. *)
LEMMA ReadEndsInv ==
  ASSUME RcuInv, NEW t \in Threads, ReadEnds(t), UNCHANGED gone
  PROVE  RcuInv'
<1> USE NoPayloadIsZero DEF RcuInv, RcuTypeOK, ReadEnds, Move
<1>1. PICK q \in Payloads : q = held[t] /\ Drop(q)
  BY DEF NamesInv
<1>2. rcu_pc[t] = "reading" /\ tsf[t] = 0
  BY DEF NamesInv
<1>3. RcuTypeOK'
  BY <1>1, CountSteps DEF Drop
<1>4. NamesInv'
  BY <1>2 DEF NamesInv, Replaces
<1>5. FreshInv'
  BY <1>1, <1>2 DEF FreshInv, NamesInv, Unpublished
<1>9. ReplacedInv'
  BY <1>1, <1>2 DEF ReplacedInv, Replaces
<1>6. \A s \in Threads : Unpublished(s)' => Unpublished(s) /\ tsf'[s] = tsf[s] /\ tsf[s] # q
  BY <1>1, <1>2 DEF Unpublished, FreshInv
<1>7. /\ \A p \in Payloads \ {q} : References(p)' = References(p)
      /\ t \in References(q) /\ References(q)' = References(q) \ {t}
  BY <1>1, <1>2 DEF References
<1>8. BiasInv'
  BY <1>1, <1>6, <1>7, DropKeepsBias
<1> QED
  BY <1>3, <1>4, <1>5, <1>8, <1>9

(* An updater allocates a payload: the first reference is its own. *)
LEMMA NewInv ==
  ASSUME RcuInv, NEW t \in Threads, New(t), UNCHANGED gone
  PROVE  RcuInv'
<1> USE NoPayloadIsZero DEF RcuInv, RcuTypeOK, New, Move
<1>1. PICK p \in Payloads \ used :
        /\ used' = used \cup {p}
        /\ live' = [live EXCEPT ![p] = TRUE]
        /\ count' = [count EXCEPT ![p] = locked + 1]
        /\ tsf' = [tsf EXCEPT ![t] = p]
  OBVIOUS
<1>2. rcu_pc[t] = "out" /\ held[t] = 0 /\ tsf[t] = 0 /\ clue[t] = 0
  BY DEF NamesInv
<1>3. RcuTypeOK'
  <2>1. locked + 1 \in 0 .. CountWidth - 1
    BY RoomAssumption, FS_CardinalityType DEF RoomAssumption
  <2> QED
    BY <1>1, <2>1
<1>4. NamesInv'
  BY <1>1, <1>2 DEF NamesInv, Replaces
<1>5. FreshInv'
  BY <1>1, <1>2 DEF FreshInv, NamesInv, Unpublished
<1>6. ReplacedInv'
  BY <1>1, <1>2 DEF ReplacedInv, Replaces
<1>7. References(p)' = {t}
  BY <1>1, <1>2 DEF References, NamesInv
<1>8. \A q \in Payloads \ {p} : References(q)' = References(q)
  BY <1>1, <1>2 DEF References
<1>9. live'[p] /\ count'[p] = locked + Cardinality(References(p)')
  <2>1. Cardinality({t}) = 1
    BY FS_Singleton
  <2> QED
    BY <1>1, <1>7, <2>1
<1>10. BiasInv'
  BY <1>1, <1>2, <1>8, <1>9 DEF BiasInv, Unpublished
<1> QED
  BY <1>3, <1>4, <1>5, <1>6, <1>10

(* An updater keeps the payload that it will replace, and publishes. *)
LEMMA PublishInv ==
  ASSUME RcuInv, NEW t \in Threads, CopyClue(t) \/ Publish(t), UNCHANGED gone
  PROVE  RcuInv'
<1> USE NoPayloadIsZero DEF RcuInv, RcuTypeOK, Move
<1>1. \A p \in Payloads : References(p)' = References(p)
  BY DEF References, CopyClue, Publish
<1>2. CASE CopyClue(t)
  <2> USE <1>2 DEF CopyClue
  <2>1. RcuTypeOK'
    OBVIOUS
  <2>2. NamesInv'
    BY DEF NamesInv, Replaces
  <2>3. FreshInv' /\ ReplacedInv'
    BY DEF FreshInv, ReplacedInv, Unpublished, Replaces
  <2>4. BiasInv'
    BY <1>1 DEF BiasInv, Unpublished
  <2> QED
    BY <2>1, <2>2, <2>3, <2>4
<1>3. CASE Publish(t)
  <2> USE <1>3 DEF Publish
  <2>1. RcuTypeOK'
    OBVIOUS
  <2>2. NamesInv'
    BY DEF NamesInv, Replaces
  <2>3. FreshInv' /\ ReplacedInv'
    BY DEF NamesInv, FreshInv, ReplacedInv, Unpublished, Replaces
  <2>4. BiasInv'
    BY <1>1 DEF BiasInv, Unpublished
  <2> QED
    BY <2>1, <2>2, <2>3, <2>4
<1> QED
  BY <1>2, <1>3

(* An updater masks the count of the payload that it has replaced: the     *)
(* count of no other payload.                                              *)
LEMMA MaskInv ==
  ASSUME RcuInv, NEW t \in Threads, Load(t) \/ Mask(t), UNCHANGED gone
  PROVE  RcuInv'
<1> USE NoPayloadIsZero DEF RcuInv, RcuTypeOK, Move, Load, Mask
<1>1. clue[t] \in Payloads /\ clue[t] # src /\ Replaces(t) /\ tsf[t] # 0
  BY DEF NamesInv, ReplacedInv, Replaces
<1>2. \A s \in Threads : Unpublished(s) => tsf[s] # clue[t]
  BY <1>1 DEF FreshInv
<1>3. \A p \in Payloads : References(p)' = References(p)
  BY DEF References
<1>4. RcuTypeOK'
  <2>1. 0 \in 0 .. CountWidth - 1 /\ BitAnd(tmp[t], unlocked) \in 0 .. CountWidth - 1
    BY RoomAssumption, FS_CardinalityType, MaskAssumption DEF RoomAssumption, MaskAssumption
  <2> QED
    BY <1>1, <2>1
<1>5. NamesInv'
  BY <1>1 DEF NamesInv, Replaces
<1>6. FreshInv' /\ ReplacedInv'
  BY <1>1 DEF FreshInv, ReplacedInv, Unpublished, Replaces
<1>7. \A s \in Threads : Unpublished(s)' => Unpublished(s)
  BY <1>1 DEF Unpublished, Replaces
<1>8. \A p \in Payloads \ {clue[t]} : count'[p] = count[p] /\ live'[p] = live[p]
  OBVIOUS
<1>9. BiasInv'
  BY <1>1, <1>2, <1>3, <1>7, <1>8 DEF BiasInv
<1> QED
  BY <1>4, <1>5, <1>6, <1>9

(* An updater drops the payload that it has replaced. *)
LEMMA DropClueInv ==
  ASSUME RcuInv, NEW t \in Threads, DropClue(t), UNCHANGED gone
  PROVE  RcuInv'
<1> USE NoPayloadIsZero DEF RcuInv, RcuTypeOK, Move, DropClue
<1>1. clue[t] \in Payloads /\ clue[t] # src /\ Replaces(t) /\ tsf[t] # 0
  BY DEF NamesInv, ReplacedInv, Replaces
<1>2. \A s \in Threads : Unpublished(s) => tsf[s] # clue[t]
  BY <1>1 DEF FreshInv
<1>3. \A p \in Payloads : References(p)' = References(p)
  BY DEF References
<1>4. RcuTypeOK'
  BY <1>1, CountSteps DEF Drop
<1>5. NamesInv'
  BY <1>1 DEF NamesInv, Replaces
<1>6. FreshInv'
  BY <1>1 DEF FreshInv, NamesInv, Unpublished
<1>10. ReplacedInv'
  BY <1>1 DEF ReplacedInv, Replaces
<1>7. \A s \in Threads : Unpublished(s)' => Unpublished(s)
  BY <1>1 DEF Unpublished, Replaces
<1>8. \A p \in Payloads \ {clue[t]} : count'[p] = count[p] /\ live'[p] = live[p]
  BY DEF Drop
<1>9. BiasInv'
  BY <1>1, <1>2, <1>3, <1>7, <1>8 DEF BiasInv
<1> QED
  BY <1>4, <1>5, <1>6, <1>9, <1>10

(* An updater drops the payload that it made. *)
LEMMA DropTsfInv ==
  ASSUME RcuInv, NEW t \in Threads, DropTsf(t), UNCHANGED gone
  PROVE  RcuInv'
<1> USE NoPayloadIsZero DEF RcuInv, RcuTypeOK, DropTsf, Move
<1>1. PICK q \in Payloads : q = tsf[t] /\ Drop(q)
  BY DEF NamesInv
<1>2. rcu_pc[t] = "u_tsf" /\ held[t] = 0
  BY DEF NamesInv
<1>3. RcuTypeOK'
  BY <1>1, CountSteps DEF Drop
<1>4. NamesInv'
  BY <1>2 DEF NamesInv, Replaces
<1>5. FreshInv'
  BY <1>1, <1>2 DEF FreshInv, NamesInv, Unpublished
<1>10. ReplacedInv'
  BY <1>1, <1>2 DEF ReplacedInv, Replaces
<1>6. \A s \in Threads : Unpublished(s)' => Unpublished(s) /\ tsf'[s] = tsf[s] /\ tsf[s] # q
  BY <1>1, <1>2 DEF Unpublished, FreshInv
<1>7. \A s \in Threads : tsf[s] = q => s = t
  BY <1>1 DEF FreshInv
<1>8. /\ \A p \in Payloads \ {q} : References(p)' = References(p)
      /\ t \in References(q) /\ References(q)' = References(q) \ {t}
  BY <1>1, <1>2 DEF References
<1>9. BiasInv'
  BY <1>1, <1>6, <1>8, DropKeepsBias
<1> QED
  BY <1>3, <1>4, <1>5, <1>9, <1>10

(* The destructor drops the published payload, when no updater is left. *)
LEMMA RcuDestroyInv ==
  ASSUME RcuInv, RcuDestroy
  PROVE  RcuInv'
<1> USE NoPayloadIsZero DEF RcuInv, RcuTypeOK, RcuDestroy
<1>1. \A s \in Threads : ~Unpublished(s) /\ ~Replaces(s) /\ ~Unpublished(s)' /\ ~Replaces(s)'
  BY DEF Unpublished, Replaces
<1>2. RcuTypeOK'
  <2>1. CASE src = 0 /\ UNCHANGED <<count, live>>
    BY <2>1
  <2>2. CASE src \in Payloads /\ Drop(src)
    <3>1. (count[src] + CountWidth - 1) % CountWidth \in 0 .. CountWidth - 1
      BY <2>2, CountSteps
    <3>2. count' \in [Payloads -> 0 .. CountWidth - 1]
      BY <2>2, <3>1 DEF Drop
    <3>3. live' \in [Payloads -> BOOLEAN]
      BY <2>2 DEF Drop
    <3> QED
      BY <3>2, <3>3
  <2>3. (src = 0 /\ UNCHANGED <<count, live>>) \/ (src \in Payloads /\ Drop(src))
    OBVIOUS
  <2> QED
    BY <2>1, <2>2, <2>3
<1>3. NamesInv'
  BY <1>1 DEF NamesInv
<1>4. FreshInv' /\ ReplacedInv' /\ BiasInv'
  BY <1>1 DEF FreshInv, ReplacedInv, BiasInv
<1> QED
  BY <1>2, <1>3, <1>4

(* Every step keeps the invariant. *)
LEMMA RcuStepInv == RcuInv /\ [RcuNext]_rcuVars => RcuInv'
<1> SUFFICES ASSUME RcuInv, [RcuNext]_rcuVars
             PROVE  RcuInv'
  OBVIOUS
<1>1. CASE UNCHANGED rcuVars
  <2> USE <1>1 DEF rcuVars, RcuInv
  <2>1. RcuTypeOK'
    BY DEF RcuTypeOK
  <2>2. NamesInv' /\ ReplacedInv'
    BY DEF NamesInv, ReplacedInv, Replaces
  <2>3. FreshInv' /\ BiasInv'
    BY DEF FreshInv, BiasInv, References, Unpublished
  <2> QED
    BY <2>1, <2>2, <2>3
<1> QED
  BY <1>1, RcuReadInv, ReadEndsInv, NewInv, PublishInv, MaskInv, DropClueInv, DropTsfInv,
     RcuDestroyInv DEF RcuNext

(* The invariant of rcu_t: every reachable state satisfies it. *)
THEOREM RcuInvariance == RcuSpec => []RcuInv
  BY RcuInitInv, RcuStepInv, PTL DEF RcuSpec

(* The payload that is published is live: its count stays above the bias   *)
(* under every interleaving of readers and updaters.                       *)
THEOREM RcuPublishedIsLive == RcuSpec => []RcuCurrentIsLive
<1>1. RcuInv => RcuCurrentIsLive
  BY DEF RcuInv, RcuTypeOK, BiasInv, RcuCurrentIsLive
<1> QED
  BY RcuInvariance, <1>1, PTL
-----------------------------------------------------------------------------
(* The locks side by side. *)

(* The word of spin_lock names the guard that is in. *)
SpinWordInv == spin_pc \in [Threads -> {"out", "cas", "in"}] /\ SpinMutualExclusion

(* spin_lock has one holder at a time. *)
THEOREM SpinLockExcludes == SpinSpec => []SpinMutualExclusion
<1>1. SpinInit => SpinWordInv
  BY NullAssumption DEF NullAssumption, SpinInit, SpinWordInv, SpinMutualExclusion
<1>2. SpinWordInv /\ [SpinNext]_spinVars => SpinWordInv'
  <2> SUFFICES ASSUME SpinWordInv, [SpinNext]_spinVars
               PROVE  SpinWordInv'
    OBVIOUS
  <2> USE NullAssumption DEF NullAssumption, SpinWordInv, SpinMutualExclusion, Move
  <2>1. CASE UNCHANGED spinVars
    BY <2>1 DEF spinVars
  <2>2. ASSUME NEW t \in Threads, SpinAsk(t)
        PROVE  SpinWordInv'
    BY <2>2 DEF SpinAsk
  <2>3. ASSUME NEW t \in Threads, SpinCas(t)
        PROVE  SpinWordInv'
    BY <2>3 DEF SpinCas
  <2>4. ASSUME NEW t \in Threads, SpinUnlock(t)
        PROVE  SpinWordInv'
    BY <2>4 DEF SpinUnlock
  <2> QED
    BY <2>1, <2>2, <2>3, <2>4 DEF SpinNext, SpinRun
<1>3. SpinWordInv => SpinMutualExclusion
  BY DEF SpinWordInv
<1> QED
  BY <1>1, <1>2, <1>3, PTL DEF SpinSpec

(* The locks that spin exclude, whatever their threads do in the others. *)
THEOREM LocksExcludeTogether == LocksSpec => []LocksExclude
  BY SpinLockExcludes, RwLockExcludes, SeqLockExcludes, PTL DEF LocksSpec, LocksExclude

(* All the locks keep their types. *)
THEOREM LocksTypeCorrect == LocksSpec => []TypesOK
<1>1. RwSpec => []RwTypeOK
  <2>1. RwInv => RwTypeOK
    BY DEF RwInv
  <2> QED
    BY <2>1, RwInitInv, RwStepInv, PTL DEF RwSpec
<1>2. SeqInv => SeqTypeOK
  BY DEF SeqInv
<1>3. RcuInv => RcuTypeOK
  BY DEF RcuInv
<1> QED
  BY <1>1, <1>2, <1>3, McsTypeCorrect, SeqInvariance, RcuInvariance, PTL DEF LocksSpec, TypesOK
=============================================================================
