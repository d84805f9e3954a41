--------------------------- MODULE MessagingProofs ---------------------------
(***************************************************************************)
(* The wait().handle() chains, for any senders, types and messages, any    *)
(* nesting of waits and any length of a chain: messages are dealt with in  *)
(* order, each as the chain of the wait that took it says.  At the end the *)
(* types of the pool and of all that is built on its queue.                *)
(***************************************************************************)
EXTENDS MCBasePool, PoolProofs, AlgoProofs

WaitFrames == [wait : Nat, chain : Chains]
Entries == [wait : Nat, chain : Chains, fate : Int]

-----------------------------------------------------------------------------
(* The inductive invariant, part by part. *)

FormInv ==
  /\ sent \in Seq(Kinds) /\ taken \in Nat /\ taken <= Len(sent)
  /\ frames \in Seq(WaitFrames) /\ log \in Seq(Entries)
  /\ waited \in Nat /\ msg \in Nat /\ at \in Nat
  /\ rpc \in {"user", "pull", "window", "asleep", "patch"}

(* The waits in progress are nested in the order they began. *)
NestInv ==
  /\ \A i \in DOMAIN frames : frames[i].wait \in 1 .. waited
  /\ \A i, j \in DOMAIN frames : i < j => frames[i].wait < frames[j].wait
  /\ \A i \in DOMAIN log : log[i].wait \in 1 .. waited

(* The innermost wait has not found its message while it pulls and patches,*)
(* and the links behind the one it is at do not fit.                       *)
PatchInv ==
  /\ rpc # "user" => frames # << >> /\ ~Answered(Top.wait)
  /\ rpc # "patch" => msg = Default
  /\ rpc = "patch" =>
       /\ msg \in {Default, taken} /\ at <= Len(Top.chain)
       /\ \A i \in at + 1 .. Len(Top.chain) : ~IsA(msg, Top.chain[i])

DispatchInv == FormInv /\ NestInv /\ PatchInv /\ DispatchedInOrder

-----------------------------------------------------------------------------
(* A chain is a sequence of the kinds its links take. *)
LEMMA ChainsAreSequences == ASSUME NEW c \in Chains PROVE c \in Seq(Kinds) /\ Len(c) \in Nat
<1>1. PICK n \in 0 .. MaxHandlers : c \in [1 .. n -> Kinds]
  BY DEF Chains
<1>2. n \in Nat
  BY <1>1, BoundsAssumption DEF BoundsAssumption
<1> QED
  BY <1>1, <1>2

(* The last link that fits has the message; if none does, it is the base's. *)
LEMMA FateIs ==
  ASSUME NEW c \in Chains, NEW k \in Kinds, NEW a \in 0 .. Len(c),
         \A i \in a + 1 .. Len(c) : c[i] # k, a = 0 \/ c[a] = k
  PROVE  Fate(c, k) = IF a > 0 THEN a ELSE IF k = ClosedKind THEN Thrown ELSE Dropped
<1> DEFINE fits == {i \in DOMAIN c : c[i] = k}
<1>1. c \in Seq(Kinds) /\ Len(c) \in Nat /\ DOMAIN c = 1 .. Len(c)
  BY ChainsAreSequences
<1>2. CASE a = 0
  <2>1. fits = {}
    BY <1>1, <1>2
  <2> QED
    BY <2>1, <1>2 DEF Fate
<1>3. CASE a > 0
  <2>1. a \in fits /\ \A j \in fits : j <= a
    BY <1>1, <1>3
  <2>2. \A i \in fits : (\A j \in fits : j <= i) => i = a
    BY <1>1, <2>1
  <2>3. (CHOOSE i \in fits : \A j \in fits : j <= i) = a
    BY <2>1, <2>2
  <2> QED
    BY <2>1, <2>3, <1>3 DEF Fate
<1> QED
  BY <1>2, <1>3

(* The wait that pulls or patches is there. *)
LEMMA TopIs ==
  ASSUME DispatchInv, rpc # "user"
  PROVE  /\ frames # << >> /\ Len(frames) \in DOMAIN frames
         /\ Top \in WaitFrames /\ Top.wait \in 1 .. waited /\ Top.wait \in Nat
         /\ Top.chain \in Chains /\ Len(Top.chain) \in Nat
<1>1. frames \in Seq(WaitFrames) /\ frames # << >>
  BY DEF DispatchInv, FormInv, PatchInv
<1>2. Len(frames) \in DOMAIN frames /\ frames[Len(frames)] \in WaitFrames
  BY <1>1
<1>3. Top.wait \in 1 .. waited
  BY <1>2 DEF Top, DispatchInv, NestInv
<1> QED
  BY <1>1, <1>2, <1>3, ChainsAreSequences DEF Top, WaitFrames

(* Something was dealt with in the wait of top, which had not found its    *)
(* message yet.                                                            *)
LEMMA Logged ==
  ASSUME DispatchInv, rpc = "patch", msg # Default, NEW f, f = Fate(Top.chain, sent[msg]),
         f \in Int, log' = Append(log, [wait |-> Top.wait, chain |-> Top.chain, fate |-> f]),
         msg' = Default, UNCHANGED <<sent, taken, waited>>
  PROVE  /\ log' \in Seq(Entries) /\ \A i \in DOMAIN log' : log'[i].wait \in 1 .. waited'
         /\ Len(log') = taken'
         /\ \A i \in DOMAIN log' :
              /\ log'[i].fate = Fate(log'[i].chain, sent'[i])
              /\ log'[i].fate # Dropped =>
                   \A j \in DOMAIN log' : j > i => log'[j].wait # log'[i].wait
         /\ \A w \in Nat : Answered(w)' <=> Answered(w) \/ (w = Top.wait /\ f # Dropped)
<1> DEFINE n == Len(log)
           e == [wait |-> Top.wait, chain |-> Top.chain, fate |-> f]
<1>1. /\ sent \in Seq(Kinds) /\ log \in Seq(Entries) /\ n \in Nat /\ frames \in Seq(WaitFrames)
      /\ frames # << >> /\ Len(frames) \in DOMAIN frames /\ Top \in WaitFrames /\ waited \in Nat
      /\ taken \in Nat /\ msg = taken /\ n = taken - 1
  BY DEF DispatchInv, FormInv, PatchInv, DispatchedInOrder, Top
<1>2. e \in Entries /\ Top.wait \in 1 .. waited
  BY <1>1 DEF WaitFrames, Entries, DispatchInv, NestInv, Top
<1>3. /\ log' \in Seq(Entries) /\ DOMAIN log' = 1 .. n + 1 /\ DOMAIN log = 1 .. n
      /\ Len(log') = n + 1 /\ log'[n + 1] = e /\ \A i \in 1 .. n : log'[i] = log[i]
  BY <1>1, <1>2
<1>4. \A i \in DOMAIN log : log[i].fate # Dropped => log[i].wait # Top.wait
  BY DEF DispatchInv, PatchInv, Answered
<1>5. \A i \in DOMAIN log' : log'[i].wait \in 1 .. waited'
  BY <1>2, <1>3 DEF DispatchInv, NestInv
<1>6. \A i \in DOMAIN log' : log'[i].fate = Fate(log'[i].chain, sent'[i])
  BY <1>1, <1>3 DEF DispatchInv, DispatchedInOrder
<1>7. ASSUME NEW i \in DOMAIN log', log'[i].fate # Dropped, NEW j \in DOMAIN log', j > i
      PROVE  log'[j].wait # log'[i].wait
  BY <1>1, <1>3, <1>4, <1>7 DEF DispatchInv, DispatchedInOrder
<1>8. ASSUME NEW w \in Nat
      PROVE  Answered(w)' <=> Answered(w) \/ (w = Top.wait /\ f # Dropped)
  BY <1>1, <1>3 DEF Answered
<1> QED
  BY <1>1, <1>3, <1>5, <1>6, <1>7, <1>8

-----------------------------------------------------------------------------
(* A step that leaves what was dealt with, and the waits, alone.           *)
LEMMA NothingNewInv ==
  ASSUME DispatchInv, UNCHANGED <<taken, frames, waited, log>>,
         sent' = sent \/ \E k \in Kinds : sent' = Append(sent, k),
         \/ UNCHANGED <<rpc, msg, at>>
         \/ /\ rpc \in {"pull", "window", "asleep"} /\ rpc' \in {"pull", "window", "asleep"}
            /\ UNCHANGED <<msg, at>>
  PROVE  DispatchInv'
<1>1. /\ sent' \in Seq(Kinds) /\ Len(sent') >= Len(sent) /\ Len(sent) \in Nat
      /\ \A i \in 1 .. Len(sent) : sent'[i] = sent[i]
  <2>1. sent \in Seq(Kinds)
    BY DEF DispatchInv, FormInv
  <2>2. CASE sent' = sent
    BY <2>1, <2>2
  <2>3. CASE \E k \in Kinds : sent' = Append(sent, k)
    BY <2>1, <2>3
  <2> QED
    BY <2>2, <2>3
<1>2. FormInv' /\ NestInv'
  BY <1>1 DEF DispatchInv, FormInv, NestInv
<1>3. msg # Default => msg \in 1 .. Len(sent)
  BY DEF DispatchInv, FormInv, PatchInv, Default
<1>4. \A w : Answered(w)' <=> Answered(w)
  BY DEF Answered
<1>5. PatchInv'
  BY <1>1, <1>3, <1>4 DEF DispatchInv, PatchInv, IsA, Top
<1>6. \A i \in DOMAIN log : i \in 1 .. Len(sent)
  BY <1>1 DEF DispatchInv, FormInv, DispatchedInOrder
<1>7. \A i \in DOMAIN log : log[i].fate = Fate(log[i].chain, sent'[i])
  BY <1>1, <1>6 DEF DispatchInv, DispatchedInOrder
<1>8. DispatchedInOrder'
  <2>1. Len(log') = taken' - (IF rpc' = "patch" /\ msg' # Default THEN 1 ELSE 0)
    BY DEF DispatchInv, DispatchedInOrder
  <2>2. \A w \in 1 .. waited' :
          ~InProgress(w)' \/ (rpc' = "user" \/ w # Top'.wait) => Answered(w)'
    BY <1>4 DEF DispatchInv, DispatchedInOrder, InProgress, Top
  <2>3. \A i \in DOMAIN log : log[i].fate # Dropped =>
          \A j \in DOMAIN log : j > i => log[j].wait # log[i].wait
    BY DEF DispatchInv, DispatchedInOrder
  <2> QED
    BY <1>7, <2>1, <2>2, <2>3 DEF DispatchedInOrder
<1> QED
  BY <1>2, <1>5, <1>8 DEF DispatchInv
-----------------------------------------------------------------------------
(* Before the first wait nothing was sent. *)
LEMMA DispatchInitInv == DispatchInit => DispatchInv
<1> SUFFICES ASSUME DispatchInit PROVE DispatchInv
  OBVIOUS
<1>1. FormInv
  BY DEF DispatchInit, FormInv, Default
<1>2. NestInv /\ PatchInv
  BY DEF DispatchInit, NestInv, PatchInv, Default
<1>3. DispatchedInOrder
  BY DEF DispatchInit, DispatchedInOrder, Default
<1> QED
  BY <1>1, <1>2, <1>3 DEF DispatchInv

(* A wait begins inside of those in progress. *)
LEMMA WaitInv == ASSUME DispatchInv, NEW chain \in Chains, Wait(chain) PROVE DispatchInv'
<1> DEFINE n == Len(frames)
           f == [wait |-> waited + 1, chain |-> chain]
<1>1. /\ frames \in Seq(WaitFrames) /\ n \in Nat /\ waited \in Nat /\ f \in WaitFrames
      /\ waited' = waited + 1 /\ rpc = "user" /\ rpc' = "pull" /\ msg = Default
      /\ UNCHANGED <<sent, closed, notifying, taken, msg, at, log>>
      /\ frames' = Append(frames, f)
  BY DEF DispatchInv, FormInv, PatchInv, Wait, WaitFrames, queueVars
<1>2. /\ frames' \in Seq(WaitFrames) /\ Len(frames') = n + 1 /\ frames' # << >>
      /\ DOMAIN frames' = 1 .. n + 1 /\ DOMAIN frames = 1 .. n
      /\ frames'[n + 1] = f /\ \A i \in 1 .. n : frames'[i] = frames[i]
  BY <1>1
<1>3. FormInv'
  BY <1>1, <1>2 DEF DispatchInv, FormInv
<1>4. NestInv'
  <2>1. \A i \in DOMAIN frames : frames[i].wait \in 1 .. waited
    BY DEF DispatchInv, NestInv
  <2>2. \A i \in DOMAIN frames' : frames'[i].wait \in 1 .. waited'
    BY <1>1, <1>2, <2>1
  <2>3. ASSUME NEW i \in DOMAIN frames', NEW j \in DOMAIN frames', i < j
        PROVE  frames'[i].wait < frames'[j].wait
    <3>1. CASE j = n + 1
      BY <1>1, <1>2, <2>1, <2>3, <3>1
    <3>2. CASE j # n + 1
      BY <1>1, <1>2, <2>3, <3>2 DEF DispatchInv, NestInv
    <3> QED
      BY <3>1, <3>2
  <2>4. \A i \in DOMAIN log' : log'[i].wait \in 1 .. waited'
    BY <1>1 DEF DispatchInv, NestInv
  <2> QED
    BY <2>2, <2>3, <2>4 DEF NestInv
<1>5. Top'.wait = waited + 1
  BY <1>1, <1>2 DEF Top
<1>6. /\ \A w : Answered(w)' <=> Answered(w)
      /\ ~Answered(waited + 1)
  BY <1>1 DEF Answered, DispatchInv, NestInv
<1>7. PatchInv'
  BY <1>1, <1>2, <1>5, <1>6 DEF PatchInv
<1>8. DispatchedInOrder'
  <2>1. Len(log') = taken' - (IF rpc' = "patch" /\ msg' # Default THEN 1 ELSE 0)
    BY <1>1 DEF DispatchInv, DispatchedInOrder
  <2>2. \A w \in 1 .. waited : Answered(w)
    BY <1>1 DEF DispatchInv, DispatchedInOrder
  <2>3. InProgress(waited)'
    <3>1. n + 1 \in DOMAIN frames' /\ frames'[n + 1].wait = waited'
      BY <1>1, <1>2
    <3> QED
      BY <3>1 DEF InProgress
  <2>4. \A w \in 1 .. waited' :
          ~InProgress(w)' \/ (rpc' = "user" \/ w # Top'.wait) => Answered(w)'
    <3> SUFFICES ASSUME NEW w \in 1 .. waited', w = waited' => InProgress(w)' /\ w = Top'.wait,
                        ~InProgress(w)' \/ w # Top'.wait \/ w # waited'
                 PROVE  Answered(w)'
      BY <1>1, <1>5, <2>3
    <3>1. w \in 1 .. waited
      BY <1>1
    <3> QED
      BY <1>6, <2>2, <3>1
  <2> QED
    BY <1>1, <2>1, <2>4 DEF DispatchInv, DispatchedInOrder
<1> QED
  BY <1>3, <1>4, <1>7, <1>8 DEF DispatchInv

(* The innermost wait takes the next message, finds none, or a default one. *)
LEMMA ReceiverPullInv == ASSUME DispatchInv, Pull PROVE DispatchInv'
<1>1. CASE rpc' = "window"
  BY <1>1, NothingNewInv DEF Pull, queueVars
<1>2. CASE rpc' = "patch"
  <2>1. /\ UNCHANGED <<sent, frames, waited, log>> /\ at' = Len(Top.chain) /\ rpc = "pull"
        /\ \/ msg' = Default /\ taken' = taken
           \/ msg' = taken + 1 /\ taken' = taken + 1 /\ taken < Len(sent)
    BY <1>2 DEF Pull, queueVars, DispatchInv, PatchInv
  <2>2. /\ sent \in Seq(Kinds) /\ taken \in Nat /\ taken <= Len(sent)
        /\ frames # << >> /\ Top \in WaitFrames /\ Len(Top.chain) \in Nat
    BY <2>1, TopIs DEF DispatchInv, FormInv
  <2>3. FormInv' /\ NestInv'
    BY <1>2, <2>1, <2>2 DEF DispatchInv, FormInv, NestInv, Default
  <2>4. \A w : Answered(w)' <=> Answered(w)
    BY <2>1 DEF Answered
  <2>5. Top' = Top
    BY <2>1 DEF Top
  <2>6. PatchInv'
    BY <1>2, <2>1, <2>2, <2>4, <2>5 DEF DispatchInv, PatchInv, Default
  <2>7. Len(log') = taken' - (IF rpc' = "patch" /\ msg' # Default THEN 1 ELSE 0)
    BY <1>2, <2>1, <2>2 DEF DispatchInv, DispatchedInOrder, Default
  <2>8. \A w \in 1 .. waited' :
          ~InProgress(w)' \/ (rpc' = "user" \/ w # Top'.wait) => Answered(w)'
    BY <1>2, <2>1, <2>4, <2>5 DEF DispatchInv, DispatchedInOrder, InProgress
  <2>9. DispatchedInOrder'
    BY <2>1, <2>7, <2>8 DEF DispatchInv, DispatchedInOrder
  <2> QED
    BY <2>3, <2>6, <2>9 DEF DispatchInv
<1> QED
  BY <1>1, <1>2 DEF Pull

-----------------------------------------------------------------------------
(* Leaving some of the waits keeps the others as they are nested. *)
LEMMA CutNest ==
  ASSUME DispatchInv, NEW m \in 0 .. Len(frames), frames' = SubSeq(frames, 1, m)
  PROVE  /\ frames' \in Seq(WaitFrames)
         /\ \A i \in DOMAIN frames' : frames'[i].wait \in 1 .. waited
         /\ \A i, j \in DOMAIN frames' : i < j => frames'[i].wait < frames'[j].wait
<1>1. frames \in Seq(WaitFrames) /\ Len(frames) \in Nat
  BY DEF DispatchInv, FormInv
<1>2. /\ frames' \in Seq(WaitFrames) /\ DOMAIN frames' = 1 .. m /\ DOMAIN frames = 1 .. Len(frames)
      /\ \A i \in 1 .. m : frames'[i] = frames[i] /\ i \in DOMAIN frames
  BY <1>1
<1> QED
  BY <1>2 DEF DispatchInv, NestInv

(* Leaving none of the waits is a cut too. *)
LEMMA NothingCut ==
  ASSUME DispatchInv, UNCHANGED frames
  PROVE  \E m \in 0 .. Len(frames) : frames' = SubSeq(frames, 1, m)
<1>1. frames \in Seq(WaitFrames) /\ Len(frames) \in Nat
  BY DEF DispatchInv, FormInv
<1>2. frames' = SubSeq(frames, 1, Len(frames))
  BY <1>1
<1>3. Len(frames) \in 0 .. Len(frames)
  BY <1>1
<1> HIDE DEF DispatchInv
<1> QED
  BY <1>2, <1>3

(* The innermost wait has found its message, and every other one has.      *)
LEMMA FoundInv ==
  ASSUME DispatchInv, rpc = "patch", msg # Default, NEW f \in Int \ {Dropped},
         f = Fate(Top.chain, sent[msg]), Patched(f, "user"),
         \E m \in 0 .. Len(frames) : frames' = SubSeq(frames, 1, m),
         UNCHANGED <<sent, taken, waited>>
  PROVE  DispatchInv'
<1>1. /\ rpc' = "user" /\ msg' = Default /\ at' = 0
      /\ log' = Append(log, [wait |-> Top.wait, chain |-> Top.chain, fate |-> f])
  BY DEF Patched
<1>2. /\ log' \in Seq(Entries) /\ \A i \in DOMAIN log' : log'[i].wait \in 1 .. waited'
      /\ Len(log') = taken'
      /\ \A i \in DOMAIN log' :
           /\ log'[i].fate = Fate(log'[i].chain, sent'[i])
           /\ log'[i].fate # Dropped =>
                \A j \in DOMAIN log' : j > i => log'[j].wait # log'[i].wait
      /\ \A w \in Nat : Answered(w)' <=> Answered(w) \/ (w = Top.wait /\ f # Dropped)
  BY <1>1, Logged
<1>3. FormInv' /\ NestInv'
  <2>1. PICK m \in 0 .. Len(frames) : frames' = SubSeq(frames, 1, m)
    OBVIOUS
  <2>2. /\ frames' \in Seq(WaitFrames)
        /\ \A i \in DOMAIN frames' : frames'[i].wait \in 1 .. waited'
        /\ \A i, j \in DOMAIN frames' : i < j => frames'[i].wait < frames'[j].wait
    BY <2>1, CutNest
  <2>3. FormInv'
    BY <1>1, <1>2, <2>2 DEF DispatchInv, FormInv, Default
  <2> QED
    BY <1>2, <2>2, <2>3 DEF NestInv
<1>4. PatchInv'
  BY <1>1 DEF PatchInv
<1>5. \A w \in 1 .. waited' : Answered(w)'
  <2>1. waited \in Nat /\ \A w \in 1 .. waited : w \in Nat
    BY DEF DispatchInv, FormInv
  <2>2. \A w \in 1 .. waited : w # Top.wait => Answered(w)
    BY DEF DispatchInv, DispatchedInOrder
  <2> QED
    BY <1>2, <2>1, <2>2
<1>6. DispatchedInOrder'
  <2>1. Len(log') = taken' - (IF rpc' = "patch" /\ msg' # Default THEN 1 ELSE 0)
    BY <1>1, <1>2 DEF DispatchInv, FormInv
  <2> QED
    BY <1>2, <1>5, <2>1 DEF DispatchedInOrder
<1> QED
  BY <1>3, <1>4, <1>6 DEF DispatchInv

(* What the last link that fits, or the base, makes of the message is what *)
(* its chain says.                                                         *)
LEMMA AtFate ==
  ASSUME DispatchInv, rpc = "patch", msg # Default, at = 0 \/ IsA(msg, Top.chain[at])
  PROVE  Fate(Top.chain, sent[msg]) =
           IF at > 0 THEN at ELSE IF sent[msg] = ClosedKind THEN Thrown ELSE Dropped
<1>1. msg = taken /\ taken \in Nat /\ taken <= Len(sent) /\ sent \in Seq(Kinds) /\ msg # 0
  BY DEF DispatchInv, FormInv, PatchInv, Default
<1>2. sent[msg] \in Kinds
  BY <1>1
<1>3. at \in 0 .. Len(Top.chain) /\ Top.chain \in Chains
  BY TopIs DEF DispatchInv, FormInv, PatchInv
<1>4. at = 0 \/ Top.chain[at] = sent[msg]
  BY DEF IsA
<1>5. \A i \in at + 1 .. Len(Top.chain) : Top.chain[i] # sent[msg]
  BY DEF DispatchInv, PatchInv, IsA
<1> QED
  BY <1>2, <1>3, <1>4, <1>5, FateIs

(* patcher() of a link: the message fits, or goes to the link before. *)
LEMMA PatchStepInv == ASSUME DispatchInv, Patch PROVE DispatchInv'
<1>1. /\ rpc = "patch" /\ at \in Nat /\ at > 0 /\ at <= Len(Top.chain)
      /\ UNCHANGED <<sent, taken, frames, waited>>
  BY DEF DispatchInv, FormInv, PatchInv, Patch, queueVars
<1>2. CASE IsA(msg, Top.chain[at])
  <2>1. msg # Default /\ Patched(at, "user")
    BY <1>1, <1>2 DEF Patch, IsA
  <2>2. at \in Int \ {Dropped} /\ at = Fate(Top.chain, sent[msg])
    BY <1>1, <1>2, <2>1, AtFate DEF Dropped
  <2> QED
    BY <1>1, <2>1, <2>2, NothingCut, FoundInv
<1>3. CASE ~IsA(msg, Top.chain[at])
  <2>1. at' = at - 1 /\ UNCHANGED <<rpc, msg, log>>
    BY <1>3 DEF Patch
  <2>2. FormInv' /\ NestInv'
    BY <1>1, <2>1 DEF DispatchInv, FormInv, NestInv
  <2>3. Top' = Top /\ (\A w : Answered(w)' <=> Answered(w)) /\ \A k : IsA(msg, k)' <=> IsA(msg, k)
    BY <1>1, <2>1 DEF Top, Answered, IsA
  <2>4. \A i \in at' + 1 .. Len(Top.chain) : ~IsA(msg, Top.chain[i])
    <3> SUFFICES ASSUME NEW i \in at .. Len(Top.chain) PROVE ~IsA(msg, Top.chain[i])
      BY <1>1, <2>1
    <3>1. Len(Top.chain) \in Nat
      BY <1>1, TopIs
    <3>2. i = at \/ i \in at + 1 .. Len(Top.chain)
      BY <1>1, <3>1
    <3> QED
      BY <1>1, <1>3, <3>2 DEF DispatchInv, PatchInv
  <2>5. PatchInv'
    <3>1. at' <= Len(Top.chain)
      BY <1>1, <2>1, TopIs
    <3> QED
      BY <1>1, <2>1, <2>3, <2>4, <3>1 DEF DispatchInv, PatchInv, IsA
  <2>6. DispatchedInOrder'
    BY <1>1, <2>1, <2>3 DEF DispatchInv, DispatchedInOrder, InProgress
  <2> QED
    BY <2>2, <2>5, <2>6 DEF DispatchInv
<1> QED
  BY <1>2, <1>3

(* patcher() of the base: the message is thrown or dropped. *)
LEMMA PatchBaseInv == ASSUME DispatchInv, PatchBase PROVE DispatchInv'
<1>1. /\ rpc = "patch" /\ at = 0 /\ UNCHANGED <<sent, taken, waited>>
  BY DEF PatchBase, queueVars
<1>2. CASE IsA(msg, ClosedKind)
  <2>1. /\ msg # Default /\ sent[msg] = ClosedKind /\ Patched(Thrown, "user")
        /\ \E m \in 0 .. Len(frames) - 1 : frames' = SubSeq(frames, 1, m)
    BY <1>2 DEF PatchBase, IsA
  <2>2. Len(frames) \in Nat
    BY DEF DispatchInv, FormInv
  <2>3. \E m \in 0 .. Len(frames) : frames' = SubSeq(frames, 1, m)
    BY <2>1, <2>2
  <2>4. Thrown \in Int \ {Dropped} /\ Thrown = Fate(Top.chain, sent[msg])
    BY <1>1, <2>1, AtFate DEF Thrown, Dropped
  <2> QED
    BY <1>1, <2>1, <2>3, <2>4, FoundInv
<1>3. CASE ~IsA(msg, ClosedKind)
  <2>1. /\ rpc' = "pull" /\ msg' = Default /\ at' = 0 /\ UNCHANGED frames
        /\ log' = IF msg = Default THEN log
                  ELSE Append(log, [wait |-> Top.wait, chain |-> Top.chain, fate |-> Dropped])
    BY <1>3 DEF PatchBase, Patched
  <2>2. /\ log' \in Seq(Entries) /\ \A i \in DOMAIN log' : log'[i].wait \in 1 .. waited'
        /\ Len(log') = taken'
        /\ \A i \in DOMAIN log' :
             /\ log'[i].fate = Fate(log'[i].chain, sent'[i])
             /\ log'[i].fate # Dropped =>
                  \A j \in DOMAIN log' : j > i => log'[j].wait # log'[i].wait
        /\ \A w \in Nat : Answered(w)' <=> Answered(w)
    <3>1. CASE msg = Default
      BY <1>1, <2>1, <3>1
         DEF DispatchInv, FormInv, NestInv, DispatchedInOrder, Answered
    <3>2. CASE msg # Default
      <4>1. sent[msg] # ClosedKind
        BY <1>3, <3>2 DEF IsA
      <4>2. Dropped = Fate(Top.chain, sent[msg]) /\ Dropped \in Int
        BY <1>1, <3>2, <4>1, AtFate DEF Dropped
      <4> QED
        BY <1>1, <2>1, <3>2, <4>2, Logged
    <3> QED
      BY <3>1, <3>2
  <2>3. FormInv' /\ NestInv'
    BY <1>1, <2>1, <2>2 DEF DispatchInv, FormInv, NestInv, Default
  <2>4. Top' = Top
    BY <2>1 DEF Top
  <2>5. PatchInv'
    BY <1>1, <2>1, <2>2, <2>4, TopIs DEF DispatchInv, PatchInv
  <2>6. DispatchedInOrder'
    <3>1. Len(log') = taken' - (IF rpc' = "patch" /\ msg' # Default THEN 1 ELSE 0)
      BY <1>1, <2>1, <2>2 DEF DispatchInv, FormInv
    <3>2. waited \in Nat /\ \A w \in 1 .. waited : w \in Nat
      BY DEF DispatchInv, FormInv
    <3>3. \A w \in 1 .. waited' :
            ~InProgress(w)' \/ (rpc' = "user" \/ w # Top'.wait) => Answered(w)'
      BY <1>1, <2>1, <2>2, <2>4, <3>2 DEF DispatchInv, DispatchedInOrder, InProgress
    <3> QED
      BY <2>2, <3>1, <3>3 DEF DispatchedInOrder
  <2> QED
    BY <2>3, <2>5, <2>6 DEF DispatchInv
<1> QED
  BY <1>2, <1>3

(* A handler returns or throws; the wait it belongs to is over. *)
LEMMA HandlerEndsInv == ASSUME DispatchInv, HandlerEnds PROVE DispatchInv'
<1>1. /\ rpc = "user" /\ UNCHANGED <<sent, taken, rpc, msg, at, waited, log>>
      /\ \E m \in 0 .. Len(frames) - 1 : frames' = SubSeq(frames, 1, m)
  BY DEF HandlerEnds, queueVars
<1>2. Len(frames) \in Nat
  BY DEF DispatchInv, FormInv
<1>3. FormInv' /\ NestInv'
  BY <1>1, <1>2, CutNest DEF DispatchInv, FormInv, NestInv
<1>4. PatchInv'
  BY <1>1 DEF DispatchInv, PatchInv
<1>5. DispatchedInOrder'
  BY <1>1 DEF DispatchInv, DispatchedInOrder, Answered
<1> QED
  BY <1>3, <1>4, <1>5 DEF DispatchInv

(* Every step keeps the invariant of the dispatcher. *)
LEMMA DispatchStepInv == DispatchInv /\ [DispatchNext]_dispatchVars => DispatchInv'
<1> SUFFICES ASSUME DispatchInv, [DispatchNext]_dispatchVars PROVE DispatchInv'
  OBVIOUS
<1>1. CASE UNCHANGED dispatchVars
  BY <1>1, NothingNewInv DEF dispatchVars, queueVars
<1>2. ASSUME NEW s \in Senders, NEW k \in Kinds, Send(s, k) PROVE DispatchInv'
  BY <1>2, NothingNewInv DEF Send
<1>3. ASSUME NEW s \in Senders, CloseQueue(s) PROVE DispatchInv'
  BY <1>3, NothingNewInv DEF CloseQueue
<1>4. ASSUME NEW s \in Senders, Notify(s) PROVE DispatchInv'
  BY <1>4, NothingNewInv DEF Notify
<1>5. CASE FallsAsleep \/ WakesUp
  BY <1>5, NothingNewInv DEF FallsAsleep, WakesUp, queueVars
<1> QED
  BY <1>1, <1>2, <1>3, <1>4, <1>5, WaitInv, ReceiverPullInv, PatchStepInv, PatchBaseInv, HandlerEndsInv
     DEF DispatchNext, ReceiverStep

-----------------------------------------------------------------------------
(* The waits of a receiver are nested, and the one that patches a message  *)
(* has asked the links behind the one it is at.                            *)
THEOREM DispatchInvariance == DispatchSpec => []DispatchInv
<1> QED
  BY DispatchInitInv, DispatchStepInv, PTL DEF DispatchSpec

(* Every message is dealt with once, in the order of sending, by the wait  *)
(* that took it and as its chain says; and no wait ends without one.       *)
THEOREM MessagesInOrder == DispatchSpec => []DispatchedInOrder
<1>1. DispatchInv => DispatchedInOrder
  BY DEF DispatchInv
<1> QED
  BY <1>1, DispatchInvariance, PTL

-----------------------------------------------------------------------------
(* The limits of the message passing: what the types say of it beyond the  *)
(* invariant.                                                              *)
LimitsInv ==
  /\ Len(sent) <= MaxMessages /\ closed \in BOOLEAN /\ notifying \subseteq Senders
  /\ at \in 0 .. MaxHandlers /\ waited \in 0 .. MaxWaits

(* Nothing is sent or waited for yet. *)
LEMMA LimitsInit == DispatchInit => LimitsInv
<1> SUFFICES ASSUME DispatchInit
             PROVE  LimitsInv
  OBVIOUS
<1>1. Len(sent) <= MaxMessages /\ at \in 0 .. MaxHandlers /\ waited \in 0 .. MaxWaits
  BY BoundsAssumption DEF BoundsAssumption, DispatchInit
<1>2. closed \in BOOLEAN /\ notifying \subseteq Senders
  BY DEF DispatchInit
<1> QED
  BY <1>1, <1>2 DEF LimitsInv

(* Every step keeps the limits. *)
LEMMA LimitsStep ==
  ASSUME DispatchInv, LimitsInv, [DispatchNext]_dispatchVars
  PROVE  LimitsInv'
<1> USE BoundsAssumption DEF BoundsAssumption, LimitsInv
<1>1. /\ sent \in Seq(Kinds) /\ Len(sent) \in Nat /\ waited \in Nat /\ at \in Nat
  BY LenProperties DEF DispatchInv, FormInv
<1>2. CASE UNCHANGED dispatchVars
  BY <1>2 DEF dispatchVars, queueVars
<1>3. ASSUME NEW s \in Senders, NEW k \in Kinds, Send(s, k)
      PROVE  LimitsInv'
  BY <1>1, <1>3, AppendProperties DEF Send
<1>4. ASSUME NEW s \in Senders, CloseQueue(s) \/ Notify(s)
      PROVE  LimitsInv'
  BY <1>4 DEF CloseQueue, Notify
<1>5. ASSUME NEW chain \in Chains, Wait(chain)
      PROVE  LimitsInv'
  BY <1>1, <1>5 DEF Wait, queueVars
<1>6. CASE Pull
  <2>1. rpc = "pull" /\ Top \in WaitFrames
    BY <1>6, TopIs DEF Pull, DispatchInv, PatchInv
  <2>2. Top.chain \in Chains
    BY <2>1 DEF WaitFrames
  <2>3. PICK n \in 0 .. MaxHandlers : Top.chain \in [1 .. n -> Kinds]
    BY <2>2 DEF Chains
  <2>4. Len(Top.chain) \in 0 .. MaxHandlers
    BY <2>3
  <2> QED
    BY <1>6, <2>4 DEF Pull, queueVars
<1>7. CASE Patch \/ PatchBase
  BY <1>1, <1>7 DEF Patch, PatchBase, Patched, queueVars
<1>8. CASE FallsAsleep \/ WakesUp \/ HandlerEnds
  BY <1>8 DEF FallsAsleep, WakesUp, HandlerEnds, queueVars
<1> QED
  BY <1>2, <1>3, <1>4, <1>5, <1>6, <1>7, <1>8 DEF DispatchNext, ReceiverStep

(* The two invariants give the types. *)
LEMMA DispatchInvTypes == DispatchInv /\ LimitsInv => DispatchTypeOK
<1> SUFFICES ASSUME DispatchInv, LimitsInv
             PROVE  DispatchTypeOK
  OBVIOUS
<1>1. taken \in 0 .. Len(sent) /\ msg \in 0 .. taken
  BY LenProperties DEF DispatchInv, FormInv, PatchInv, Default
<1>2. frames \in Seq([wait : 1 .. waited, chain : Chains])
  <2>1. frames \in Seq(WaitFrames) /\ Len(frames) \in Nat /\ DOMAIN frames = 1 .. Len(frames)
    BY LenProperties DEF DispatchInv, FormInv
  <2>2. ASSUME NEW i \in 1 .. Len(frames)
        PROVE  frames[i] \in [wait : 1 .. waited, chain : Chains]
    <3>1. frames[i] \in WaitFrames /\ frames[i].wait \in 1 .. waited
      BY <2>1, ElementOfSeq DEF DispatchInv, NestInv
    <3> QED
      BY <3>1 DEF WaitFrames
  <2>3. frames = [i \in 1 .. Len(frames) |-> frames[i]]
    BY <2>1
  <2>4. frames \in [1 .. Len(frames) -> [wait : 1 .. waited, chain : Chains]]
    BY <2>2, <2>3
  <2> DEFINE S == [wait : 1 .. waited, chain : Chains]
  <2>5. frames \in [1 .. Len(frames) -> S]
    BY <2>4
  <2> HIDE DEF S
  <2>6. frames \in Seq(S)
    BY <2>1, <2>5, SeqDef
  <2> QED
    BY <2>6 DEF S
<1> QED
  BY <1>1, <1>2 DEF DispatchTypeOK, LimitsInv, DispatchInv, FormInv, PatchInv

(* Every variable of the message passing keeps its type.                   *)
THEOREM DispatchTypeCorrect == DispatchSpec => []DispatchTypeOK
  BY DispatchInitInv, DispatchStepInv, LimitsInit, LimitsStep, DispatchInvTypes, PTL DEF DispatchSpec

-----------------------------------------------------------------------------
(* The pool and what is built on its queue, one beside the other. *)

(* The steps of the pool with their bounds are steps of the pool. *)
LEMMA BoundedPool == PoolStep => PoolNext
  BY DEF PoolStep, PoolNext

(* Every variable keeps its type, whichever of them runs: those of the     *)
(* pool, its queue's included, of the messages, of the sort and of the     *)
(* visits.                                                                 *)
THEOREM PoolTypesCorrect == MCSpec => []TypesOK
<1> DEFINE Types ==
      /\ PoolInv /\ DispatchInv /\ LimitsInv /\ SortTypeOK /\ EachTypeOK /\ AlgoPoolTypeOK
      /\ which # "for_each" => SortInv
      /\ which # "sort" => EachInv
<1>1. SortInv => AlgoPoolTypeOK /\ SortTypeOK
  BY SortInvTypes
<1>2. EachInv => EachTypeOK /\ AlgoPoolTypeOK
  BY EachInvTypes
<1>3. MCInit => Types
  <2>1. MCInit => PoolInit /\ DispatchInit /\ SortInit /\ EachInit
    BY DEF MCInit
  <2> QED
    BY <1>1, <1>2, <2>1, PoolInitInv, DispatchInitInv, LimitsInit, SortInitInv, EachInitInv
<1>4. Types /\ [MCNext]_mcvars => Types'
  <2> SUFFICES ASSUME Types, [MCNext]_mcvars
               PROVE  Types'
    OBVIOUS
  <2> USE DEF MCNext, mcvars, mcPoolVars, mcAlgoVars
  <2>1. PoolInv' /\ DispatchInv' /\ LimitsInv' /\ which' = which
    <3>1. [PoolNext]_poolVars /\ [DispatchNext]_dispatchVars /\ which' = which
      BY BoundedPool DEF MCPool, MCDispatch, MCSort, MCForEach
    <3> QED
      BY <3>1, PoolStepInv, DispatchStepInv, LimitsStep
  <2>2. CASE UNCHANGED mcAlgoVars
    <3>1. SortInv => SortInv'
      BY <2>2, SortStepInv
    <3>2. EachInv => EachInv'
      BY <2>2, EachStepInv
    <3>3. SortTypeOK' /\ EachTypeOK' /\ AlgoPoolTypeOK'
      BY <2>2 DEF SortTypeOK, EachTypeOK, AlgoPoolTypeOK, Sorting, Visiting, algoPoolVars, sortVars, eachVars
    <3> QED
      BY <2>1, <3>1, <3>2, <3>3
  <2>3. CASE MCSort
    <3>1. which = "sort" /\ SortInv'
      BY <2>3, SortStepInv DEF MCSort
    <3>2. SortTypeOK' /\ AlgoPoolTypeOK'
      BY <3>1, SortInvTypes, PTL
    <3>3. EachTypeOK'
      BY <2>3 DEF MCSort, EachTypeOK, eachVars
    <3> QED
      BY <2>1, <3>1, <3>2, <3>3
  <2>4. CASE MCForEach
    <3>1. which = "for_each" /\ EachInv'
      BY <2>4, EachStepInv DEF MCForEach
    <3>2. EachTypeOK' /\ AlgoPoolTypeOK'
      BY <3>1, EachInvTypes, PTL
    <3>3. SortTypeOK'
      BY <2>4 DEF MCForEach, SortTypeOK, sortVars
    <3> QED
      BY <2>1, <3>1, <3>2, <3>3
  <2> QED
    BY <2>2, <2>3, <2>4 DEF MCPool, MCDispatch
<1>5. Types => TypesOK
  BY DispatchInvTypes DEF TypesOK, PoolInv
<1> QED
  BY <1>3, <1>4, <1>5, PTL DEF MCSpec
=============================================================================
