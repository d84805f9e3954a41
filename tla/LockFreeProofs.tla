--------------------------- MODULE LockFreeProofs ---------------------------
(***************************************************************************)
(* Theorems about who owns which node or object, for any number of them    *)
(* and of threads and calls.  The stacks are linearizable, touch no node   *)
(* after its deletion and forget none.  hl_queue touches no node that it   *)
(* has deleted and delivers no element twice.  An object lives as long as  *)
(* the variant or the any that has it.                                     *)
(***************************************************************************)
EXTENDS MCLockFree, SequenceTheorems, FiniteSetTheorems, WellFoundedInduction, TLAPS

(* The sequence c of different nodes is what next leads to from first.     *)
IsChain(c, first, next) ==
  /\ c \in Seq(Nodes)
  /\ \A i, j \in 1 .. Len(c) : c[i] = c[j] => i = j
  /\ first = IF Len(c) = 0 THEN 0 ELSE c[1]
  /\ \A i \in 1 .. Len(c) : next[c[i]] = IF i = Len(c) THEN 0 ELSE c[i + 1]

-----------------------------------------------------------------------------
(* Lists of nodes *)

(* Two functions that differ on 1 .. N differ at a first place.            *)
LEMMA FirstDifference ==
  ASSUME NEW N \in Nat, NEW D \in SUBSET (1 .. N), D # {}
  PROVE  \E k \in D : \A j \in D : ~(j < k)
<1> DEFINE R == OpToRel(<, Nat)
<1>1. IsWellFoundedOn(R, Nat)
  BY NatLessThanWellFounded
<1>2. \A y, x \in Nat : y < x => <<y, x>> \in R
  BY DEF OpToRel
<1> HIDE DEF R
<1>3. D \subseteq Nat
  OBVIOUS
<1>4. PICK m \in D : \A y \in D : <<y, m>> \notin R
  BY <1>1, <1>3, WFMin
<1> QED
  BY <1>2, <1>3, <1>4

(* How many numbers there are from 1 to k.                                 *)
LEMMA UpTo ==
  ASSUME NEW k \in Nat
  PROVE  Cardinality(1 .. k) = k
<1>1. 1 \in Int /\ k \in Int
  OBVIOUS
<1>2. Cardinality(1 .. k) = IF 1 > k THEN 0 ELSE k - 1 + 1
  BY ONLY <1>1, FS_Interval
<1> QED
  BY <1>2

(* A chain has no more nodes than there are.                               *)
LEMMA ChainFits ==
  ASSUME NEW c, NEW first, NEW next, IsChain(c, first, next)
  PROVE  Cardinality(Nodes) \in Nat /\ Len(c) \in 0 .. Cardinality(Nodes)
<1>1. c \in Injection(1 .. Len(c), Nodes) /\ Len(c) \in Nat
  BY DEF IsChain, Injection, IsInjective
<1>2. IsFiniteSet(Nodes) /\ Cardinality(Nodes) \in Nat
  BY NodesAssumption, FS_CardinalityType
<1>3. Cardinality(1 .. Len(c)) <= Cardinality(Nodes)
  BY <1>1, <1>2, FS_Injection
<1>4. Cardinality(1 .. Len(c)) = Len(c)
  BY <1>1, UpTo
<1> QED
  BY <1>1, <1>2, <1>3, <1>4

(* One step along next; from null it leads to null.                        *)
Follow(next) == [n \in Nodes \cup {0} |-> IF n = 0 THEN 0 ELSE next[n]]

(* There is such a walk: the recursive definition defines something.       *)
LEMMA WalkIs ==
  ASSUME NEW first, NEW next
  PROVE  /\ Cardinality(Nodes) \in Nat /\ DOMAIN Walk(first, next) = 1 .. Cardinality(Nodes)
         /\ \A k \in 1 .. Cardinality(Nodes) :
              Walk(first, next)[k] = IF k = 1 THEN first ELSE Follow(next)[Walk(first, next)[k - 1]]
<1> DEFINE N == Cardinality(Nodes)
           follow == Follow(next)
           F(a, K) == [k \in 1 .. K |-> IF k = 1 THEN first ELSE follow[a[k - 1]]]
<1>1. N \in Nat
  BY NodesAssumption, FS_CardinalityType
<1> HIDE DEF N, follow
<1>2. \A K \in 1 .. N : \E a : a = F(a, K)
  <2> DEFINE D == {K \in 1 .. N : ~ \E a : a = F(a, K)}
  <2> SUFFICES ASSUME D # {}
               PROVE  FALSE
    OBVIOUS
  <2>1. PICK K \in D : \A j \in D : ~(j < K)
    <3>1. D \in SUBSET (1 .. N)
      OBVIOUS
    <3> HIDE DEF D
    <3> QED
      BY <1>1, <3>1, FirstDifference
  <2>2. K \in 1 .. N /\ ~ \E a : a = F(a, K)
    OBVIOUS
  <2>3. CASE K = 1
    <3> DEFINE a == [k \in 1 .. 1 |-> first]
    <3>1. a = F(a, 1)
      OBVIOUS
    <3> QED
      BY <2>2, <2>3, <3>1
  <2>4. CASE K # 1
    <3>1. K - 1 \in 1 .. N /\ K - 1 < K
      BY <1>1, <2>2, <2>4
    <3>2. PICK b : b = F(b, K - 1)
      BY <2>1, <3>1
    <3> DEFINE a == [k \in 1 .. K |-> IF k = 1 THEN first ELSE follow[b[k - 1]]]
    <3>3. \A k \in 1 .. K - 1 : a[k] = b[k]
      BY <2>2, <3>2
    <3>4. \A k \in 1 .. K : k # 1 => k - 1 \in 1 .. K - 1
      BY <1>1, <2>2
    <3>5. a = F(a, K)
      BY <3>3, <3>4
    <3> QED
      BY <2>2, <3>5
  <2> QED
    BY <2>3, <2>4
<1>3. \E a : a = F(a, N)
  <2>1. CASE N = 0
    <3> DEFINE a == [k \in 1 .. N |-> 0]
    <3>1. a = F(a, N)
      BY <2>1
    <3> QED
      BY <3>1
  <2>2. CASE N # 0
    BY <1>1, <1>2, <2>2
  <2> QED
    BY <2>1, <2>2
<1> DEFINE at == Walk(first, next)
<1>4. at = F(at, N)
  <2>1. at = CHOOSE a : a = F(a, N)
    BY DEF Walk, follow, N, Follow
  <2> QED
    BY <1>3, <2>1
<1> HIDE DEF at
<1>5. DOMAIN at = 1 .. N /\ \A k \in 1 .. N : at[k] = IF k = 1 THEN first ELSE follow[at[k - 1]]
  BY <1>4
<1> QED
  BY <1>1, <1>5 DEF at, N, follow

(* The chain is what the model computes.                                   *)
LEMMA ChainComputed ==
  ASSUME NEW c, NEW first, NEW next, IsChain(c, first, next)
  PROVE  ChainFrom(first, next) = c
<1> DEFINE N == Cardinality(Nodes)
           follow == Follow(next)
           w == [k \in 1 .. N |-> IF k <= Len(c) THEN c[k] ELSE 0]
           at == Walk(first, next)
<1>1. N \in Nat /\ Len(c) \in 0 .. N /\ c \in Seq(Nodes)
  BY ChainFits DEF IsChain
<1>2. \A k \in 1 .. N : w[k] = IF k = 1 THEN first ELSE follow[w[k - 1]]
  <2>1. 1 \in 1 .. N => w[1] = first
    BY <1>1 DEF IsChain
  <2> SUFFICES ASSUME NEW k \in 1 .. N, k # 1
               PROVE  w[k] = follow[w[k - 1]]
    <3> HIDE DEF w, follow
    <3> QED
      BY <2>1
  <2>4. k - 1 \in 1 .. N
    BY <1>1
  <2>2. CASE k - 1 <= Len(c)
    <3>1. w[k - 1] = c[k - 1] /\ c[k - 1] \in Nodes /\ k - 1 \in 1 .. Len(c)
      BY <1>1, <2>4, <2>2
    <3>2. follow[c[k - 1]] = next[c[k - 1]]
      BY <3>1, NodesAssumption DEF Follow
    <3> QED
      BY <1>1, <3>1, <3>2 DEF IsChain
  <2>3. CASE ~(k - 1 <= Len(c))
    BY <1>1, <2>4, <2>3 DEF Follow
  <2> QED
    BY <2>2, <2>3
<1>5. DOMAIN at = 1 .. N /\ \A k \in 1 .. N : at[k] = IF k = 1 THEN first ELSE follow[at[k - 1]]
  BY WalkIs
<1> HIDE DEF w, at, follow
<1>6. \A k \in 1 .. N : at[k] = w[k]
  <2> DEFINE D == {k \in 1 .. N : at[k] # w[k]}
  <2> SUFFICES ASSUME D # {}
               PROVE  FALSE
    OBVIOUS
  <2>1. PICK k \in D : \A j \in D : ~(j < k)
    BY <1>1, FirstDifference
  <2>2. CASE k = 1
    <3>1. k \in 1 .. N /\ at[k] # w[k]
      OBVIOUS
    <3>2. at[k] = first /\ w[k] = first
      BY <1>2, <1>5, <2>2, <3>1
    <3> QED
      BY <3>1, <3>2
  <2>3. CASE k # 1
    <3>1. k - 1 \in 1 .. N /\ k - 1 < k
      BY <1>1, <2>3
    <3>2. at[k - 1] = w[k - 1]
      BY <2>1, <3>1
    <3>3. k \in 1 .. N /\ at[k] # w[k]
      OBVIOUS
    <3>4. at[k] = follow[at[k - 1]] /\ w[k] = follow[w[k - 1]]
      BY <1>2, <1>5, <2>3, <3>3
    <3> QED
      BY <3>2, <3>3, <3>4
  <2> QED
    BY <2>2, <2>3
<1>7. {i \in DOMAIN at : at[i] # 0} = 1 .. Len(c)
  <2>1. \A i \in 1 .. Len(c) : c[i] # 0
    BY <1>1, NodesAssumption
  <2> QED
    BY <1>1, <1>5, <1>6, <2>1 DEF w
<1>8. Cardinality(1 .. Len(c)) = Len(c)
  BY <1>1, UpTo
<1>9. ChainFrom(first, next) = [k \in 1 .. Len(c) |-> at[k]]
  BY <1>7, <1>8 DEF ChainFrom, at
<1>10. \A k \in 1 .. Len(c) : at[k] = c[k]
  BY <1>1, <1>6 DEF w
<1> QED
  BY <1>1, <1>9, <1>10

(* The nodes of a chain: the first one, and where they lead.               *)
LEMMA ChainNodes ==
  ASSUME NEW c, NEW first, NEW next, IsChain(c, first, next)
  PROVE  /\ NodesOf(c) \subseteq Nodes
         /\ first = 0 <=> c = << >>
         /\ first # 0 => first \in NodesOf(c)
         /\ \A n \in NodesOf(c) : next[n] \in NodesOf(c) \cup {0}
         /\ \A n \in NodesOf(c) : n # first => \E m \in NodesOf(c) : next[m] = n
         /\ \A n \in NodesOf(c) : next[n] # first \/ next[n] = 0
         /\ \A n, m \in NodesOf(c) : next[n] = next[m] => n = m \/ next[n] = 0
<1>1. /\ c \in Seq(Nodes) /\ Len(c) \in Nat /\ DOMAIN c = 1 .. Len(c)
      /\ \A i \in 1 .. Len(c) : c[i] \in Nodes /\ c[i] # 0
  BY NodesAssumption DEF IsChain
<1>2. NodesOf(c) = {c[i] : i \in 1 .. Len(c)}
  BY <1>1 DEF NodesOf
<1>3. NodesOf(c) \subseteq Nodes
  BY <1>1, <1>2
<1>12. Len(c) \in Nat
  BY <1>1
<1>11. /\ first = IF Len(c) = 0 THEN 0 ELSE c[1]
       /\ Len(c) # 0 => 1 \in 1 .. Len(c)
       /\ Len(c) = 0 <=> c = << >>
  <2>1. Len(c) # 0 => 1 \in 1 .. Len(c)
    BY <1>12
  <2>2. Len(c) = 0 <=> c = << >>
    BY <1>1, EmptySeq
  <2> QED
    BY <2>1, <2>2 DEF IsChain
<1>4. first = 0 <=> c = << >>
  BY <1>1, <1>11
<1>5. first # 0 => first \in NodesOf(c)
  BY <1>2, <1>11
<1>6. \A i \in 1 .. Len(c) : next[c[i]] # 0 => i + 1 \in 1 .. Len(c) /\ next[c[i]] = c[i + 1]
  <2> SUFFICES ASSUME NEW i \in 1 .. Len(c), next[c[i]] # 0
               PROVE  i + 1 \in 1 .. Len(c) /\ next[c[i]] = c[i + 1]
    OBVIOUS
  <2>1. next[c[i]] = IF i = Len(c) THEN 0 ELSE c[i + 1]
    BY DEF IsChain
  <2>2. i # Len(c) => i + 1 \in 1 .. Len(c)
    BY <1>12
  <2> QED
    BY <2>1, <2>2
<1>7. \A n \in NodesOf(c) : next[n] \in NodesOf(c) \cup {0}
  BY <1>2, <1>6
<1>8. ASSUME NEW n \in NodesOf(c), n # first
      PROVE  \E m \in NodesOf(c) : next[m] = n
  <2>1. PICK i \in 1 .. Len(c) : n = c[i]
    BY <1>2
  <2>2. i - 1 \in 1 .. Len(c) /\ i - 1 # Len(c) /\ (i - 1) + 1 = i
    <3>1. i # 1
      BY <1>8, <1>11, <2>1
    <3> QED
      BY <1>1, <3>1
  <2>3. next[c[i - 1]] = n
    BY <2>1, <2>2 DEF IsChain
  <2> QED
    BY <1>2, <2>2, <2>3
<1>9. \A n \in NodesOf(c) : next[n] # first \/ next[n] = 0
  <2> SUFFICES ASSUME NEW i \in 1 .. Len(c), next[c[i]] # 0
               PROVE  next[c[i]] # first
    BY <1>2
  <2>1. i + 1 \in 1 .. Len(c) /\ next[c[i]] = c[i + 1] /\ i + 1 # 1 /\ 1 \in 1 .. Len(c)
    BY <1>1, <1>6
  <2> QED
    BY <2>1 DEF IsChain
<1>10. \A n, m \in NodesOf(c) : next[n] = next[m] => n = m \/ next[n] = 0
  <2> SUFFICES ASSUME NEW i \in 1 .. Len(c), NEW j \in 1 .. Len(c), next[c[i]] = next[c[j]],
                      next[c[i]] # 0
               PROVE  i = j
    BY <1>2
  <2>1. i + 1 \in 1 .. Len(c) /\ j + 1 \in 1 .. Len(c) /\ c[i + 1] = c[j + 1]
    BY <1>6
  <2>2. i + 1 = j + 1
    BY <2>1 DEF IsChain
  <2> QED
    BY <1>1, <2>2
<1> QED
  BY <1>3, <1>4, <1>5, <1>7, <1>8, <1>9, <1>10

(* A chain stays one as long as its nodes lead where they did.             *)
LEMMA ChainKept ==
  ASSUME NEW c, NEW first, NEW next, IsChain(c, first, next), NEW then,
         \A n \in NodesOf(c) : then[n] = next[n]
  PROVE  IsChain(c, first, then)
<1>1. \A i \in 1 .. Len(c) : c[i] \in NodesOf(c)
  BY DEF IsChain, NodesOf
<1> QED
  BY <1>1 DEF IsChain

(* A new first node.                                                       *)
LEMMA ChainPushed ==
  ASSUME NEW c, NEW first, NEW next, IsChain(c, first, next),
         NEW n \in Nodes, n \notin NodesOf(c), next[n] = first
  PROVE  /\ IsChain(<<n>> \o c, n, next)
         /\ NodesOf(<<n>> \o c) = NodesOf(c) \cup {n}
<1> DEFINE d == <<n>> \o c
<1>1. c \in Seq(Nodes) /\ <<n>> \in Seq(Nodes) /\ Len(c) \in Nat /\ Len(<<n>>) = 1
  BY DEF IsChain
<1>2. /\ d \in Seq(Nodes) /\ Len(d) = Len(c) + 1
      /\ \A i \in 1 .. Len(d) : d[i] = IF i <= 1 THEN n ELSE c[i - 1]
  BY <1>1, ConcatProperties
<1>3. /\ \A i \in 1 .. Len(c) : c[i] \in NodesOf(c) /\ c[i] # n
      /\ \A x \in NodesOf(c) : \E i \in 1 .. Len(c) : x = c[i]
  BY <1>1 DEF NodesOf
<1> HIDE DEF d
<1>4. /\ d[1] = n /\ 1 \in 1 .. Len(d)
      /\ \A i \in 1 .. Len(d) : i # 1 => i - 1 \in 1 .. Len(c) /\ d[i] = c[i - 1]
      /\ \A i \in 1 .. Len(c) : i + 1 \in 1 .. Len(d) /\ d[i + 1] = c[i]
  BY <1>1, <1>2
<1>5. \A i, j \in 1 .. Len(d) : d[i] = d[j] => i = j
  <2> SUFFICES ASSUME NEW i \in 1 .. Len(d), NEW j \in 1 .. Len(d), d[i] = d[j], i # j
               PROVE  FALSE
    OBVIOUS
  <2>1. i # 1 /\ j # 1
    <3>1. \A k \in 1 .. Len(d) : k # 1 => d[k] # n
      BY <1>3, <1>4
    <3> QED
      BY <1>4, <3>1
  <2>2. i - 1 \in 1 .. Len(c) /\ j - 1 \in 1 .. Len(c) /\ c[i - 1] = c[j - 1]
    BY <1>4, <2>1
  <2>3. \A k, l \in 1 .. Len(c) : c[k] = c[l] => k = l
    BY DEF IsChain
  <2>4. i - 1 = j - 1
    BY <2>2, <2>3
  <2> QED
    BY <1>1, <1>2, <2>4
<1>6. \A i \in 1 .. Len(d) : next[d[i]] = IF i = Len(d) THEN 0 ELSE d[i + 1]
  <2>1. next[d[1]] = IF 1 = Len(d) THEN 0 ELSE d[1 + 1]
    BY <1>1, <1>2, <1>4 DEF IsChain
  <2>2. ASSUME NEW i \in 1 .. Len(d), i # 1
        PROVE  next[d[i]] = IF i = Len(d) THEN 0 ELSE d[i + 1]
    <3>1. i - 1 \in 1 .. Len(c) /\ d[i] = c[i - 1] /\ (i - 1 = Len(c) <=> i = Len(d))
      BY <1>1, <1>2, <1>4, <2>2
    <3>2. i # Len(d) => i \in 1 .. Len(c) /\ d[i + 1] = c[i] /\ (i - 1) + 1 = i
      BY <1>1, <1>2, <1>4
    <3> QED
      BY <3>1, <3>2 DEF IsChain
  <2> QED
    BY <2>1, <2>2
<1>7. IsChain(d, n, next)
  BY <1>1, <1>2, <1>4, <1>5, <1>6 DEF IsChain
<1>8. NodesOf(d) = NodesOf(c) \cup {n}
  <2>1. NodesOf(d) = {d[i] : i \in 1 .. Len(d)}
    BY <1>2 DEF NodesOf
  <2>2. \A i \in 1 .. Len(d) : d[i] \in NodesOf(c) \cup {n}
    BY <1>3, <1>4
  <2>3. \A x \in NodesOf(c) : \E i \in 1 .. Len(d) : d[i] = x
    <3> TAKE x \in NodesOf(c)
    <3>1. PICK i \in 1 .. Len(c) : x = c[i]
      BY <1>3
    <3>2. i + 1 \in 1 .. Len(d) /\ d[i + 1] = x
      BY <1>4, <3>1
    <3> QED
      BY <3>2
  <2>4. \E i \in 1 .. Len(d) : d[i] = n
    BY <1>4
  <2> QED
    BY <2>1, <2>2, <2>3, <2>4
<1> QED
  BY <1>7, <1>8 DEF d

(* The first node is taken.                                                *)
LEMMA ChainTaken ==
  ASSUME NEW c, NEW first, NEW next, IsChain(c, first, next), first # 0
  PROVE  /\ IsChain(Tail(c), next[first], next)
         /\ NodesOf(Tail(c)) = NodesOf(c) \ {first}
         /\ c # << >> /\ first = Head(c) /\ first \in NodesOf(c)
<1> DEFINE d == Tail(c)
<1>1. c \in Seq(Nodes) /\ Len(c) \in Nat \ {0} /\ c # << >> /\ first = c[1]
  BY DEF IsChain
<1>2. /\ d \in Seq(Nodes) /\ Len(d) = Len(c) - 1 /\ first = Head(c)
      /\ \A i \in 1 .. Len(d) : d[i] = c[i + 1]
  BY <1>1, HeadTailProperties
<1> HIDE DEF d
<1>3. \A i \in 1 .. Len(d) : i + 1 \in 1 .. Len(c) /\ d[i] = c[i + 1] /\ (i + 1 = Len(c) <=> i = Len(d))
  BY <1>1, <1>2
<1>4. \A i, j \in 1 .. Len(d) : d[i] = d[j] => i = j
  <2> SUFFICES ASSUME NEW i \in 1 .. Len(d), NEW j \in 1 .. Len(d), d[i] = d[j]
               PROVE  i = j
    OBVIOUS
  <2>1. i + 1 = j + 1
    BY <1>3 DEF IsChain
  <2> QED
    BY <1>1, <1>2, <2>1
<1>5. \A i \in 1 .. Len(d) : next[d[i]] = IF i = Len(d) THEN 0 ELSE d[i + 1]
  <2> SUFFICES ASSUME NEW i \in 1 .. Len(d)
               PROVE  next[d[i]] = IF i = Len(d) THEN 0 ELSE d[i + 1]
    OBVIOUS
  <2>1. i # Len(d) => i + 1 \in 1 .. Len(d)
    BY <1>1, <1>2
  <2> QED
    BY <1>3, <2>1 DEF IsChain
<1>6. next[first] = IF Len(d) = 0 THEN 0 ELSE d[1]
  <2>1. 1 \in 1 .. Len(c) /\ (Len(d) = 0 <=> 1 = Len(c)) /\ (Len(d) # 0 => 1 \in 1 .. Len(d))
    BY <1>1, <1>2
  <2> QED
    BY <1>1, <1>3, <2>1 DEF IsChain
<1>7. IsChain(d, next[first], next)
  BY <1>2, <1>4, <1>5, <1>6 DEF IsChain
<1>8. NodesOf(d) = NodesOf(c) \ {first} /\ first \in NodesOf(c)
  <2>1. NodesOf(d) = {d[i] : i \in 1 .. Len(d)} /\ NodesOf(c) = {c[i] : i \in 1 .. Len(c)}
    BY <1>1, <1>2 DEF NodesOf
  <2>2. 1 \in 1 .. Len(c)
    BY <1>1
  <2>3. \A i \in 1 .. Len(c) : i # 1 => i - 1 \in 1 .. Len(d) /\ d[i - 1] = c[i] /\ c[i] # first
    <3> SUFFICES ASSUME NEW i \in 1 .. Len(c), i # 1
                 PROVE  i - 1 \in 1 .. Len(d) /\ d[i - 1] = c[i] /\ c[i] # first
      OBVIOUS
    <3>1. i - 1 \in 1 .. Len(d) /\ (i - 1) + 1 = i
      BY <1>1, <1>2
    <3>2. c[i] # c[1]
      BY <2>2 DEF IsChain
    <3> QED
      BY <1>1, <1>2, <3>1, <3>2
  <2>4. \A i \in 1 .. Len(d) : i + 1 \in 1 .. Len(c) /\ i + 1 # 1
    BY <1>1, <1>2
  <2>5. \A i \in 1 .. Len(d) : d[i] # first /\ d[i] \in NodesOf(c)
    BY <1>1, <1>3, <2>1, <2>2, <2>4 DEF IsChain
  <2>6. ASSUME NEW x \in NodesOf(c), x # first
        PROVE  x \in NodesOf(d)
    <3>1. PICK i \in 1 .. Len(c) : x = c[i]
      BY <2>1
    <3>2. i - 1 \in 1 .. Len(d) /\ d[i - 1] = x
      BY <1>1, <2>3, <2>6, <3>1
    <3> QED
      BY <2>1, <3>2
  <2>7. \A x \in NodesOf(d) : x \in NodesOf(c) /\ x # first
    BY <2>1, <2>5
  <2>8. first \in NodesOf(c)
    BY <1>1, <2>1, <2>2
  <2> QED
    BY <2>6, <2>7, <2>8
<1> QED
  BY <1>1, <1>2, <1>7, <1>8 DEF d

-----------------------------------------------------------------------------
(* hl_stack: the inductive invariant *)

(* Who has counted itself in on node n and not yet out.                    *)
HsUsers(n) == {t \in Threads : hs_pc[t] \in {"take", "sub"} /\ hs_old[t].ptr = n}

(* The node that only thread t may free or push: the one it has ready, or  *)
(* has taken.                                                              *)
HsOwns(t) == hs_pc[t] \in {"push", "swap", "add"}
HsOwn(t) == IF hs_pc[t] = "push" THEN hs_raw[t] ELSE hs_old[t].ptr

HsNextPtrs == [n \in Nodes |-> hs_next[n].ptr]

HsStackInv(c) == IsChain(c, hs_head.ptr, HsNextPtrs) /\ NodesOf(c) \subseteq hs_live

(* A node has one owner: the stack, or a thread, or its users together.    *)
HsOwnInv(c) ==
  /\ \A t \in Threads : HsOwns(t) => HsOwn(t) \in hs_live \ NodesOf(c)
  /\ \A t, u \in Threads : HsOwns(t) /\ HsOwns(u) /\ HsOwn(t) = HsOwn(u) => t = u
  /\ \A t \in Threads : hs_pc[t] \in {"take", "sub"} => hs_old[t].ptr \in hs_live

(* Pointer p leads to a node of the stack: its count and the one of the    *)
(* node make the number of users, but for the reference of the stack.      *)
HsCounted(p) ==
  hs_count[p.ptr] <= 0 /\ p.count - 1 + hs_count[p.ptr] = Cardinality(HsUsers(p.ptr))

(* The two counts of a node make the number of its users, wherever it is.  *)
HsInStackInv(c) ==
  /\ hs_head.ptr # 0 => HsCounted(hs_head)
  /\ \A n \in NodesOf(c) : hs_next[n].ptr # 0 => HsCounted(hs_next[n])

HsTakenInv ==
  \A t \in Threads : hs_pc[t] \in {"swap", "add"} =>
    LET n == hs_old[t].ptr
    IN hs_count[n] <= 0 /\ hs_old[t].count - 2 + hs_count[n] = Cardinality(HsUsers(n))

HsReadyInv ==
  \A t \in Threads : hs_pc[t] = "push" =>
    /\ hs_count[hs_raw[t]] = 0 /\ HsUsers(hs_raw[t]) = {}
    /\ hs_data[hs_raw[t]] = hs_call[t].arg

HsLeftInv(c) ==
  \A n \in hs_live \ NodesOf(c) :
    (\A t \in Threads : HsOwns(t) => HsOwn(t) # n) =>
      HsUsers(n) # {} /\ hs_count[n] = Cardinality(HsUsers(n))

(* What a thread is doing for its caller.                                  *)
HsCalls == [op : {"none", "push", "pull"}, arg : Values \cup {Null}]

HsCallInv ==
  /\ hs_call \in [Threads -> HsCalls]
  /\ DOMAIN hs_ret = Threads
  /\ \A t \in Threads :
       /\ hs_pc[t] = "idle" => hs_call[t] = HsIdle /\ hs_ret[t] = HsNoRet
       /\ hs_pc[t] \in {"new", "push"} => hs_call[t].op = "push" /\ hs_ret[t] = HsNoRet
       /\ hs_pc[t] \in {"count", "take", "sub"} => hs_call[t].op = "pull" /\ hs_ret[t] = HsNoRet
       /\ hs_pc[t] \in {"swap", "add", "return"} => hs_call[t] # HsIdle /\ hs_ret[t] # HsNoRet

HsInv(c) ==
  /\ HsTypeOK /\ HsCallInv
  /\ HsStackInv(c) /\ HsOwnInv(c)
  /\ HsInStackInv(c) /\ HsTakenInv /\ HsReadyInv /\ HsLeftInv(c)

(* Threads that join a set, or leave it, are counted one by one.           *)
LEMMA ThreadSets ==
  ASSUME NEW S \in SUBSET Threads, NEW t
  PROVE  /\ Cardinality(S) \in Nat /\ (Cardinality(S) = 0 <=> S = {})
         /\ t \notin S => Cardinality(S \cup {t}) = Cardinality(S) + 1
         /\ t \in S => Cardinality(S \ {t}) = Cardinality(S) - 1
<1>1. IsFiniteSet(S)
  BY CallersAssumption, FS_Subset
<1> QED
  BY <1>1, FS_CardinalityType, FS_EmptySet, FS_AddElement, FS_RemoveElement

-----------------------------------------------------------------------------
(* hl_stack: every step keeps the invariant *)

(* What the variables hold, and where the calls are.                       *)
LEMMA HsTypesKept ==
  ASSUME HsTypeOK, HsCallInv, NEW t \in Threads, HsCall(t) \/ HsRun(t),
         hs_pc[t] \in {"swap", "add", "take", "sub"} => hs_old[t].ptr \in Nodes,
         hs_pc[t] = "push" => hs_raw[t] \in Nodes
  PROVE  HsTypeOK' /\ HsCallInv'
<1> USE DEF Move
<1>1. CASE HsCall(t)
  <2>1. HsTypeOK'
    BY <1>1 DEF HsTypeOK, HsCall, hsHeap
  <2>2. /\ \A u \in Threads \ {t} : hs_pc'[u] = hs_pc[u] /\ hs_call'[u] = hs_call[u]
        /\ hs_ret' = hs_ret /\ hs_pc[t] = "idle" /\ DOMAIN hs_call' = Threads
    BY <1>1 DEF HsTypeOK, HsCallInv, HsCall
  <2>3. /\ hs_call'[t] \in HsCalls
        /\ \/ hs_pc'[t] = "new" /\ hs_call'[t].op = "push"
           \/ hs_pc'[t] = "count" /\ hs_call'[t].op = "pull"
    BY <1>1 DEF HsTypeOK, HsCallInv, HsCall, HsCalls
  <2>4. hs_call' \in [Threads -> HsCalls]
    <3>1. hs_call' = [u \in Threads |-> hs_call'[u]]
      BY <1>1 DEF HsCallInv, HsCall
    <3>2. \A u \in Threads : hs_call'[u] \in HsCalls
      BY <2>2, <2>3 DEF HsCallInv
    <3> QED
      BY <3>1, <3>2
  <2>5. HsCallInv'
    BY <2>2, <2>3, <2>4 DEF HsCallInv
  <2> QED
    BY <2>1, <2>5
<1>2. CASE HsNew(t)
  <2>1. hs_call[t].arg \in Values \cup {Null}
    BY DEF HsCallInv, HsCalls
  <2>2. HsTypeOK'
    BY <1>2, <2>1 DEF HsTypeOK, HsNew
  <2>3. HsCallInv'
    BY <1>2 DEF HsTypeOK, HsCallInv, HsNew
  <2> QED
    BY <2>2, <2>3
<1>3. CASE HsPush(t)
  <2>1. HsTypeOK'
    BY <1>3 DEF HsTypeOK, HsPush, CPtr, CPtrs
  <2>2. /\ \A u \in Threads \ {t} : hs_pc'[u] = hs_pc[u] /\ hs_ret'[u] = hs_ret[u]
        /\ DOMAIN hs_ret' = Threads /\ hs_call' = hs_call
    BY <1>3 DEF HsTypeOK, HsCallInv, HsPush, HsResult
  <2>3. \/ hs_pc'[t] = "push" /\ hs_ret'[t] = hs_ret[t]
        \/ hs_pc'[t] = "return" /\ hs_ret'[t].status = "success"
    BY <1>3 DEF HsTypeOK, HsCallInv, HsPush, HsResult
  <2>4. hs_pc[t] = "push" /\ hs_call[t] # HsIdle
    BY <1>3 DEF HsCallInv, HsPush, HsIdle
  <2>5. HsCallInv'
    BY <2>2, <2>3, <2>4 DEF HsCallInv, HsNoRet
  <2> QED
    BY <2>1, <2>5
<1>4. CASE HsCount(t)
  <2>1. CPtr(hs_head.count + 1, hs_head.ptr) \in CPtrs
    BY DEF HsTypeOK, CPtr, CPtrs
  <2>2. HsTypeOK'
    BY <1>4, <2>1 DEF HsTypeOK, HsCount, hsHeap
  <2>3. HsCallInv'
    BY <1>4 DEF HsTypeOK, HsCallInv, HsCount, HsResult, HsIdle, HsNoRet
  <2> QED
    BY <2>2, <2>3
<1>5. CASE HsTake(t)
  <2>1. HsTypeOK'
    BY <1>5 DEF HsTypeOK, HsTake, hsHeap
  <2>2. HsCallInv'
    BY <1>5 DEF HsTypeOK, HsCallInv, HsTake, HsResult, HsIdle, HsNoRet
  <2> QED
    BY <2>1, <2>2
<1>6. CASE HsSwap(t)
  BY <1>6 DEF HsTypeOK, HsCallInv, HsSwap
<1>7. ASSUME NEW k \in Int, NEW d, HsAddOrDelete(hs_old[t].ptr, k, d), hs_old[t].ptr \in Nodes
      PROVE  hs_count' \in [Nodes -> Int] /\ hs_live' \subseteq Nodes
  BY <1>7 DEF HsTypeOK, HsAddOrDelete
<1>8. CASE HsAdd(t)
  <2>1. hs_old[t].count - 2 \in Int
    BY DEF HsTypeOK, CPtrs
  <2>2. hs_count' \in [Nodes -> Int] /\ hs_live' \subseteq Nodes
    BY <1>7, <1>8, <2>1 DEF HsAdd
  <2> QED
    BY <1>8, <2>2 DEF HsTypeOK, HsCallInv, HsAdd
<1>9. CASE HsSub(t)
  <2>1. hs_count' \in [Nodes -> Int] /\ hs_live' \subseteq Nodes
    BY <1>7, <1>9 DEF HsSub
  <2> QED
    BY <1>9, <2>1 DEF HsTypeOK, HsCallInv, HsSub
<1>10. CASE HsReturn(t)
  <2>1. NullPtr \in CPtrs
    BY DEF NullPtr, CPtr, CPtrs
  <2>2. HsTypeOK'
    BY <1>10, <2>1 DEF HsTypeOK, HsReturn, hsHeap
  <2>3. HsIdle \in HsCalls
    BY DEF HsIdle, HsCalls
  <2>4. HsCallInv'
    BY <1>10, <2>3 DEF HsTypeOK, HsCallInv, HsReturn, hsHeap
  <2> QED
    BY <2>2, <2>4
<1> QED
  BY <1>1, <1>2, <1>3, <1>4, <1>5, <1>6, <1>8, <1>9, <1>10 DEF HsRun

(* Where the pointers of the stack lead.                                   *)
LEMMA HsPointers ==
  ASSUME NEW c, HsTypeOK, HsStackInv(c)
  PROVE  /\ NodesOf(c) \subseteq Nodes /\ 0 \notin Nodes
         /\ hs_head.ptr # 0 => hs_head.ptr \in NodesOf(c)
         /\ \A n \in NodesOf(c) : hs_next[n].ptr # 0 =>
              /\ hs_next[n].ptr \in NodesOf(c) /\ hs_next[n].ptr # hs_head.ptr
              /\ \A m \in NodesOf(c) : hs_next[m].ptr = hs_next[n].ptr => m = n
         /\ \A n \in NodesOf(c) : n # hs_head.ptr => \E m \in NodesOf(c) : hs_next[m].ptr = n
<1>1. NodesOf(c) \subseteq Nodes
  BY ChainNodes DEF HsStackInv
<1>2. \A n \in NodesOf(c) : HsNextPtrs[n] = hs_next[n].ptr
  BY <1>1 DEF HsNextPtrs
<1> QED
  BY <1>1, <1>2, ChainNodes, NodesAssumption DEF HsStackInv

(* The part of the invariant that is about the nodes.                      *)
HsNodesInv(c) ==
  HsStackInv(c) /\ HsOwnInv(c) /\ HsInStackInv(c) /\ HsTakenInv /\ HsReadyInv /\ HsLeftInv(c)

(* A step after which all threads have the nodes that they had.            *)
LEMMA HsQuiet ==
  ASSUME NEW c, HsNodesInv(c), HsTypeOK,
         UNCHANGED <<hs_head, hs_next, hs_count, hs_live>>,
         \A u \in Threads :
           /\ hs_pc'[u] \in {"take", "sub"} <=> hs_pc[u] \in {"take", "sub"}
           /\ hs_pc'[u] \in {"swap", "add"} <=> hs_pc[u] \in {"swap", "add"}
           /\ hs_pc'[u] = "push" <=> hs_pc[u] = "push"
           /\ hs_pc[u] \in {"take", "sub", "swap", "add"} => hs_old'[u] = hs_old[u]
           /\ hs_pc[u] = "push" =>
                /\ hs_raw'[u] = hs_raw[u] /\ hs_call'[u].arg = hs_call[u].arg
                /\ hs_data'[hs_raw[u]] = hs_data[hs_raw[u]]
  PROVE  HsNodesInv(c)'
<1>1. \A n : HsUsers(n)' = HsUsers(n)
  BY DEF HsUsers
<1>2. \A u \in Threads : (HsOwns(u)' <=> HsOwns(u)) /\ (HsOwns(u) => HsOwn(u)' = HsOwn(u))
  BY DEF HsOwns, HsOwn
<1>3. HsNextPtrs' = HsNextPtrs
  BY DEF HsNextPtrs
<1>4. HsStackInv(c)'
  BY <1>3 DEF HsNodesInv, HsStackInv
<1>5. HsOwnInv(c)'
  BY <1>2 DEF HsNodesInv, HsOwnInv
<1>6. HsInStackInv(c)'
  BY <1>1 DEF HsNodesInv, HsInStackInv, HsCounted
<1>7. HsTakenInv' /\ HsReadyInv'
  BY <1>1 DEF HsNodesInv, HsTakenInv, HsReadyInv
<1>8. HsLeftInv(c)'
  BY <1>1, <1>2 DEF HsNodesInv, HsLeftInv
<1> QED
  BY <1>4, <1>5, <1>6, <1>7, <1>8 DEF HsNodesInv

(* operator new returns a node that nobody has.                            *)
LEMMA HsNewStep ==
  ASSUME NEW c, HsNodesInv(c), HsTypeOK, HsCallInv, NEW t \in Threads, HsNew(t)
  PROVE  HsNodesInv(c)'
<1>1. PICK n \in Nodes :
        /\ n \notin hs_live
        /\ hs_live' = hs_live \cup {n}
        /\ hs_raw' = [hs_raw EXCEPT ![t] = n]
        /\ hs_data' = [hs_data EXCEPT ![n] = hs_call[t].arg]
        /\ hs_next' = [hs_next EXCEPT ![n] = hs_head]
        /\ hs_count' = [hs_count EXCEPT ![n] = 0]
  BY DEF HsNew, FirstFree
<1>2. hs_pc[t] = "new" /\ hs_pc' = [hs_pc EXCEPT ![t] = "push"]
      /\ UNCHANGED <<hs_head, hs_old, hs_call>>
  BY DEF HsNew, Move
<1>3. n \notin NodesOf(c) /\ NodesOf(c) \subseteq Nodes
  BY <1>1, HsPointers DEF HsNodesInv, HsStackInv
<1>4. \A u \in Threads \ {t} : hs_pc'[u] = hs_pc[u] /\ hs_raw'[u] = hs_raw[u]
  BY <1>1, <1>2 DEF HsTypeOK
<1>5. hs_pc'[t] = "push" /\ hs_raw'[t] = n /\ hs_old' = hs_old
  BY <1>1, <1>2 DEF HsTypeOK
<1>6. \A m : HsUsers(m)' = HsUsers(m)
  BY <1>2, <1>4, <1>5 DEF HsUsers
<1>7. /\ \A u \in Threads \ {t} : (HsOwns(u)' <=> HsOwns(u)) /\ (HsOwns(u) => HsOwn(u)' = HsOwn(u))
      /\ ~HsOwns(t) /\ HsOwns(t)' /\ HsOwn(t)' = n
  BY <1>2, <1>4, <1>5 DEF HsOwns, HsOwn
<1>8. /\ \A m \in Nodes \ {n} : hs_next'[m] = hs_next[m] /\ hs_count'[m] = hs_count[m] /\ hs_data'[m] = hs_data[m]
      /\ hs_count'[n] = 0 /\ hs_data'[n] = hs_call[t].arg
  BY <1>1 DEF HsTypeOK
<1>9. HsUsers(n) = {}
  BY <1>1 DEF HsNodesInv, HsOwnInv, HsUsers
<1>10. HsStackInv(c)'
  <2>1. \A m \in NodesOf(c) : HsNextPtrs'[m] = HsNextPtrs[m]
    BY <1>3, <1>8 DEF HsNextPtrs
  <2>2. IsChain(c, hs_head.ptr, HsNextPtrs')
    BY <2>1, ChainKept DEF HsNodesInv, HsStackInv
  <2> QED
    BY <1>1, <1>2, <2>2 DEF HsNodesInv, HsStackInv
<1>11. HsOwnInv(c)'
  BY <1>1, <1>2, <1>3, <1>4, <1>5, <1>7 DEF HsNodesInv, HsOwnInv
<1>12. HsInStackInv(c)'
  <2>1. \A p : p.ptr \in NodesOf(c) => (HsCounted(p)' <=> HsCounted(p))
    BY <1>3, <1>6, <1>8 DEF HsCounted
  <2>2. hs_head.ptr # 0 => HsCounted(hs_head)'
    BY <1>2, <2>1, HsPointers DEF HsNodesInv, HsInStackInv
  <2>3. \A m \in NodesOf(c) : hs_next[m].ptr # 0 => HsCounted(hs_next[m])'
    BY <1>3, <1>8, <2>1, HsPointers DEF HsNodesInv, HsInStackInv
  <2> QED
    BY <1>2, <1>3, <1>8, <2>2, <2>3 DEF HsInStackInv
<1>13. HsTakenInv'
  <2>1. \A u \in Threads : hs_pc[u] \in {"swap", "add"} => hs_old[u].ptr \in Nodes \ {n}
    BY <1>1 DEF HsNodesInv, HsOwnInv, HsOwns, HsOwn, HsTypeOK
  <2> QED
    BY <1>2, <1>4, <1>5, <1>6, <1>8, <2>1 DEF HsNodesInv, HsTakenInv
<1>14. HsReadyInv'
  <2>1. \A u \in Threads : hs_pc[u] = "push" => hs_raw[u] \in Nodes \ {n}
    BY <1>1 DEF HsNodesInv, HsOwnInv, HsOwns, HsOwn, HsTypeOK
  <2> QED
    BY <1>2, <1>4, <1>5, <1>6, <1>8, <1>9, <2>1 DEF HsNodesInv, HsReadyInv
<1>15. HsLeftInv(c)'
  <2> SUFFICES ASSUME NEW m \in hs_live' \ NodesOf(c), \A u \in Threads : HsOwns(u)' => HsOwn(u)' # m
               PROVE  HsUsers(m) # {} /\ hs_count'[m] = Cardinality(HsUsers(m))
    BY <1>6 DEF HsLeftInv
  <2>1. m # n /\ m \in hs_live /\ m \in Nodes
    BY <1>1, <1>7 DEF HsTypeOK
  <2>2. \A u \in Threads : HsOwns(u) => HsOwn(u) # m
    BY <1>7
  <2> QED
    BY <1>8, <2>1, <2>2 DEF HsNodesInv, HsLeftInv
<1> QED
  BY <1>10, <1>11, <1>12, <1>13, <1>14, <1>15 DEF HsNodesInv

(* A push() that found another head loads it into its own node.            *)
LEMMA HsPushFails ==
  ASSUME NEW c, HsNodesInv(c), HsTypeOK, HsCallInv, NEW t \in Threads, HsPush(t),
         hs_head # hs_next[hs_raw[t]]
  PROVE  HsNodesInv(c)'
<1>1. /\ hs_pc[t] = "push" /\ hs_next' = [hs_next EXCEPT ![hs_raw[t]] = hs_head]
      /\ UNCHANGED <<hs_head, hs_pc, hs_data, hs_count, hs_live, hs_old, hs_raw, hs_call>>
  BY DEF HsPush
<1>2. hs_raw[t] \notin NodesOf(c) /\ NodesOf(c) \subseteq Nodes
  BY <1>1, HsPointers DEF HsNodesInv, HsOwnInv, HsOwns, HsOwn
<1>3. \A n \in NodesOf(c) : hs_next'[n] = hs_next[n] /\ HsNextPtrs'[n] = HsNextPtrs[n]
  BY <1>1, <1>2 DEF HsTypeOK, HsNextPtrs
<1>4. \A n : HsUsers(n)' = HsUsers(n)
  BY <1>1 DEF HsUsers
<1>5. HsStackInv(c)'
  <2>1. IsChain(c, hs_head.ptr, HsNextPtrs')
    BY <1>3, ChainKept DEF HsNodesInv, HsStackInv
  <2> QED
    BY <1>1, <2>1 DEF HsNodesInv, HsStackInv
<1>6. HsOwnInv(c)'
  BY <1>1 DEF HsNodesInv, HsOwnInv, HsOwns, HsOwn
<1>7. HsInStackInv(c)'
  BY <1>1, <1>3, <1>4 DEF HsNodesInv, HsInStackInv, HsCounted
<1>8. HsTakenInv' /\ HsReadyInv'
  BY <1>1, <1>4 DEF HsNodesInv, HsTakenInv, HsReadyInv
<1>9. HsLeftInv(c)'
  BY <1>1, <1>4 DEF HsNodesInv, HsLeftInv, HsOwns, HsOwn
<1> QED
  BY <1>5, <1>6, <1>7, <1>8, <1>9 DEF HsNodesInv

(* A push() that succeeds gives its node to the stack.                     *)
LEMMA HsPushSucceeds ==
  ASSUME NEW c, HsNodesInv(c), HsTypeOK, HsCallInv, NEW t \in Threads, HsPush(t),
         hs_head = hs_next[hs_raw[t]]
  PROVE  HsNodesInv(<<hs_raw[t]>> \o c)' /\ hs_raw[t] \notin NodesOf(c)
<1> DEFINE r == hs_raw[t]
           d == <<r>> \o c
<1>1. /\ hs_pc[t] = "push" /\ hs_pc' = [hs_pc EXCEPT ![t] = "return"]
      /\ hs_head' = CPtr(1, r)
      /\ UNCHANGED <<hs_next, hs_data, hs_count, hs_live, hs_old, hs_raw, hs_call>>
  BY DEF HsPush, Move
<1>2. r \in hs_live \ NodesOf(c) /\ r \in Nodes /\ NodesOf(c) \subseteq Nodes
  BY <1>1, HsPointers DEF HsNodesInv, HsOwnInv, HsOwns, HsOwn, HsTypeOK
<1>3. HsNextPtrs[r] = hs_head.ptr
  BY <1>2 DEF HsNextPtrs
<1>4. IsChain(d, r, HsNextPtrs) /\ NodesOf(d) = NodesOf(c) \cup {r}
  BY <1>2, <1>3, ChainPushed DEF HsNodesInv, HsStackInv
<1>5. hs_head'.ptr = r /\ hs_head'.count = 1
  BY <1>1 DEF CPtr
<1>6. \A u \in Threads \ {t} : hs_pc'[u] = hs_pc[u]
  BY <1>1 DEF HsTypeOK
<1>7. hs_pc'[t] = "return"
  BY <1>1 DEF HsTypeOK
<1>8. \A n : HsUsers(n)' = HsUsers(n)
  BY <1>1, <1>6, <1>7 DEF HsUsers
<1>9. /\ \A u \in Threads \ {t} : (HsOwns(u)' <=> HsOwns(u)) /\ (HsOwns(u) => HsOwn(u)' = HsOwn(u))
      /\ HsOwns(t) /\ ~HsOwns(t)' /\ HsOwn(t) = r
  BY <1>1, <1>6, <1>7 DEF HsOwns, HsOwn
<1> HIDE DEF d, r
<1>10. HsStackInv(d)'
  <2>1. HsNextPtrs' = HsNextPtrs
    BY <1>1 DEF HsNextPtrs
  <2>2. d' = d
    BY <1>1 DEF d, r
  <2> QED
    BY <1>1, <1>2, <1>4, <1>5, <2>1, <2>2 DEF HsNodesInv, HsStackInv
<1>11. HsOwnInv(d)'
  <2>1. \A u \in Threads : HsOwns(u)' => u # t /\ HsOwns(u) /\ HsOwn(u)' = HsOwn(u)
    BY <1>9
  <2>2. \A u \in Threads : HsOwns(u)' => HsOwn(u)' # r
    BY <1>9, <2>1 DEF HsNodesInv, HsOwnInv
  <2>3. d' = d
    BY <1>1 DEF d, r
  <2>4. \A u \in Threads : HsOwns(u)' => HsOwn(u)' \in hs_live \ NodesOf(d)
    BY <1>4, <2>1, <2>2 DEF HsNodesInv, HsOwnInv
  <2>5. \A u \in Threads : hs_pc'[u] \in {"take", "sub"} => hs_old'[u].ptr \in hs_live
    BY <1>1, <1>6, <1>7 DEF HsNodesInv, HsOwnInv
  <2> QED
    BY <1>1, <2>1, <2>3, <2>4, <2>5 DEF HsNodesInv, HsOwnInv
<1>12. HsInStackInv(d)'
  <2>1. \A p : HsCounted(p)' <=> HsCounted(p)
    BY <1>1, <1>8 DEF HsCounted
  <2>2. hs_count[r] = 0 /\ HsUsers(r) = {}
    BY <1>1 DEF HsNodesInv, HsReadyInv, r
  <2>3. HsCounted(hs_head)'
    <3>1. hs_head'.ptr = r /\ hs_count'[r] = 0 /\ \A n : n = r => HsUsers(n)' = {}
      BY <1>1, <1>5, <1>8, <2>2
    <3>2. HsUsers(hs_head.ptr)' = {}
      BY <3>1
    <3> QED
      BY <1>5, <3>1, <3>2, FS_EmptySet DEF HsCounted
  <2>4. \A n \in NodesOf(d) : hs_next[n].ptr # 0 => HsCounted(hs_next[n])
    BY <1>4 DEF HsNodesInv, HsInStackInv, r
  <2>5. d' = d
    BY <1>1 DEF d, r
  <2> QED
    BY <1>1, <2>1, <2>3, <2>4, <2>5 DEF HsInStackInv
<1>13. HsTakenInv' /\ HsReadyInv'
  BY <1>1, <1>6, <1>7, <1>8 DEF HsNodesInv, HsTakenInv, HsReadyInv
<1>14. HsLeftInv(d)'
  <2>1. d' = d
    BY <1>1 DEF d, r
  <2> QED
    BY <1>1, <1>4, <1>8, <1>9, <2>1 DEF HsNodesInv, HsLeftInv
<1> QED
  BY <1>2, <1>10, <1>11, <1>12, <1>13, <1>14 DEF HsNodesInv, d, r

(* Counting oneself in on the first node, or on null.                      *)
LEMMA HsCountStep ==
  ASSUME NEW c, HsNodesInv(c), HsTypeOK, HsCallInv, NEW t \in Threads, HsCount(t)
  PROVE  HsNodesInv(c)'
<1>1. /\ hs_pc[t] = "count" /\ hs_head'.ptr = hs_head.ptr /\ hs_head'.count = hs_head.count + 1
      /\ hs_old' = [hs_old EXCEPT ![t] = hs_head']
      /\ UNCHANGED <<hs_next, hs_data, hs_count, hs_live, hs_raw, hs_call>>
  BY DEF HsCount, Move, hsHeap, CPtr
<1>2. hs_pc' = [hs_pc EXCEPT ![t] = IF hs_head.ptr = 0 THEN "return" ELSE "take"]
  BY DEF HsCount, Move, CPtr
<1>3. /\ \A u \in Threads \ {t} : hs_pc'[u] = hs_pc[u] /\ hs_old'[u] = hs_old[u]
      /\ hs_pc'[t] = IF hs_head.ptr = 0 THEN "return" ELSE "take"
      /\ hs_old'[t].ptr = hs_head.ptr
  BY <1>1, <1>2 DEF HsTypeOK
<1>4. \A n : n # hs_head.ptr => HsUsers(n)' = HsUsers(n)
  BY <1>1, <1>3 DEF HsUsers
<1>5. \A n : n = hs_head.ptr /\ n # 0 => HsUsers(n)' = HsUsers(n) \cup {t} /\ t \notin HsUsers(n)
  BY <1>1, <1>3 DEF HsUsers
<1>6. \A u \in Threads : (HsOwns(u)' <=> HsOwns(u)) /\ (HsOwns(u) => HsOwn(u)' = HsOwn(u))
  BY <1>1, <1>3 DEF HsOwns, HsOwn
<1>7. HsStackInv(c)'
  BY <1>1 DEF HsNodesInv, HsStackInv, HsNextPtrs
<1>8. hs_head.ptr # 0 => hs_head.ptr \in NodesOf(c) /\ hs_head.ptr \in hs_live
  BY HsPointers DEF HsNodesInv, HsStackInv
<1>9. HsOwnInv(c)'
  BY <1>1, <1>3, <1>6, <1>8 DEF HsNodesInv, HsOwnInv
<1>10. HsInStackInv(c)'
  <2>1. ASSUME hs_head.ptr # 0
        PROVE  HsCounted(hs_head)'
    <3> DEFINE n == hs_head.ptr
    <3>1. n \in Nodes /\ hs_count[n] \in Int /\ hs_head.count \in Int
      BY <1>8, <2>1, HsPointers DEF HsNodesInv, HsTypeOK, CPtrs
    <3>2. hs_count[n] <= 0 /\ hs_head.count - 1 + hs_count[n] = Cardinality(HsUsers(n))
      BY <2>1 DEF HsNodesInv, HsInStackInv, HsCounted
    <3>3. HsUsers(n)' = HsUsers(n) \cup {t} /\ t \notin HsUsers(n) /\ n' = n
      BY <1>1, <1>5, <2>1
    <3>4. Cardinality(HsUsers(n)') = Cardinality(HsUsers(n)) + 1
      <4>1. HsUsers(n) \in SUBSET Threads
        BY DEF HsUsers
      <4> QED
        BY <3>3, <4>1, ThreadSets
    <3>5. hs_count'[n] <= 0 /\ hs_head'.count - 1 + hs_count'[n] = Cardinality(HsUsers(n)')
      BY <1>1, <3>1, <3>2, <3>4
    <3> QED
      BY <1>1, <3>3, <3>5 DEF HsCounted
  <2>2. ASSUME NEW m \in NodesOf(c), hs_next[m].ptr # 0
        PROVE  HsCounted(hs_next[m])'
    <3>1. hs_next[m].ptr # hs_head.ptr /\ HsCounted(hs_next[m])
      BY <2>2, HsPointers DEF HsNodesInv, HsInStackInv
    <3> QED
      BY <1>1, <1>4, <3>1 DEF HsCounted
  <2> QED
    BY <1>1, <2>1, <2>2 DEF HsInStackInv
<1>11. HsTakenInv'
  <2>1. \A u \in Threads : hs_pc[u] \in {"swap", "add"} => hs_old[u].ptr # hs_head.ptr
    BY <1>8, NodesAssumption DEF HsNodesInv, HsOwnInv, HsOwns, HsOwn, HsTypeOK
  <2> QED
    BY <1>1, <1>3, <1>4, <2>1 DEF HsNodesInv, HsTakenInv
<1>12. HsReadyInv'
  <2>1. \A u \in Threads : hs_pc[u] = "push" => hs_raw[u] # hs_head.ptr
    BY <1>8, NodesAssumption DEF HsNodesInv, HsOwnInv, HsOwns, HsOwn, HsTypeOK
  <2> QED
    BY <1>1, <1>3, <1>4, <2>1 DEF HsNodesInv, HsReadyInv
<1>13. HsLeftInv(c)'
  <2>1. \A n \in hs_live \ NodesOf(c) : n # hs_head.ptr
    BY <1>8, NodesAssumption DEF HsTypeOK
  <2> QED
    BY <1>1, <1>4, <1>6, <2>1 DEF HsNodesInv, HsLeftInv
<1> QED
  BY <1>7, <1>9, <1>10, <1>11, <1>12, <1>13 DEF HsNodesInv

(* A pull() takes the first node: it goes from the stack to the thread.    *)
LEMMA HsTakes ==
  ASSUME NEW c, HsNodesInv(c), HsTypeOK, HsCallInv, NEW t \in Threads, HsTake(t),
         hs_head = hs_old[t]
  PROVE  HsNodesInv(Tail(c))' /\ c # << >> /\ hs_old[t].ptr = Head(c)
<1>1. /\ hs_pc[t] = "take" /\ hs_pc' = [hs_pc EXCEPT ![t] = "swap"]
      /\ hs_head' = hs_next[hs_old[t].ptr]
      /\ UNCHANGED <<hs_next, hs_data, hs_count, hs_live, hs_old, hs_raw, hs_call>>
  BY DEF HsTake, Move, hsHeap
<1>2. PICK n \in Nodes : n = hs_head.ptr /\ n \in hs_live
  BY <1>1 DEF HsNodesInv, HsOwnInv, HsTypeOK
<1>3. n # 0 /\ n = hs_old[t].ptr
  BY <1>2, NodesAssumption
<1>4. PICK d : d = Tail(c)
  OBVIOUS
<1>5. /\ IsChain(d, hs_next[n].ptr, HsNextPtrs) /\ NodesOf(d) = NodesOf(c) \ {n}
      /\ c # << >> /\ n = Head(c) /\ n \in NodesOf(c) /\ NodesOf(c) \subseteq Nodes
  <2>1. HsNextPtrs[n] = hs_next[n].ptr
    BY DEF HsNextPtrs
  <2> QED
    BY <1>2, <1>3, <1>4, <2>1, ChainTaken, HsPointers DEF HsNodesInv, HsStackInv
<1>6. /\ \A u \in Threads \ {t} : hs_pc'[u] = hs_pc[u]
      /\ hs_pc'[t] = "swap" /\ hs_head' = hs_next[n] /\ hs_old' = hs_old
  BY <1>1, <1>3 DEF HsTypeOK
<1>7. /\ \A m : m # n => HsUsers(m)' = HsUsers(m)
      /\ HsUsers(n)' = HsUsers(n) \ {t} /\ t \in HsUsers(n)
  BY <1>1, <1>3, <1>6 DEF HsUsers
<1>8. /\ \A u \in Threads \ {t} : (HsOwns(u)' <=> HsOwns(u)) /\ (HsOwns(u) => HsOwn(u)' = HsOwn(u))
      /\ HsOwns(t)' /\ ~HsOwns(t) /\ HsOwn(t)' = n
  BY <1>1, <1>3, <1>6 DEF HsOwns, HsOwn
<1>9. HsStackInv(d)'
  BY <1>1, <1>5, <1>6 DEF HsNodesInv, HsStackInv, HsNextPtrs
<1>10. HsOwnInv(d)'
  <2>1. \A u \in Threads : HsOwns(u)' => HsOwn(u)' \in hs_live \ NodesOf(d)
    BY <1>2, <1>5, <1>8 DEF HsNodesInv, HsOwnInv
  <2>2. \A u \in Threads \ {t} : HsOwns(u) => HsOwn(u) # n
    BY <1>5 DEF HsNodesInv, HsOwnInv
  <2>3. \A u, v \in Threads : HsOwns(u)' /\ HsOwns(v)' /\ HsOwn(u)' = HsOwn(v)' => u = v
    BY <1>8, <2>2 DEF HsNodesInv, HsOwnInv
  <2>4. \A u \in Threads : hs_pc'[u] \in {"take", "sub"} => hs_old[u].ptr \in hs_live
    BY <1>6 DEF HsNodesInv, HsOwnInv
  <2> QED
    BY <1>1, <2>1, <2>3, <2>4 DEF HsOwnInv
<1>11. HsInStackInv(d)'
  <2>1. \A p : p.ptr # n => (HsCounted(p)' <=> HsCounted(p))
    BY <1>1, <1>7 DEF HsCounted
  <2>2. \A m \in NodesOf(c) : hs_next[m].ptr # 0 => HsCounted(hs_next[m]) /\ hs_next[m].ptr # n
    BY <1>2, HsPointers DEF HsNodesInv, HsInStackInv
  <2> QED
    BY <1>1, <1>5, <1>6, <2>1, <2>2 DEF HsInStackInv
<1>12. HsTakenInv'
  <2>1. \A u \in Threads \ {t} : hs_pc[u] \in {"swap", "add"} => hs_old[u].ptr # n
    BY <1>5 DEF HsNodesInv, HsOwnInv, HsOwns, HsOwn
  <2>2. hs_count[n] <= 0 /\ hs_old[t].count - 2 + hs_count[n] = Cardinality(HsUsers(n)')
    <3>1. HsUsers(n) \in SUBSET Threads
      BY DEF HsUsers
    <3>2. Cardinality(HsUsers(n)') = Cardinality(HsUsers(n)) - 1 /\ Cardinality(HsUsers(n)) \in Nat
      BY <1>7, <3>1, ThreadSets
    <3>3. hs_count[n] <= 0 /\ hs_head.count - 1 + hs_count[n] = Cardinality(HsUsers(n))
      BY <1>2, <1>3 DEF HsNodesInv, HsInStackInv, HsCounted
    <3>4. hs_count[n] \in Int /\ hs_head.count \in Int
      BY DEF HsTypeOK, CPtrs
    <3> QED
      BY <3>2, <3>3, <3>4
  <2>3. ASSUME NEW u \in Threads, u # t, hs_pc'[u] \in {"swap", "add"}
        PROVE  \A m : m = hs_old[u].ptr =>
                 hs_count[m] <= 0 /\ hs_old[u].count - 2 + hs_count[m] = Cardinality(HsUsers(m)')
    BY <1>6, <1>7, <2>1, <2>3 DEF HsNodesInv, HsTakenInv
  <2> QED
    BY <1>1, <1>3, <2>2, <2>3 DEF HsTakenInv
<1>13. HsReadyInv'
  <2>1. \A u \in Threads : hs_pc[u] = "push" => hs_raw[u] # n
    BY <1>5 DEF HsNodesInv, HsOwnInv, HsOwns, HsOwn
  <2> QED
    BY <1>1, <1>6, <1>7, <2>1 DEF HsNodesInv, HsReadyInv
<1>14. HsLeftInv(d)'
  <2> SUFFICES ASSUME NEW m \in hs_live \ NodesOf(d), \A u \in Threads : HsOwns(u)' => HsOwn(u)' # m
               PROVE  HsUsers(m)' # {} /\ hs_count[m] = Cardinality(HsUsers(m)')
    BY <1>1 DEF HsLeftInv
  <2>1. m # n /\ m \notin NodesOf(c)
    BY <1>5, <1>8
  <2>2. \A u \in Threads : HsOwns(u) => HsOwn(u) # m
    BY <1>8
  <2> QED
    BY <1>7, <2>1, <2>2 DEF HsNodesInv, HsLeftInv
<1> QED
  <2>1. HsNodesInv(d)'
    BY <1>9, <1>10, <1>11, <1>12, <1>13, <1>14 DEF HsNodesInv
  <2> QED
    BY <1>3, <1>4, <1>5, <2>1

(* The thread that took a node adds its count to the node's.               *)
LEMMA HsAddStep ==
  ASSUME NEW c, HsNodesInv(c), HsTypeOK, HsCallInv, NEW t \in Threads, HsAdd(t)
  PROVE  HsNodesInv(c)'
<1>1. /\ hs_pc[t] = "add" /\ hs_pc' = [hs_pc EXCEPT ![t] = "return"]
      /\ UNCHANGED <<hs_head, hs_data, hs_next, hs_old, hs_raw, hs_call>>
  BY DEF HsAdd, Move
<1>2. PICK n \in Nodes : n = hs_old[t].ptr /\ n \in hs_live /\ n \notin NodesOf(c)
  BY <1>1 DEF HsNodesInv, HsOwnInv, HsOwns, HsOwn, HsTypeOK
<1>3. PICK k \in Int : k = hs_old[t].count - 2
  BY DEF HsTypeOK, CPtrs
<1>4. /\ \A m \in Nodes \ {n} : hs_count'[m] = hs_count[m]
      /\ hs_count'[n] = hs_count[n] + k
      /\ hs_live' = IF hs_count[n] = -k THEN hs_live \ {n} ELSE hs_live
  BY <1>2, <1>3 DEF HsAdd, HsAddOrDelete, HsTypeOK
<1>5. /\ \A u \in Threads \ {t} : hs_pc'[u] = hs_pc[u]
      /\ hs_pc'[t] = "return"
  BY <1>1 DEF HsTypeOK
<1>6. \A m : HsUsers(m)' = HsUsers(m)
  BY <1>1, <1>5 DEF HsUsers
<1>7. /\ \A u \in Threads \ {t} : (HsOwns(u)' <=> HsOwns(u)) /\ (HsOwns(u) => HsOwn(u)' = HsOwn(u))
      /\ HsOwns(t) /\ ~HsOwns(t)' /\ HsOwn(t) = n
  BY <1>1, <1>2, <1>5 DEF HsOwns, HsOwn
<1>8. /\ hs_count'[n] = Cardinality(HsUsers(n))
      /\ hs_live' = IF HsUsers(n) = {} THEN hs_live \ {n} ELSE hs_live
  <2>2. hs_count[n] \in Int /\ hs_old[t].count \in Int
    BY DEF HsTypeOK, CPtrs
  <2>5. hs_old[t].count - 2 + hs_count[n] = Cardinality(HsUsers(n))
    BY <1>1, <1>2 DEF HsNodesInv, HsTakenInv
  <2>1. hs_count[n] + k = Cardinality(HsUsers(n))
    BY <1>3, <2>2, <2>5
  <2>3. Cardinality(HsUsers(n)) \in Nat /\ (Cardinality(HsUsers(n)) = 0 <=> HsUsers(n) = {})
    <3>1. HsUsers(n) \in SUBSET Threads
      BY DEF HsUsers
    <3> QED
      BY <3>1, ThreadSets
  <2>4. hs_count[n] = -k <=> Cardinality(HsUsers(n)) = 0
    BY <2>1, <2>2, <2>3
  <2> QED
    BY <1>4, <2>1, <2>3, <2>4
<1>9. \A u \in Threads \ {t} : HsOwns(u) => HsOwn(u) # n
  BY <1>7 DEF HsNodesInv, HsOwnInv
<1>10. HsStackInv(c)'
  BY <1>1, <1>2, <1>8 DEF HsNodesInv, HsStackInv, HsNextPtrs
<1>11. HsOwnInv(c)'
  <2>1. \A u \in Threads : HsOwns(u)' => u # t /\ HsOwn(u)' \in hs_live' \ NodesOf(c)
    BY <1>7, <1>8, <1>9 DEF HsNodesInv, HsOwnInv
  <2>2. \A u, v \in Threads : HsOwns(u)' /\ HsOwns(v)' /\ HsOwn(u)' = HsOwn(v)' => u = v
    BY <1>7, <2>1 DEF HsNodesInv, HsOwnInv
  <2>3. ASSUME NEW u \in Threads, hs_pc'[u] \in {"take", "sub"}
        PROVE  hs_old[u].ptr \in hs_live'
    <3>1. hs_pc[u] \in {"take", "sub"} /\ hs_old[u].ptr \in hs_live
      BY <1>5, <2>3 DEF HsNodesInv, HsOwnInv
    <3>2. hs_old[u].ptr = n => HsUsers(n) # {}
      BY <3>1 DEF HsUsers
    <3> QED
      BY <1>8, <3>1, <3>2
  <2> QED
    BY <1>1, <2>1, <2>2, <2>3 DEF HsOwnInv
<1>12. HsInStackInv(c)'
  <2>1. \A p : p.ptr \in Nodes \ {n} => (HsCounted(p)' <=> HsCounted(p))
    BY <1>4, <1>6 DEF HsCounted
  <2>2. hs_head.ptr # 0 => hs_head.ptr \in Nodes \ {n} /\ HsCounted(hs_head)
    BY <1>2, HsPointers DEF HsNodesInv, HsInStackInv
  <2>3. \A m \in NodesOf(c) : hs_next[m].ptr # 0 => hs_next[m].ptr \in Nodes \ {n} /\ HsCounted(hs_next[m])
    BY <1>2, HsPointers DEF HsNodesInv, HsInStackInv
  <2> QED
    BY <1>1, <2>1, <2>2, <2>3 DEF HsInStackInv
<1>13. HsTakenInv'
  <2>1. ASSUME NEW u \in Threads, hs_pc'[u] \in {"swap", "add"}
        PROVE  u # t /\ hs_pc[u] \in {"swap", "add"} /\ hs_old[u].ptr \in Nodes \ {n}
    BY <1>5, <1>9, <2>1 DEF HsNodesInv, HsOwnInv, HsOwns, HsOwn, HsTypeOK
  <2> QED
    BY <1>1, <1>4, <1>6, <2>1 DEF HsNodesInv, HsTakenInv
<1>14. HsReadyInv'
  <2>1. ASSUME NEW u \in Threads, hs_pc'[u] = "push"
        PROVE  u # t /\ hs_pc[u] = "push" /\ hs_raw[u] \in Nodes \ {n}
    BY <1>5, <1>9, <2>1 DEF HsNodesInv, HsOwnInv, HsOwns, HsOwn, HsTypeOK
  <2> QED
    BY <1>1, <1>4, <1>6, <2>1 DEF HsNodesInv, HsReadyInv
<1>15. HsLeftInv(c)'
  <2> SUFFICES ASSUME NEW m \in hs_live' \ NodesOf(c), \A u \in Threads : HsOwns(u)' => HsOwn(u)' # m
               PROVE  HsUsers(m) # {} /\ hs_count'[m] = Cardinality(HsUsers(m))
    BY <1>6 DEF HsLeftInv
  <2>1. CASE m = n
    BY <1>8, <2>1
  <2>2. CASE m # n
    <3>1. m \in hs_live /\ m \in Nodes /\ \A u \in Threads : HsOwns(u) => HsOwn(u) # m
      BY <1>7, <1>8, <2>2 DEF HsTypeOK
    <3> QED
      BY <1>4, <2>2, <3>1 DEF HsNodesInv, HsLeftInv
  <2> QED
    BY <2>1, <2>2
<1> QED
  BY <1>10, <1>11, <1>12, <1>13, <1>14, <1>15 DEF HsNodesInv

(* A pull() that was not the one takes its count off the node's.           *)
LEMMA HsSubStep ==
  ASSUME NEW c, HsNodesInv(c), HsTypeOK, HsCallInv, NEW t \in Threads, HsSub(t)
  PROVE  HsNodesInv(c)'
<1>1. /\ hs_pc[t] = "sub" /\ hs_pc' = [hs_pc EXCEPT ![t] = "count"]
      /\ UNCHANGED <<hs_head, hs_data, hs_next, hs_old, hs_raw, hs_call>>
  BY DEF HsSub, Move
<1>2. PICK n \in Nodes : n = hs_old[t].ptr /\ n \in hs_live
  BY <1>1 DEF HsNodesInv, HsOwnInv, HsTypeOK
<1>3. /\ \A m \in Nodes \ {n} : hs_count'[m] = hs_count[m]
      /\ hs_count'[n] = hs_count[n] - 1
      /\ hs_live' = IF hs_count[n] = 1 THEN hs_live \ {n} ELSE hs_live
  BY <1>2 DEF HsSub, HsAddOrDelete, HsTypeOK
<1>4. /\ \A u \in Threads \ {t} : hs_pc'[u] = hs_pc[u]
      /\ hs_pc'[t] = "count"
  BY <1>1 DEF HsTypeOK
<1>5. /\ \A m : m # n => HsUsers(m)' = HsUsers(m)
      /\ HsUsers(n)' = HsUsers(n) \ {t} /\ t \in HsUsers(n)
  BY <1>1, <1>2, <1>4 DEF HsUsers
<1>6. \A u \in Threads : (HsOwns(u)' <=> HsOwns(u)) /\ (HsOwns(u) => HsOwn(u)' = HsOwn(u))
  BY <1>1, <1>4 DEF HsOwns, HsOwn
<1>7. /\ Cardinality(HsUsers(n)') = Cardinality(HsUsers(n)) - 1 /\ Cardinality(HsUsers(n)) \in Nat
      /\ Cardinality(HsUsers(n)') = 0 <=> HsUsers(n)' = {}
      /\ hs_count[n] \in Int
  <2>1. HsUsers(n) \in SUBSET Threads /\ HsUsers(n) \ {t} \in SUBSET Threads
    BY DEF HsUsers
  <2>2. Cardinality(HsUsers(n) \ {t}) = Cardinality(HsUsers(n)) - 1 /\ Cardinality(HsUsers(n)) \in Nat
    BY <1>5, <2>1, ThreadSets
  <2>3. Cardinality(HsUsers(n) \ {t}) = 0 <=> HsUsers(n) \ {t} = {}
    BY <2>1, ThreadSets
  <2>4. hs_count[n] \in Int
    BY DEF HsTypeOK
  <2> QED
    BY <1>5, <2>2, <2>3, <2>4
<1>8. \A p : p.ptr = n /\ p.count \in Int /\ HsCounted(p) =>
        /\ hs_count[n] <= 0
        /\ hs_count[n] - 1 <= 0 /\ p.count - 1 + (hs_count[n] - 1) = Cardinality(HsUsers(n)')
  BY <1>7 DEF HsCounted
<1>9. n \in NodesOf(c) => hs_count[n] <= 0
  <2> SUFFICES ASSUME n \in NodesOf(c)
               PROVE  hs_count[n] <= 0
    OBVIOUS
  <2>1. n # 0
    BY NodesAssumption
  <2>2. CASE n = hs_head.ptr
    BY <2>1, <2>2 DEF HsNodesInv, HsInStackInv, HsCounted
  <2>3. CASE n # hs_head.ptr
    <3>1. PICK m \in NodesOf(c) : hs_next[m].ptr = n
      BY <2>3, HsPointers DEF HsNodesInv
    <3> QED
      BY <2>1, <3>1 DEF HsNodesInv, HsInStackInv, HsCounted
  <2> QED
    BY <2>2, <2>3
<1>10. \A u \in Threads : hs_pc[u] \in {"swap", "add"} /\ hs_old[u].ptr = n => hs_count[n] <= 0
  BY DEF HsNodesInv, HsTakenInv
<1>11. \A u \in Threads : hs_pc[u] = "push" => hs_raw[u] # n
  BY <1>5 DEF HsNodesInv, HsReadyInv
<1>12. hs_count[n] = 1 => n \notin NodesOf(c) /\ \A u \in Threads : HsOwns(u) => HsOwn(u) # n
  BY <1>9, <1>10, <1>11 DEF HsOwns, HsOwn
<1>13. hs_count[n] = 1 => HsUsers(n)' = {}
  <2>1. ASSUME hs_count[n] = 1
        PROVE  hs_count[n] = Cardinality(HsUsers(n))
    BY <1>2, <1>12, <2>1 DEF HsNodesInv, HsLeftInv
  <2> QED
    BY <1>7, <2>1
<1>14. HsStackInv(c)'
  BY <1>1, <1>3, <1>12 DEF HsNodesInv, HsStackInv, HsNextPtrs
<1>15. HsOwnInv(c)'
  <2>1. \A u \in Threads : HsOwns(u)' => HsOwn(u)' \in hs_live' \ NodesOf(c)
    BY <1>3, <1>6, <1>12 DEF HsNodesInv, HsOwnInv
  <2>2. \A u, v \in Threads : HsOwns(u)' /\ HsOwns(v)' /\ HsOwn(u)' = HsOwn(v)' => u = v
    BY <1>6 DEF HsNodesInv, HsOwnInv
  <2>3. ASSUME NEW u \in Threads, hs_pc'[u] \in {"take", "sub"}
        PROVE  hs_old[u].ptr \in hs_live'
    <3>1. u # t /\ hs_pc[u] \in {"take", "sub"} /\ hs_old[u].ptr \in hs_live
      BY <1>4, <2>3 DEF HsNodesInv, HsOwnInv
    <3>2. hs_old[u].ptr = n => u \in HsUsers(n)'
      BY <1>5, <3>1 DEF HsUsers
    <3> QED
      BY <1>3, <1>13, <3>1, <3>2
  <2> QED
    BY <1>1, <2>1, <2>2, <2>3 DEF HsOwnInv
<1>16. HsInStackInv(c)'
  <2>1. \A p : /\ p \in CPtrs /\ p.ptr \in Nodes /\ HsCounted(p) => HsCounted(p)'
    <3> SUFFICES ASSUME NEW p \in CPtrs, p.ptr \in Nodes, HsCounted(p)
                 PROVE  HsCounted(p)'
      OBVIOUS
    <3>1. CASE p.ptr = n
      <4>1. p.count \in Int
        BY DEF CPtrs
      <4> QED
        BY <1>3, <1>8, <3>1, <4>1 DEF HsCounted
    <3>2. CASE p.ptr # n
      BY <1>3, <1>5, <3>2 DEF HsCounted
    <3> QED
      BY <3>1, <3>2
  <2>2. hs_head \in CPtrs /\ \A m \in Nodes : hs_next[m] \in CPtrs
    BY DEF HsTypeOK
  <2>3. hs_head.ptr # 0 => hs_head.ptr \in Nodes /\ HsCounted(hs_head)
    BY HsPointers DEF HsNodesInv, HsInStackInv
  <2>4. \A m \in NodesOf(c) : m \in Nodes /\ (hs_next[m].ptr # 0 => hs_next[m].ptr \in Nodes /\ HsCounted(hs_next[m]))
    BY HsPointers DEF HsNodesInv, HsInStackInv
  <2> QED
    BY <1>1, <2>1, <2>2, <2>3, <2>4 DEF HsInStackInv
<1>17. HsTakenInv'
  <2> SUFFICES ASSUME NEW u \in Threads, hs_pc'[u] \in {"swap", "add"}
               PROVE  \A m : m = hs_old[u].ptr =>
                        hs_count'[m] <= 0 /\ hs_old[u].count - 2 + hs_count'[m] = Cardinality(HsUsers(m)')
    BY <1>1 DEF HsTakenInv
  <2>1. u # t /\ hs_pc[u] \in {"swap", "add"} /\ hs_old[u].ptr \in Nodes /\ hs_old[u].count \in Int
    BY <1>4 DEF HsNodesInv, HsOwnInv, HsOwns, HsOwn, HsTypeOK, CPtrs
  <2>2. CASE hs_old[u].ptr = n
    <3>1. hs_count[n] <= 0 /\ hs_old[u].count - 2 + hs_count[n] = Cardinality(HsUsers(n))
      BY <2>1, <2>2 DEF HsNodesInv, HsTakenInv
    <3> QED
      BY <1>3, <1>7, <2>1, <2>2, <3>1
  <2>3. CASE hs_old[u].ptr # n
    BY <1>3, <1>5, <2>1, <2>3 DEF HsNodesInv, HsTakenInv
  <2> QED
    BY <2>2, <2>3
<1>18. HsReadyInv'
  <2>1. ASSUME NEW u \in Threads, hs_pc'[u] = "push"
        PROVE  u # t /\ hs_pc[u] = "push" /\ hs_raw[u] \in Nodes \ {n}
    BY <1>4, <1>11, <2>1 DEF HsNodesInv, HsOwnInv, HsOwns, HsOwn, HsTypeOK
  <2> QED
    BY <1>1, <1>3, <1>5, <2>1 DEF HsNodesInv, HsReadyInv
<1>19. HsLeftInv(c)'
  <2> SUFFICES ASSUME NEW m \in hs_live' \ NodesOf(c), \A u \in Threads : HsOwns(u)' => HsOwn(u)' # m
               PROVE  HsUsers(m)' # {} /\ hs_count'[m] = Cardinality(HsUsers(m)')
    BY DEF HsLeftInv
  <2>1. m \in hs_live /\ m \in Nodes /\ \A u \in Threads : HsOwns(u) => HsOwn(u) # m
    BY <1>3, <1>6 DEF HsTypeOK
  <2>2. HsUsers(m) # {} /\ hs_count[m] = Cardinality(HsUsers(m))
    BY <2>1 DEF HsNodesInv, HsLeftInv
  <2>3. CASE m = n
    <3>1. hs_count[n] # 1
      BY <1>3, <2>3
    <3> QED
      BY <1>3, <1>7, <2>2, <2>3, <3>1
  <2>4. CASE m # n
    BY <1>3, <1>5, <2>1, <2>2, <2>4
  <2> QED
    BY <2>3, <2>4
<1> QED
  BY <1>14, <1>15, <1>16, <1>17, <1>18, <1>19 DEF HsNodesInv

(* The steps that are about nobody's nodes.                                *)
LEMMA HsOtherSteps ==
  ASSUME NEW c, HsNodesInv(c), HsTypeOK, HsCallInv, NEW t \in Threads,
         HsCall(t) \/ HsSwap(t) \/ HsReturn(t) \/ (HsTake(t) /\ hs_head # hs_old[t])
  PROVE  /\ HsNodesInv(c)' /\ UNCHANGED <<hs_head, hs_next>>
         /\ \A n \in NodesOf(c) : hs_data'[n] = hs_data[n]
<1> USE DEF Move, HsTypeOK
<1>1. UNCHANGED <<hs_head, hs_next, hs_count, hs_live>>
  BY DEF HsCall, HsSwap, HsReturn, HsTake, hsHeap
<1>2. /\ \A u \in Threads \ {t} : /\ hs_pc'[u] = hs_pc[u] /\ hs_old'[u] = hs_old[u] /\ hs_raw'[u] = hs_raw[u]
                                  /\ hs_call'[u] = hs_call[u]
  BY DEF HsCallInv, HsCall, HsSwap, HsReturn, HsTake
<1>3. \/ hs_pc[t] = "idle" /\ hs_pc'[t] \in {"new", "count"}
      \/ hs_pc[t] = "swap" /\ hs_pc'[t] = "add" /\ hs_old'[t] = hs_old[t]
      \/ hs_pc[t] = "return" /\ hs_pc'[t] = "idle"
      \/ hs_pc[t] = "take" /\ hs_pc'[t] = "sub" /\ hs_old'[t] = hs_old[t]
  BY DEF HsCall, HsSwap, HsReturn, HsTake
<1>4. ASSUME NEW n \in Nodes, hs_data'[n] # hs_data[n]
      PROVE  HsOwns(t) /\ hs_pc[t] = "swap" /\ n = HsOwn(t)
  BY <1>4 DEF HsCall, HsSwap, HsReturn, HsTake, hsHeap, HsOwns, HsOwn
<1>5. \A n \in NodesOf(c) : hs_data'[n] = hs_data[n]
  BY <1>4, HsPointers DEF HsNodesInv, HsOwnInv
<1>6. \A u \in Threads : hs_pc[u] = "push" => hs_data'[hs_raw[u]] = hs_data[hs_raw[u]]
  BY <1>4 DEF HsNodesInv, HsOwnInv, HsOwns, HsOwn
<1> HIDE DEF HsTypeOK
<1>7. HsNodesInv(c)'
  BY <1>1, <1>2, <1>3, <1>6, HsQuiet
<1> QED
  BY <1>1, <1>5, <1>7

(* The stack after a step of thread t.                                     *)
HsStackAfter(c, t) ==
  CASE hs_pc[t] = "push" /\ hs_head = hs_next[hs_raw[t]] -> <<hs_raw[t]>> \o c
    [] hs_pc[t] = "take" /\ hs_head = hs_old[t] -> Tail(c)
    [] OTHER -> c

(* Every step keeps the invariant, with the chain that it makes of the     *)
(* stack.                                                                  *)
LEMMA HsStepKept ==
  ASSUME NEW c, HsInv(c), NEW t \in Threads, HsCall(t) \/ HsRun(t)
  PROVE  HsTypeOK' /\ HsCallInv' /\ \A d : d = HsStackAfter(c, t) => HsNodesInv(d)'
<1> USE DEF Move
<1>1. HsTypeOK /\ HsCallInv /\ HsNodesInv(c)
  BY DEF HsInv, HsNodesInv
<1>2. HsTypeOK' /\ HsCallInv'
  <2>1. /\ hs_pc[t] \in {"swap", "add", "take", "sub"} => hs_old[t].ptr \in Nodes
        /\ hs_pc[t] = "push" => hs_raw[t] \in Nodes
    BY <1>1 DEF HsNodesInv, HsOwnInv, HsOwns, HsOwn, HsTypeOK
  <2> QED
    BY <1>1, <2>1, HsTypesKept
<1>3. ASSUME HsCall(t) \/ HsSwap(t) \/ HsReturn(t) \/ (HsTake(t) /\ hs_head # hs_old[t])
      PROVE  HsStackAfter(c, t) = c /\ HsNodesInv(c)'
  <2>1. HsNodesInv(c)'
    BY <1>1, <1>3, HsOtherSteps
  <2> QED
    BY <1>3, <2>1 DEF HsStackAfter, HsCall, HsSwap, HsReturn, HsTake
<1>4. ASSUME HsNew(t) \/ HsCount(t) \/ HsAdd(t) \/ HsSub(t) \/ (HsPush(t) /\ hs_head # hs_next[hs_raw[t]])
      PROVE  HsStackAfter(c, t) = c /\ HsNodesInv(c)'
  <2>1. HsNodesInv(c)'
    BY <1>1, <1>4, HsNewStep, HsCountStep, HsAddStep, HsSubStep, HsPushFails
  <2> QED
    BY <1>4, <2>1 DEF HsStackAfter, HsNew, HsCount, HsAdd, HsSub, HsPush
<1>5. ASSUME HsPush(t), hs_head = hs_next[hs_raw[t]]
      PROVE  \A d : d = HsStackAfter(c, t) => HsNodesInv(d)'
  <2>1. HsStackAfter(c, t) = <<hs_raw[t]>> \o c
    BY <1>5 DEF HsStackAfter, HsPush
  <2>2. HsNodesInv(<<hs_raw[t]>> \o c)' /\ hs_raw' = hs_raw
    BY <1>1, <1>5, HsPushSucceeds DEF HsPush
  <2> QED
    BY <2>1, <2>2
<1>6. ASSUME HsTake(t), hs_head = hs_old[t]
      PROVE  \A d : d = HsStackAfter(c, t) => HsNodesInv(d)'
  <2>1. HsStackAfter(c, t) = Tail(c)
    BY <1>6 DEF HsStackAfter, HsTake
  <2>2. HsNodesInv(Tail(c))'
    BY <1>1, <1>6, HsTakes
  <2> QED
    BY <2>1, <2>2
<1> QED
  BY <1>2, <1>3, <1>4, <1>5, <1>6 DEF HsRun

(* The inductive invariant of hl_stack: its nodes are the stack's, or of   *)
(* one thread, or of their users together, and the counts make the number  *)
(* of users.                                                               *)
THEOREM HsInvariance == HsSpec => [](\E c : HsInv(c))
<1>1. HsInit => \E c : HsInv(c)
  <2> SUFFICES ASSUME HsInit
               PROVE  HsInv(<< >>)
    OBVIOUS
  <2>1. HsTypeOK /\ HsCallInv
    BY DEF HsInit, HsTypeOK, HsCallInv, HsCalls, HsIdle, NullPtr, CPtr, CPtrs
  <2>2. NodesOf(<< >>) = {} /\ \A n : HsUsers(n) = {}
    BY DEF NodesOf, HsUsers, HsInit
  <2>3. IsChain(<< >>, 0, HsNextPtrs)
    BY EmptySeq DEF IsChain
  <2>4. hs_head.ptr = 0 /\ hs_live = {} /\ \A t \in Threads : hs_pc[t] = "idle"
    BY DEF HsInit, NullPtr, CPtr
  <2> QED
    BY <2>1, <2>2, <2>3, <2>4
       DEF HsInv, HsStackInv, HsOwnInv, HsOwns, HsInStackInv, HsTakenInv, HsReadyInv, HsLeftInv
<1>2. (\E c : HsInv(c)) /\ [HsNext]_hsVars => (\E c : HsInv(c))'
  <2> SUFFICES ASSUME NEW c, HsInv(c), [HsNext]_hsVars
               PROVE  (\E d : HsInv(d))'
    OBVIOUS
  <2>1. ASSUME NEW t \in Threads, HsCall(t) \/ HsRun(t)
        PROVE  (\E d : HsInv(d))'
    <3>1. PICK d : d = HsStackAfter(c, t)
      OBVIOUS
    <3>2. HsInv(d)'
      BY <2>1, <3>1, HsStepKept DEF HsInv, HsNodesInv
    <3> QED
      BY <3>2
  <2>2. CASE UNCHANGED hsVars
    <3>1. HsTypeOK' /\ HsCallInv'
      BY <2>2 DEF HsInv, HsTypeOK, HsCallInv, hsVars, hsHeap
    <3>2. HsNodesInv(c)'
      <4>1. HsNodesInv(c) /\ HsTypeOK
        BY DEF HsInv, HsNodesInv
      <4> QED
        BY <2>2, <4>1, HsQuiet DEF hsVars, hsHeap
    <3> QED
      BY <3>1, <3>2 DEF HsInv, HsNodesInv
  <2> QED
    BY <2>1, <2>2 DEF HsNext
<1> QED
  BY <1>1, <1>2, PTL DEF HsSpec

(* What the invariant says of the model's own chain.                       *)
LEMMA HsChainIs ==
  ASSUME NEW c, HsInv(c)
  PROVE  HsChain = c
<1>1. IsChain(c, hs_head.ptr, HsNextPtrs)
  BY DEF HsInv, HsStackInv
<1> QED
  BY <1>1, ChainComputed DEF HsChain, HsNextPtrs

(* The model's own chain after a step.                                     *)
LEMMA HsChainThen ==
  ASSUME NEW c, HsInv(c)'
  PROVE  HsChain' = c
<1>1. IsChain(c, hs_head'.ptr, HsNextPtrs')
  BY DEF HsInv, HsStackInv
<1>2. ChainFrom(hs_head'.ptr, HsNextPtrs') = c
  BY <1>1, ChainComputed
<1> QED
  BY <1>2 DEF HsChain, HsNextPtrs

(* Every variable of hl_stack keeps its type.                              *)
THEOREM HsTypeCorrect == HsSpec => []HsTypeOK
<1>1. (\E c : HsInv(c)) => HsTypeOK
  BY DEF HsInv
<1> QED
  BY <1>1, HsInvariance, PTL

(* No node of hl_stack is touched after its deletion, and the last user of *)
(* a node deletes it.                                                      *)
THEOREM HsReclaims == HsSpec => [](HsNoDeadNode /\ HsNoLeak)
<1>1. ASSUME NEW c, HsInv(c)
      PROVE  HsNoDeadNode /\ HsNoLeak
  <2>1. HsInStack = NodesOf(c) /\ NodesOf(c) \subseteq hs_live
    BY <1>1, HsChainIs DEF HsInStack, HsInv, HsStackInv
  <2>2. HsUsed \subseteq hs_live
    BY <1>1 DEF HsUsed, HsInv, HsOwnInv, HsOwns, HsOwn
  <2>3. ASSUME NEW n \in hs_live \ NodesOf(c)
        PROVE  n \in HsUsed \cup HsReady
    <3>1. CASE \E t \in Threads : HsOwns(t) /\ HsOwn(t) = n
      BY <3>1 DEF HsOwns, HsOwn, HsUsed, HsReady
    <3>2. CASE \A t \in Threads : HsOwns(t) => HsOwn(t) # n
      <4>1. HsUsers(n) # {}
        BY <1>1, <3>2 DEF HsInv, HsLeftInv
      <4> QED
        BY <4>1 DEF HsUsers, HsUsed
    <3> QED
      BY <3>1, <3>2
  <2> QED
    BY <2>1, <2>2, <2>3 DEF HsNoDeadNode, HsNoLeak
<1>2. (\E c : HsInv(c)) => HsNoDeadNode /\ HsNoLeak
  BY <1>1
<1> QED
  BY <1>2, HsInvariance, PTL

-----------------------------------------------------------------------------
(* The stacks are linearizable *)

(* A sequence is the function of its places.                               *)
LEMMA SeqIsFunction ==
  ASSUME NEW S, NEW s \in Seq(S)
  PROVE  s = [i \in 1 .. Len(s) |-> s[i]]
OBVIOUS

(* The elements of a chain, when a node is pushed and when one is taken.   *)
LEMMA DataPushed ==
  ASSUME NEW c \in Seq(Nodes), NEW n \in Nodes, NEW data
  PROVE  DataOf(<<n>> \o c, data) = <<data[n]>> \o DataOf(c, data)
<1> DEFINE d == <<n>> \o c
           e == DataOf(c, data)
           S == {data[m] : m \in Nodes}
<1>1. Len(c) \in Nat /\ DOMAIN c = 1 .. Len(c) /\ \A i \in 1 .. Len(c) : c[i] \in Nodes
  OBVIOUS
<1>2. e = [i \in 1 .. Len(c) |-> data[c[i]]]
  BY <1>1 DEF DataOf
<1>3. e \in Seq(S) /\ Len(e) = Len(c)
  <2>1. \A i \in 1 .. Len(c) : data[c[i]] \in S
    BY <1>1
  <2> HIDE DEF S
  <2> QED
    BY <1>1, <1>2, <2>1, SeqDef
<1>4. <<data[n]>> \in Seq(S) /\ <<n>> \in Seq(Nodes)
  OBVIOUS
<1>5. /\ d \in Seq(Nodes) /\ Len(d) = Len(c) + 1
      /\ \A i \in 1 .. Len(d) : d[i] = IF i <= 1 THEN n ELSE c[i - 1]
  BY <1>4, ConcatProperties
<1> HIDE DEF S, e, d
<1>6. /\ <<data[n]>> \o e \in Seq(S) /\ Len(<<data[n]>> \o e) = Len(e) + 1
      /\ \A i \in 1 .. Len(e) + 1 : (<<data[n]>> \o e)[i] = IF i <= 1 THEN data[n] ELSE e[i - 1]
  BY <1>3, <1>4, ConcatProperties
<1>7. DataOf(d, data) = [i \in 1 .. Len(d) |-> data[d[i]]]
  BY <1>5 DEF DataOf
<1>8. <<data[n]>> \o e = [i \in 1 .. Len(d) |-> (<<data[n]>> \o e)[i]]
  BY <1>3, <1>5, <1>6
<1>9. ASSUME NEW i \in 1 .. Len(d)
      PROVE  data[d[i]] = (<<data[n]>> \o e)[i]
  <2>1. i > 1 => i - 1 \in 1 .. Len(c)
    BY <1>1, <1>5
  <2> QED
    BY <1>1, <1>2, <1>3, <1>5, <1>6, <2>1
<1> QED
  BY <1>7, <1>8, <1>9 DEF d, e

(* The elements of a chain whose first node is taken.                      *)
LEMMA DataTaken ==
  ASSUME NEW c \in Seq(Nodes), c # << >>, NEW data
  PROVE  /\ DataOf(c, data) # << >> /\ Head(DataOf(c, data)) = data[Head(c)]
         /\ DataOf(Tail(c), data) = Tail(DataOf(c, data))
<1> DEFINE e == DataOf(c, data)
           d == Tail(c)
           S == {data[m] : m \in Nodes}
<1>1. /\ Len(c) \in Nat \ {0} /\ DOMAIN c = 1 .. Len(c) /\ \A i \in 1 .. Len(c) : c[i] \in Nodes
      /\ 1 \in 1 .. Len(c)
  BY EmptySeq
<1>2. e = [i \in 1 .. Len(c) |-> data[c[i]]]
  BY <1>1 DEF DataOf
<1>3. e \in Seq(S) /\ Len(e) = Len(c)
  <2>1. \A i \in 1 .. Len(c) : data[c[i]] \in S
    BY <1>1
  <2> HIDE DEF S
  <2> QED
    BY <1>1, <1>2, <2>1, SeqDef
<1>4. /\ d \in Seq(Nodes) /\ Len(d) = Len(c) - 1 /\ Head(c) = c[1]
      /\ \A i \in 1 .. Len(d) : d[i] = c[i + 1]
  BY HeadTailProperties
<1> HIDE DEF S, d, e
<1>5. e # << >>
  BY <1>1, <1>3, EmptySeq
<1>6. /\ Tail(e) \in Seq(S) /\ Len(Tail(e)) = Len(e) - 1 /\ Head(e) = e[1]
      /\ \A i \in 1 .. Len(e) - 1 : Tail(e)[i] = e[i + 1]
  BY <1>3, <1>5, HeadTailProperties
<1>7. DataOf(d, data) = [i \in 1 .. Len(d) |-> data[d[i]]]
  BY <1>4 DEF DataOf
<1>8. Tail(e) = [i \in 1 .. Len(d) |-> Tail(e)[i]]
  <2>1. Tail(e) = [i \in 1 .. Len(Tail(e)) |-> Tail(e)[i]]
    BY <1>6, SeqIsFunction
  <2> QED
    BY <1>3, <1>4, <1>6, <2>1
<1>9. ASSUME NEW i \in 1 .. Len(d)
      PROVE  data[d[i]] = Tail(e)[i]
  <2>1. i + 1 \in 1 .. Len(c) /\ i \in 1 .. Len(e) - 1
    BY <1>1, <1>3, <1>4
  <2> QED
    BY <1>2, <1>4, <1>6, <2>1
<1>10. Head(e) = data[c[1]]
  BY <1>1, <1>2, <1>6
<1> QED
  BY <1>4, <1>5, <1>7, <1>8, <1>9, <1>10 DEF d, e

(* A chain whose nodes hold the same elements as before.                   *)
LEMMA DataSame ==
  ASSUME NEW c \in Seq(Nodes), NEW data, NEW then, \A n \in NodesOf(c) : then[n] = data[n]
  PROVE  DataOf(c, then) = DataOf(c, data)
BY DEF DataOf, NodesOf

(* A step of hl_stack is one of LifoStack, or changes nothing there.       *)
LEMMA HsStepIsLifo ==
  ASSUME NEW c, HsInv(c), NEW t \in Threads, HsCall(t) \/ HsRun(t)
  PROVE  [HsLifo!Next]_(HsLifo!vars)
<1> DEFINE S == DataOf(HsChain, hs_data)
<1>1. PICK d : d = HsStackAfter(c, t)
  OBVIOUS
<1>2. HsInv(d)'
  BY <1>1, HsStepKept DEF HsInv, HsNodesInv
<1>3. S = DataOf(c, hs_data) /\ S' = DataOf(d, hs_data')
  BY <1>2, HsChainIs, HsChainThen
<1>4. c \in Seq(Nodes) /\ NodesOf(c) \subseteq hs_live /\ HsTypeOK /\ HsCallInv /\ HsNodesInv(c)
  BY DEF HsInv, HsNodesInv, HsStackInv, IsChain
<1>5. /\ hs_pc[t] = "idle" => hs_call[t] = HsIdle
      /\ hs_pc[t] \in {"new", "push"} => hs_call[t].op = "push" /\ hs_ret[t] = HsNoRet
      /\ hs_pc[t] \in {"count", "take", "sub"} => hs_call[t].op = "pull" /\ hs_ret[t] = HsNoRet
      /\ hs_pc[t] = "return" => hs_call[t] # HsIdle /\ hs_ret[t] # HsNoRet
  BY <1>4 DEF HsCallInv
<1> HIDE DEF S
<1>6. ASSUME d = c, \A n \in NodesOf(c) : hs_data'[n] = hs_data[n]
      PROVE  S' = S
  BY <1>3, <1>4, <1>6, DataSame
<1> USE DEF Move
<1>7. ASSUME HsSwap(t) \/ HsCall(t) \/ HsReturn(t) \/ (HsTake(t) /\ hs_head # hs_old[t])
      PROVE  S' = S
  <2>1. d = c
    BY <1>1, <1>7 DEF HsStackAfter, HsCall, HsSwap, HsReturn, HsTake
  <2> QED
    BY <1>4, <1>6, <1>7, <2>1, HsOtherSteps
<1>8. CASE HsCall(t)
  <2>1. HsLifo!Call(t)
    BY <1>5, <1>7, <1>8 DEF HsLifo!Call, HsLifo!Idle, HsCall, HsIdle, S
  <2> QED
    BY <2>1 DEF HsLifo!Next
<1>9. CASE HsReturn(t)
  <2>1. HsLifo!Return(t)
    BY <1>5, <1>7, <1>9 DEF HsLifo!Return, HsLifo!Idle, HsLifo!NoRet, HsReturn, HsIdle, HsNoRet, S
  <2> QED
    BY <2>1 DEF HsLifo!Next
<1>10. ASSUME S' = S, UNCHANGED <<hs_call, hs_ret>>
       PROVE  UNCHANGED HsLifo!vars
  BY <1>10 DEF HsLifo!vars, S
<1>11. CASE HsSwap(t)
  BY <1>7, <1>10, <1>11 DEF HsSwap
<1>12. CASE HsNew(t)
  <2>1. d = c /\ \A n \in NodesOf(c) : hs_data'[n] = hs_data[n]
    <3>1. PICK n \in Nodes \ hs_live : hs_data' = [hs_data EXCEPT ![n] = hs_call[t].arg]
      BY <1>12 DEF HsNew, FirstFree
    <3>2. d = c
      BY <1>1, <1>12 DEF HsStackAfter, HsNew
    <3> QED
      BY <1>4, <3>1, <3>2 DEF HsTypeOK
  <2> QED
    BY <1>6, <1>10, <1>12, <2>1 DEF HsNew
<1>13. CASE HsAdd(t) \/ HsSub(t) \/ (HsPush(t) /\ hs_head # hs_next[hs_raw[t]])
  <2>1. d = c /\ UNCHANGED <<hs_data, hs_call, hs_ret>>
    BY <1>1, <1>13 DEF HsStackAfter, HsAdd, HsSub, HsPush
  <2> QED
    BY <1>6, <1>10, <2>1
<1>14. CASE HsPush(t) /\ hs_head = hs_next[hs_raw[t]]
  <2>1. /\ hs_pc[t] = "push" /\ UNCHANGED <<hs_data, hs_call>>
        /\ hs_ret' = [hs_ret EXCEPT ![t] = HsLifo!Result("success", Null)]
    BY <1>14 DEF HsPush, HsResult, HsLifo!Result
  <2>2. hs_data[hs_raw[t]] = hs_call[t].arg /\ hs_raw[t] \in Nodes
    BY <1>4, <2>1 DEF HsNodesInv, HsReadyInv, HsOwnInv, HsOwns, HsOwn, HsTypeOK
  <2>3. d = <<hs_raw[t]>> \o c
    BY <1>1, <1>14, <2>1 DEF HsStackAfter
  <2>4. S' = <<hs_call[t].arg>> \o S
    BY <1>3, <1>4, <2>1, <2>2, <2>3, DataPushed
  <2>5. HsLifo!Push(t)
    BY <1>5, <2>1, <2>4 DEF HsLifo!Push, HsLifo!Pending, HsLifo!TakesEffect, HsLifo!NoRet, HsNoRet, S
  <2> QED
    BY <2>5 DEF HsLifo!Next
<1>15. CASE HsCount(t)
  <2>1. hs_pc[t] = "count" /\ d = c /\ UNCHANGED <<hs_data, hs_call>>
    BY <1>1, <1>15 DEF HsStackAfter, HsCount, hsHeap
  <2>2. S' = S
    BY <1>6, <2>1
  <2>3. CASE hs_head.ptr # 0
    BY <1>10, <1>15, <2>1, <2>2, <2>3 DEF HsCount, CPtr
  <2>4. CASE hs_head.ptr = 0
    <3>1. hs_ret' = [hs_ret EXCEPT ![t] = HsLifo!Result("empty", Null)]
      BY <1>15, <2>4 DEF HsCount, CPtr, HsResult, HsLifo!Result
    <3>2. S = << >>
      <4>1. c = << >>
        BY <1>4, <2>4, ChainNodes DEF HsNodesInv, HsStackInv
      <4> QED
        BY <1>3, <4>1 DEF DataOf
    <3>3. HsLifo!PullEmpty(t)
      BY <1>5, <2>1, <2>2, <3>1, <3>2
         DEF HsLifo!PullEmpty, HsLifo!Pending, HsLifo!TakesEffect, HsLifo!NoRet, HsNoRet, S
    <3> QED
      BY <3>3 DEF HsLifo!Next
  <2> QED
    BY <2>3, <2>4
<1>16. CASE HsTake(t) /\ hs_head # hs_old[t]
  BY <1>7, <1>10, <1>16 DEF HsTake
<1>17. CASE HsTake(t) /\ hs_head = hs_old[t]
  <2>1. hs_pc[t] = "take" /\ UNCHANGED <<hs_data, hs_call>>
    BY <1>17 DEF HsTake, hsHeap
  <2>2. c # << >> /\ hs_old[t].ptr = Head(c)
    BY <1>4, <1>17, HsTakes
  <2>3. d = Tail(c)
    BY <1>1, <1>17, <2>1 DEF HsStackAfter
  <2>4. S # << >> /\ Head(S) = hs_data[hs_old[t].ptr] /\ S' = Tail(S)
    BY <1>3, <1>4, <2>1, <2>2, <2>3, DataTaken
  <2>5. hs_ret' = [hs_ret EXCEPT ![t] = HsLifo!Result("success", Head(S))]
    BY <1>17, <2>4 DEF HsTake, HsResult, HsLifo!Result
  <2>6. hs_ret'[t] # HsNoRet
    BY <1>4, <2>5 DEF HsLifo!Result, HsNoRet, HsCallInv
  <2>7. HsLifo!Pull(t)
    BY <1>5, <2>1, <2>4, <2>5, <2>6
       DEF HsLifo!Pull, HsLifo!Pending, HsLifo!TakesEffect, HsLifo!NoRet, HsNoRet, S
  <2> QED
    BY <2>7 DEF HsLifo!Next
<1> QED
  BY <1>8, <1>9, <1>11, <1>12, <1>13, <1>14, <1>15, <1>16, <1>17 DEF HsRun

(* hl_stack implements the stack that LifoStack describes.                 *)
THEOREM HsIsLifo == HsSpec => HsImplementsLifo
<1>1. HsInit => HsLifo!Init
  <2> SUFFICES ASSUME HsInit
               PROVE  HsLifo!Init
    OBVIOUS
  <2>1. IsChain(<< >>, hs_head.ptr, HsNextPtrs)
    BY EmptySeq DEF IsChain, HsInit, NullPtr, CPtr
  <2>2. HsChain = << >>
    BY <2>1, ChainComputed DEF HsChain, HsNextPtrs
  <2>3. DataOf(HsChain, hs_data) = << >>
    BY <2>2 DEF DataOf
  <2> QED
    BY <2>3 DEF HsLifo!Init, HsLifo!Idle, HsLifo!NoRet, HsInit, HsIdle, HsNoRet
<1>2. (\E c : HsInv(c)) /\ [HsNext]_hsVars => [HsLifo!Next]_(HsLifo!vars)
  <2> SUFFICES ASSUME NEW c, HsInv(c), [HsNext]_hsVars
               PROVE  [HsLifo!Next]_(HsLifo!vars)
    OBVIOUS
  <2>1. CASE HsNext
    BY <2>1, HsStepIsLifo DEF HsNext
  <2>2. CASE UNCHANGED hsVars
    BY <2>2 DEF hsVars, hsHeap, HsLifo!vars, HsChain
  <2> QED
    BY <2>1, <2>2
<1> QED
  BY <1>1, <1>2, HsInvariance, PTL DEF HsSpec, HsImplementsLifo, HsLifo!Spec

-----------------------------------------------------------------------------
(* ll_stack: the inductive invariant *)

(* Path p leads from first along next; where its last node leads is open.  *)
IsPath(p, first, next) ==
  /\ p \in Seq(Nodes)
  /\ \A i, j \in 1 .. Len(p) : p[i] = p[j] => i = j
  /\ first = IF Len(p) = 0 THEN 0 ELSE p[1]
  /\ \A i \in 1 .. Len(p) : i # Len(p) => next[p[i]] = p[i + 1]

(* Where the nodes begin that thread t owns.                               *)
LlFirst(t) ==
  CASE ll_pc[t] \in {"push", "swap", "alone", "delete"} -> ll_raw[t]
    [] ll_pc[t] \in {"pend", "link", "sub", "put_back", "link_back"} -> ll_list[t]
    [] OTHER -> 0

(* Thread t owns the nodes of the path p.                                  *)
LlHeld(t, p) ==
  /\ IsPath(p, LlFirst(t), ll_next)
  /\ ll_pc[t] \in {"push", "swap", "alone", "delete", "pend", "link"} => Len(p) <= 1
  /\ ll_pc[t] \in {"push", "swap", "link", "link_back"} => Len(p) # 0
  /\ ll_pc[t] \in {"sub", "put_back"} => IsChain(p, ll_list[t], ll_next)
  /\ ll_pc[t] \in {"link", "link_back"} => ll_last[t] = p[Len(p)]

(* The nodes of the stack, of the pending list and of the threads are      *)
(* different ones, and make all that are live.                             *)
OwnedOnce(s, r, L, live) ==
  /\ NodesOf(s) \cap NodesOf(r) = {}
  /\ \A t \in Threads : NodesOf(L[t]) \cap (NodesOf(s) \cup NodesOf(r)) = {}
  /\ \A t, u \in Threads : t # u => NodesOf(L[t]) \cap NodesOf(L[u]) = {}
  /\ live = NodesOf(s) \cup NodesOf(r) \cup UNION {NodesOf(L[t]) : t \in Threads}

(* The threads that ll_ths counts.                                         *)
LlInside ==
  {t \in Threads : ll_pc[t] \in {"load", "take", "swap", "alone", "delete", "sub", "pend", "link", "sub_one"}}

(* A thread that loaded the head and has not taken it yet may follow it:   *)
(* nobody is about to delete that node.                                    *)
LlTakersInv ==
  \A t \in Threads : ll_pc[t] = "take" =>
    /\ ll_raw[t] \in ll_live
    /\ \A u \in Threads : ll_pc[u] = "delete" => ll_raw[u] # ll_raw[t]

LlLabels ==
  {"idle", "new", "push", "add", "load", "take", "swap", "alone", "delete", "sub", "pend", "link", "sub_one",
   "put_back", "link_back", "return"}
LlCalls == [op : {"none", "push", "pull"}, arg : Values \cup {Null}]

LlCallInv ==
  /\ ll_call \in [Threads -> LlCalls]
  /\ DOMAIN ll_ret = Threads
  /\ ll_pc \in [Threads -> LlLabels]
  /\ \A t \in Threads :
       /\ ll_pc[t] = "idle" => ll_call[t] = LlIdle /\ ll_ret[t] = LlNoRet
       /\ ll_pc[t] \in {"new", "push"} => ll_call[t].op = "push" /\ ll_ret[t] = LlNoRet
       /\ ll_pc[t] \in {"add", "load", "take"} => ll_call[t].op = "pull" /\ ll_ret[t] = LlNoRet
       /\ ll_pc[t] \notin {"idle", "new", "push", "add", "load", "take"} =>
            ll_call[t] # LlIdle /\ ll_ret[t] # LlNoRet

(* The part of the invariant that is about the nodes.                      *)
LlNodesInv(s, r, L) ==
  /\ IsChain(s, ll_head, ll_next) /\ IsChain(r, ll_ready, ll_next)
  /\ L \in [Threads -> Seq(Nodes)] /\ \A t \in Threads : LlHeld(t, L[t])
  /\ OwnedOnce(s, r, L, ll_live)
  /\ LlTakersInv
  /\ \A t \in Threads : ll_pc[t] = "push" => ll_data[ll_raw[t]] = ll_call[t].arg

LlInv(s, r, L) ==
  LlTypeOK /\ LlCallInv /\ ll_ths = Cardinality(LlInside) /\ LlNodesInv(s, r, L)

(* A chain is a path.                                                      *)
LEMMA ChainIsPath ==
  ASSUME NEW c, NEW first, NEW next, IsChain(c, first, next)
  PROVE  IsPath(c, first, next)
BY DEF IsChain, IsPath

(* A path stays one as long as its nodes lead where they did.              *)
LEMMA PathKept ==
  ASSUME NEW p, NEW first, NEW next, IsPath(p, first, next), NEW then,
         \A i \in 1 .. Len(p) : i # Len(p) => then[p[i]] = next[p[i]]
  PROVE  IsPath(p, first, then)
BY DEF IsPath

(* The nodes of a path, and the shortest paths.                            *)
LEMMA PathNodes ==
  ASSUME NEW p, NEW first, NEW next, IsPath(p, first, next)
  PROVE  /\ p \in Seq(Nodes) /\ Len(p) \in Nat /\ NodesOf(p) = {p[i] : i \in 1 .. Len(p)}
         /\ NodesOf(p) \subseteq Nodes
         /\ first = 0 <=> Len(p) = 0
         /\ first # 0 => first = p[1] /\ first \in NodesOf(p)
         /\ Len(p) <= 1 => NodesOf(p) = {first} \ {0}
<1>1. /\ p \in Seq(Nodes) /\ Len(p) \in Nat /\ DOMAIN p = 1 .. Len(p)
      /\ \A i \in 1 .. Len(p) : p[i] \in Nodes /\ p[i] # 0
  BY NodesAssumption DEF IsPath
<1>2. NodesOf(p) = {p[i] : i \in 1 .. Len(p)} /\ NodesOf(p) \subseteq Nodes
  BY <1>1 DEF NodesOf
<1>3. Len(p) # 0 => 1 \in 1 .. Len(p)
  BY <1>1
<1>4. first = IF Len(p) = 0 THEN 0 ELSE p[1]
  BY DEF IsPath
<1>5. (first = 0 <=> Len(p) = 0) /\ (first # 0 => first = p[1] /\ first \in NodesOf(p))
  BY <1>1, <1>2, <1>3, <1>4
<1>6. ASSUME Len(p) <= 1
      PROVE  NodesOf(p) = {first} \ {0}
  <2>1. CASE Len(p) = 0
    BY <1>2, <1>4, <2>1
  <2>2. CASE Len(p) # 0
    <3>1. 1 .. Len(p) = {1}
      BY <1>1, <1>6, <2>2
    <3> QED
      BY <1>1, <1>2, <1>4, <2>2, <3>1
  <2> QED
    BY <2>1, <2>2
<1> QED
  BY <1>1, <1>2, <1>5, <1>6

(* The path of a thread that owns no node, and an empty list.              *)
LEMMA EmptyPath ==
  ASSUME NEW next
  PROVE  IsPath(<< >>, 0, next) /\ IsChain(<< >>, 0, next) /\ NodesOf(<< >>) = {} /\ Len(<< >>) = 0
BY EmptySeq DEF IsPath, IsChain, NodesOf

(* The path of a thread that owns one node.                                *)
LEMMA SinglePath ==
  ASSUME NEW next, NEW n \in Nodes
  PROVE  /\ IsPath(<<n>>, n, next) /\ NodesOf(<<n>>) = {n} /\ Len(<<n>>) = 1 /\ <<n>>[1] = n
         /\ <<n>> \in Seq(Nodes)
BY DEF IsPath, NodesOf

(* What the model computes begins with the path.                           *)
LEMMA PathComputed ==
  ASSUME NEW p, NEW first, NEW next, IsPath(p, first, next), NEW c, c = ChainFrom(first, next)
  PROVE  \E m \in Nat : DOMAIN c = 1 .. m /\ Len(p) <= m /\ \A i \in 1 .. Len(p) : c[i] = p[i]
<1> DEFINE N == Cardinality(Nodes)
           follow == Follow(next)
           at == Walk(first, next)
<1>1. N \in Nat /\ DOMAIN at = 1 .. N /\ \A k \in 1 .. N : at[k] = IF k = 1 THEN first ELSE follow[at[k - 1]]
  BY WalkIs
<1>2. /\ p \in Seq(Nodes) /\ Len(p) \in Nat /\ \A i \in 1 .. Len(p) : p[i] \in Nodes /\ p[i] # 0
  BY NodesAssumption DEF IsPath
<1>3. Len(p) <= N
  <2>1. p \in Injection(1 .. Len(p), Nodes)
    BY <1>2 DEF IsPath, Injection, IsInjective
  <2>2. Cardinality(1 .. Len(p)) <= N
    BY <2>1, NodesAssumption, FS_Injection
  <2> QED
    BY <1>2, <2>2, UpTo
<1>4. \A n \in Nodes : n # 0 /\ follow[n] = next[n]
  BY NodesAssumption DEF Follow
<1> HIDE DEF at, follow, N
<1>5. \A k \in 1 .. Len(p) : at[k] = p[k]
  <2> DEFINE D == {k \in 1 .. Len(p) : at[k] # p[k]}
  <2> SUFFICES ASSUME D # {}
               PROVE  FALSE
    OBVIOUS
  <2>1. PICK k \in D : \A j \in D : ~(j < k)
    BY <1>2, FirstDifference
  <2>2. k \in 1 .. Len(p) /\ at[k] # p[k] /\ k \in 1 .. N
    BY <1>1, <1>2, <1>3
  <2>3. CASE k = 1
    <3>1. at[k] = first
      BY <1>1, <2>2, <2>3
    <3>2. first = p[1]
      BY <1>2, <2>2 DEF IsPath
    <3> QED
      BY <2>2, <2>3, <3>1, <3>2
  <2>4. CASE k # 1
    <3>1. k - 1 \in 1 .. Len(p) /\ k - 1 < k /\ k - 1 # Len(p) /\ (k - 1) + 1 = k
      BY <1>2, <2>2, <2>4
    <3>2. at[k - 1] = p[k - 1]
      BY <2>1, <3>1
    <3>3. next[p[k - 1]] = p[k]
      BY <3>1 DEF IsPath
    <3>4. at[k] = follow[at[k - 1]]
      BY <1>1, <2>2, <2>4
    <3> QED
      BY <1>2, <1>4, <2>2, <3>1, <3>2, <3>3, <3>4
  <2> QED
    BY <2>3, <2>4
<1> DEFINE Z == {i \in DOMAIN at : at[i] # 0}
<1>6. Z \subseteq 1 .. N /\ 1 .. Len(p) \subseteq Z
  BY <1>1, <1>2, <1>3, <1>5
<1>7. Cardinality(Z) \in Nat /\ Len(p) <= Cardinality(Z)
  <2> HIDE DEF Z
  <2>1. IsFiniteSet(1 .. N)
    BY <1>1, FS_Interval
  <2>2. IsFiniteSet(Z)
    BY <1>6, <2>1, FS_Subset
  <2>3. Cardinality(1 .. Len(p)) <= Cardinality(Z) /\ Cardinality(Z) \in Nat
    BY <1>6, <2>2, FS_Subset, FS_CardinalityType
  <2> QED
    BY <1>2, <2>3, UpTo
<1> DEFINE m == Cardinality(Z)
<1>8. c = [k \in 1 .. m |-> at[k]]
  BY DEF ChainFrom, at
<1> HIDE DEF m
<1>9. m \in Nat /\ Len(p) <= m
  BY <1>7 DEF m
<1>10. DOMAIN c = 1 .. m /\ \A i \in 1 .. Len(p) : c[i] = p[i]
  BY <1>2, <1>5, <1>8, <1>9
<1> QED
  BY <1>9, <1>10

(* A path whose end leads to a chain continues it.                         *)
LEMMA ChainJoined ==
  ASSUME NEW p, NEW first, NEW next, IsPath(p, first, next), Len(p) # 0,
         NEW c, IsChain(c, next[p[Len(p)]], next), NodesOf(p) \cap NodesOf(c) = {}
  PROVE  IsChain(p \o c, first, next) /\ NodesOf(p \o c) = NodesOf(p) \cup NodesOf(c)
<1> DEFINE d == p \o c
           m == Len(p)
<1>1. /\ p \in Seq(Nodes) /\ c \in Seq(Nodes) /\ m \in Nat \ {0} /\ Len(c) \in Nat
      /\ \A i, j \in 1 .. m : p[i] = p[j] => i = j
      /\ \A i, j \in 1 .. Len(c) : c[i] = c[j] => i = j
  BY DEF IsPath, IsChain
<1>2. /\ d \in Seq(Nodes) /\ Len(d) = m + Len(c)
      /\ \A i \in 1 .. Len(d) : d[i] = IF i <= m THEN p[i] ELSE c[i - m]
  BY <1>1, ConcatProperties
<1>3. /\ NodesOf(p) = {p[i] : i \in 1 .. m} /\ NodesOf(c) = {c[i] : i \in 1 .. Len(c)}
      /\ NodesOf(d) = {d[i] : i \in 1 .. Len(d)}
  BY <1>1, <1>2 DEF NodesOf
<1> HIDE DEF d
<1> HIDE DEF m
<1>14. m \in Nat /\ Len(c) \in Nat /\ Len(d) \in Nat /\ Len(d) = m + Len(c)
  BY <1>1, <1>2
<1>10. \A i \in 1 .. m : i \in 1 .. Len(d) /\ d[i] = p[i] /\ p[i] \in NodesOf(p)
  BY <1>1, <1>2, <1>3
<1>11. \A i \in 1 .. Len(c) : i + m \in 1 .. Len(d) /\ d[i + m] = c[i] /\ c[i] \in NodesOf(c)
  <2> SUFFICES ASSUME NEW i \in 1 .. Len(c)
               PROVE  i + m \in 1 .. Len(d) /\ d[i + m] = c[i] /\ c[i] \in NodesOf(c)
    OBVIOUS
  <2>1. i + m \in 1 .. Len(d) /\ ~(i + m <= m) /\ (i + m) - m = i
    BY <1>1, <1>2
  <2>2. d[i + m] = c[(i + m) - m]
    BY <1>2, <2>1
  <2> QED
    BY <1>3, <2>1, <2>2
<1>12. \A i \in 1 .. Len(d) : i > m => i - m \in 1 .. Len(c) /\ d[i] = c[i - m]
  BY <1>1, <1>2
<1>13. \A i \in 1 .. Len(d) : i <= m => i \in 1 .. m
  BY <1>1, <1>2
<1>4. \A i \in 1 .. Len(d) :
        (i <= m => d[i] \in NodesOf(p)) /\ (i > m => d[i] \in NodesOf(c))
  BY <1>3, <1>10, <1>11, <1>12, <1>13
<1>5. \A i, j \in 1 .. Len(d) : d[i] = d[j] => i = j
  <2> SUFFICES ASSUME NEW i \in 1 .. Len(d), NEW j \in 1 .. Len(d), d[i] = d[j]
               PROVE  i = j
    OBVIOUS
  <2>1. CASE i <= m /\ j <= m
    BY <1>1, <1>10, <1>13, <2>1
  <2>2. CASE i > m /\ j > m
    <3>1. i - m \in 1 .. Len(c) /\ j - m \in 1 .. Len(c) /\ c[i - m] = c[j - m]
      BY <1>12, <2>2
    <3>2. i - m = j - m
      BY <1>1, <3>1
    <3> QED
      BY <1>1, <1>2, <3>2
  <2>3. CASE (i <= m /\ j > m) \/ (i > m /\ j <= m)
    <3>1. \/ d[i] \in NodesOf(p) /\ d[j] \in NodesOf(c)
          \/ d[i] \in NodesOf(c) /\ d[j] \in NodesOf(p)
      <4>1. CASE i <= m /\ j > m
        BY <1>4, <4>1
      <4>2. CASE i > m /\ j <= m
        BY <1>4, <4>2
      <4> QED
        BY <2>3, <4>1, <4>2
    <3> QED
      BY <3>1
  <2> QED
    BY <1>1, <1>2, <2>1, <2>2, <2>3
<1>6. \A i \in 1 .. Len(d) : next[d[i]] = IF i = Len(d) THEN 0 ELSE d[i + 1]
  <2> SUFFICES ASSUME NEW i \in 1 .. Len(d)
               PROVE  next[d[i]] = IF i = Len(d) THEN 0 ELSE d[i + 1]
    OBVIOUS
  <2>1. CASE i < m
    <3>1. i \in 1 .. m /\ i + 1 \in 1 .. m /\ i # m /\ i # Len(d)
      BY <1>1, <1>2, <2>1
    <3>2. next[p[i]] = p[i + 1]
      BY <3>1 DEF IsPath, m
    <3> QED
      BY <1>10, <3>1, <3>2
  <2>2. CASE i = m
    <3>1. d[i] = p[m] /\ next[p[m]] = IF Len(c) = 0 THEN 0 ELSE c[1]
      BY <1>1, <1>10, <2>2 DEF IsChain, m
    <3>2. Len(c) # 0 => 1 \in 1 .. Len(c) /\ d[1 + m] = c[1] /\ i # Len(d) /\ i + 1 = 1 + m
      BY <1>1, <1>2, <1>11, <2>2
    <3>3. Len(c) = 0 => i = Len(d)
      BY <1>1, <1>2, <2>2
    <3> QED
      BY <3>1, <3>2, <3>3
  <2>3. CASE i > m
    <3>1. i - m \in 1 .. Len(c) /\ d[i] = c[i - m] /\ (i - m = Len(c) <=> i = Len(d))
      BY <1>1, <1>2, <1>12, <2>3
    <3>2. i # Len(d) => (i - m) + 1 \in 1 .. Len(c) /\ d[i + 1] = c[(i - m) + 1]
      <4> SUFFICES ASSUME i # Len(d)
                   PROVE  (i - m) + 1 \in 1 .. Len(c) /\ d[i + 1] = c[(i - m) + 1]
        OBVIOUS
      <4>1. i + 1 \in 1 .. Len(d) /\ i + 1 > m /\ (i + 1) - m = (i - m) + 1
        BY <1>14, <2>3
      <4> QED
        BY <1>12, <4>1
    <3>3. next[c[i - m]] = IF i - m = Len(c) THEN 0 ELSE c[(i - m) + 1]
      BY <3>1 DEF IsChain
    <3> QED
      BY <3>1, <3>2, <3>3
  <2> QED
    BY <1>1, <1>2, <2>1, <2>2, <2>3
<1>7. first = IF Len(d) = 0 THEN 0 ELSE d[1]
  <2>1. 1 \in 1 .. m /\ Len(d) # 0
    BY <1>1, <1>2
  <2> QED
    BY <1>1, <1>10, <2>1 DEF IsPath, m
<1>8. IsChain(d, first, next)
  BY <1>2, <1>5, <1>6, <1>7 DEF IsChain
<1>9. NodesOf(d) = NodesOf(p) \cup NodesOf(c)
  <2>1. ASSUME NEW i \in 1 .. Len(d)
        PROVE  d[i] \in NodesOf(p) \cup NodesOf(c)
    <3>1. i <= m \/ i > m
      BY <1>14
    <3> QED
      BY <1>4, <3>1
  <2>2. ASSUME NEW x \in NodesOf(p)
        PROVE  x \in NodesOf(d)
    <3>1. PICK i \in 1 .. m : x = p[i]
      BY <1>3
    <3> QED
      BY <1>3, <1>10, <3>1
  <2>3. ASSUME NEW x \in NodesOf(c)
        PROVE  x \in NodesOf(d)
    <3>1. PICK i \in 1 .. Len(c) : x = c[i]
      BY <1>3
    <3> QED
      BY <1>3, <1>11, <3>1
  <2>4. \A x \in NodesOf(d) : x \in NodesOf(p) \cup NodesOf(c)
    BY <1>3, <2>1
  <2> QED
    BY <2>2, <2>3, <2>4
<1> QED
  BY <1>8, <1>9 DEF d

-----------------------------------------------------------------------------
(* ll_stack: every step keeps the invariant *)

(* A step that hands nodes over between the stack, the pending list and    *)
(* thread t, takes new ones in and gives some up.                          *)
LEMMA HandedOver ==
  ASSUME NEW s, NEW r, NEW L \in [Threads -> Seq(Nodes)], NEW live, OwnedOnce(s, r, L, live),
         NEW t \in Threads, NEW x, NEW y, NEW p \in Seq(Nodes),
         NodesOf(x) \cap NodesOf(y) = {}, NodesOf(p) \cap (NodesOf(x) \cup NodesOf(y)) = {},
         NEW M, M = [L EXCEPT ![t] = p],
         NEW old, old = NodesOf(s) \cup NodesOf(r) \cup NodesOf(L[t]),
         NEW new, new = NodesOf(x) \cup NodesOf(y) \cup NodesOf(p), new \cap live \subseteq old
  PROVE  OwnedOnce(x, y, M, (live \ old) \cup new)
<1>1. M[t] = p /\ \A u \in Threads : u # t => M[u] = L[u]
  OBVIOUS
<1>2. \A u \in Threads : NodesOf(L[u]) \subseteq live
  BY DEF OwnedOnce
<1>3. \A u \in Threads : u # t => NodesOf(L[u]) \cap old = {}
  BY DEF OwnedOnce
<1>4. \A u \in Threads : u # t => NodesOf(L[u]) \cap new = {}
  BY <1>2, <1>3
<1>5. \A u \in Threads : NodesOf(M[u]) \cap (NodesOf(x) \cup NodesOf(y)) = {}
  BY <1>1, <1>4
<1>6. \A u, v \in Threads : u # v => NodesOf(M[u]) \cap NodesOf(M[v]) = {}
  <2> SUFFICES ASSUME NEW u \in Threads, NEW v \in Threads, u # v
               PROVE  NodesOf(M[u]) \cap NodesOf(M[v]) = {}
    OBVIOUS
  <2>1. CASE u = t
    BY <1>1, <1>4, <2>1
  <2>2. CASE v = t
    BY <1>1, <1>4, <2>2
  <2>3. CASE u # t /\ v # t
    BY <1>1, <2>3 DEF OwnedOnce
  <2> QED
    BY <2>1, <2>2, <2>3
<1>7. ASSUME NEW n
      PROVE  n \in (live \ old) \cup new <=>
               n \in NodesOf(x) \cup NodesOf(y) \cup UNION {NodesOf(M[u]) : u \in Threads}
  <2>1. ASSUME n \in live, n \notin old
        PROVE  \E u \in Threads : n \in NodesOf(M[u])
    <3>1. PICK u \in Threads : n \in NodesOf(L[u])
      BY <2>1 DEF OwnedOnce
    <3>2. u # t
      BY <2>1, <3>1
    <3> QED
      BY <1>1, <3>1, <3>2
  <2>2. ASSUME NEW u \in Threads, n \in NodesOf(M[u])
        PROVE  n \in (live \ old) \cup new
    <3>1. CASE u = t
      BY <1>1, <2>2, <3>1
    <3>2. CASE u # t
      BY <1>1, <1>2, <1>3, <2>2, <3>2
    <3> QED
      BY <3>1, <3>2
  <2>3. n \in NodesOf(p) => n \in NodesOf(M[t])
    BY <1>1
  <2> QED
    BY <2>1, <2>2, <2>3
<1>8. (live \ old) \cup new = NodesOf(x) \cup NodesOf(y) \cup UNION {NodesOf(M[u]) : u \in Threads}
  BY <1>7
<1> QED
  BY <1>5, <1>6, <1>8 DEF OwnedOnce

(* The owners are what a step of thread t makes them.                      *)
LEMMA LlStepMade ==
  ASSUME NEW s, NEW r, NEW L, LlNodesInv(s, r, L), NEW t \in Threads, NEW x, NEW y, NEW p,
         IsChain(x, ll_head', ll_next'), IsChain(y, ll_ready', ll_next'), LlHeld(t, p)',
         \A u \in Threads \ {t} :
           /\ ll_pc'[u] = ll_pc[u] /\ ll_raw'[u] = ll_raw[u]
           /\ ll_list'[u] = ll_list[u] /\ ll_last'[u] = ll_last[u]
           /\ \A n \in NodesOf(L[u]) : ll_next'[n] = ll_next[n],
         NodesOf(x) \cap NodesOf(y) = {}, NodesOf(p) \cap (NodesOf(x) \cup NodesOf(y)) = {},
         NEW old, old = NodesOf(s) \cup NodesOf(r) \cup NodesOf(L[t]),
         NEW new, new = NodesOf(x) \cup NodesOf(y) \cup NodesOf(p), new \cap ll_live \subseteq old,
         ll_live' = (ll_live \ old) \cup new,
         LlTakersInv',
         \A u \in Threads : ll_pc'[u] = "push" => ll_data'[ll_raw'[u]] = ll_call'[u].arg
  PROVE  LlNodesInv(x, y, [L EXCEPT ![t] = p])'
<1>1. PICK M : M = [L EXCEPT ![t] = p]
  OBVIOUS
<1>2. L \in [Threads -> Seq(Nodes)] /\ p \in Seq(Nodes)
  BY DEF LlNodesInv, LlHeld, IsPath
<1>3. M \in [Threads -> Seq(Nodes)] /\ M[t] = p /\ \A u \in Threads \ {t} : M[u] = L[u]
  BY <1>1, <1>2
<1>4. OwnedOnce(x, y, M, ll_live)'
  <2>1. OwnedOnce(s, r, L, ll_live)
    BY DEF LlNodesInv
  <2>2. OwnedOnce(x, y, M, (ll_live \ old) \cup new)
    BY <1>1, <1>2, <2>1, HandedOver
  <2>3. OwnedOnce(x, y, M, ll_live')
    BY <2>2
  <2> QED
    BY <2>3 DEF OwnedOnce
<1>5. ASSUME NEW u \in Threads, u # t
      PROVE  LlHeld(u, M[u])'
  <2>1. LlHeld(u, L[u]) /\ M[u] = L[u]
    BY <1>3, <1>5 DEF LlNodesInv
  <2>2. LlFirst(u)' = LlFirst(u)
    BY <1>5 DEF LlFirst
  <2>3. \A n \in NodesOf(L[u]) : ll_next'[n] = ll_next[n]
    BY <1>5
  <2>4. IsPath(L[u], LlFirst(u), ll_next')
    <3>1. \A i \in 1 .. Len(L[u]) : L[u][i] \in NodesOf(L[u])
      BY <1>2 DEF NodesOf
    <3> QED
      BY <2>1, <2>3, <3>1, PathKept DEF LlHeld
  <2>5. ll_pc[u] \in {"sub", "put_back"} => IsChain(L[u], ll_list[u], ll_next')
    BY <2>1, <2>3, ChainKept DEF LlHeld
  <2> QED
    BY <1>5, <2>1, <2>2, <2>4, <2>5 DEF LlHeld
<1>6. \A u \in Threads : LlHeld(u, M[u])'
  BY <1>3, <1>5
<1>7. LlNodesInv(x, y, M)'
  BY <1>3, <1>4, <1>6 DEF LlNodesInv
<1> QED
  BY <1>1, <1>7

(* What the variables hold, and where the calls are.                       *)
LEMMA LlTypesKept ==
  ASSUME LlTypeOK, LlCallInv, NEW t \in Threads, LlCall(t) \/ LlRun(t),
         ll_ths' \in 0 .. Cardinality(Threads),
         ll_pc[t] = "take" => ll_raw[t] \in Nodes,
         LlPend(t) => ll_last'[t] \in Nodes
  PROVE  LlTypeOK' /\ LlCallInv'
<1> USE DEF Move, LlLabels
<1>1. CASE LlCall(t)
  <2>1. LlTypeOK'
    BY <1>1 DEF LlTypeOK, LlCall, llHeap, llLocals
  <2>2. /\ \A u \in Threads \ {t} : ll_pc'[u] = ll_pc[u] /\ ll_call'[u] = ll_call[u]
        /\ ll_ret' = ll_ret /\ ll_pc[t] = "idle" /\ DOMAIN ll_call' = Threads
    BY <1>1 DEF LlCallInv, LlCall
  <2>3. /\ ll_call'[t] \in LlCalls
        /\ \/ ll_pc'[t] = "new" /\ ll_call'[t].op = "push"
           \/ ll_pc'[t] = "add" /\ ll_call'[t].op = "pull"
    BY <1>1 DEF LlCallInv, LlCall, LlCalls
  <2>4. ll_call' \in [Threads -> LlCalls]
    <3>1. ll_call' = [u \in Threads |-> ll_call'[u]]
      BY <1>1 DEF LlCallInv, LlCall
    <3>2. \A u \in Threads : ll_call'[u] \in LlCalls
      BY <2>2, <2>3 DEF LlCallInv
    <3> QED
      BY <3>1, <3>2
  <2>5. ll_pc' \in [Threads -> LlLabels]
    BY <1>1 DEF LlCallInv, LlCall
  <2>6. LlCallInv'
    BY <2>2, <2>3, <2>4, <2>5 DEF LlCallInv
  <2> QED
    BY <2>1, <2>6
<1>2. CASE LlNew(t)
  <2>1. ll_call[t].arg \in Values \cup {Null}
    BY DEF LlCallInv, LlCalls
  <2>2. LlTypeOK'
    BY <1>2, <2>1 DEF LlTypeOK, LlNew
  <2>3. LlCallInv'
    BY <1>2 DEF LlCallInv, LlNew
  <2> QED
    BY <2>2, <2>3
<1>3. CASE LlPush(t) \/ LlTake(t) \/ LlLoad(t)
  <2>1. LlTypeOK'
    BY <1>3 DEF LlTypeOK, LlPush, LlTake, LlLoad, llHeap, llLocals
  <2>2. /\ \A u \in Threads \ {t} : ll_pc'[u] = ll_pc[u] /\ ll_ret'[u] = ll_ret[u]
        /\ DOMAIN ll_ret' = Threads /\ ll_call' = ll_call
        /\ ll_pc[t] \in {"push", "take", "load"}
    BY <1>3 DEF LlCallInv, LlPush, LlTake, LlLoad, LlResult
  <2>3. \/ ll_pc'[t] \in {"return", "swap", "alone"} /\ ll_ret'[t].status \in {"success", "empty"}
        \/ ll_pc'[t] = "take" /\ ll_pc[t] = "load" /\ ll_ret'[t] = ll_ret[t]
    BY <1>3 DEF LlCallInv, LlPush, LlTake, LlLoad, LlResult
  <2>4. ll_call[t] # LlIdle
    BY <2>2 DEF LlCallInv, LlIdle
  <2>5. ll_pc' \in [Threads -> LlLabels]
    BY <1>3 DEF LlCallInv, LlPush, LlTake, LlLoad
  <2>6. LlCallInv'
    BY <2>2, <2>3, <2>4, <2>5 DEF LlCallInv, LlNoRet
  <2> QED
    BY <2>1, <2>6
<1>4. CASE LlAdd(t) \/ LlSwap(t) \/ LlAlone(t) \/ LlDelete(t) \/ LlSub(t) \/ LlSubOne(t) \/ LlLink(t)
  <2>1. LlTypeOK'
    BY <1>4 DEF LlTypeOK, LlAdd, LlSwap, LlAlone, LlDelete, LlSub, LlSubOne, LlLink, llHeap, llLocals
  <2>2. /\ UNCHANGED <<ll_call, ll_ret>> /\ \A u \in Threads \ {t} : ll_pc'[u] = ll_pc[u]
        /\ \/ ll_pc[t] = "add" /\ ll_pc'[t] = "load"
           \/ /\ ll_pc[t] \in {"swap", "alone", "delete", "sub", "sub_one", "link", "link_back"}
              /\ ll_pc'[t] \in {"alone", "delete", "pend", "sub", "put_back", "sub_one", "return"}
        /\ ll_pc' \in [Threads -> LlLabels]
    BY <1>4 DEF LlCallInv, LlAdd, LlSwap, LlAlone, LlDelete, LlSub, LlSubOne, LlLink, llHeap, llLocals
  <2>3. LlCallInv'
    BY <2>2 DEF LlCallInv
  <2> QED
    BY <2>1, <2>3
<1>5. CASE LlPend(t)
  <2>1. PICK n \in Nodes : ll_last' = [ll_last EXCEPT ![t] = n] /\ ll_next' = [ll_next EXCEPT ![n] = ll_ready]
    BY <1>5 DEF LlPend, LlTypeOK
  <2>2. LlTypeOK'
    BY <1>5, <2>1 DEF LlTypeOK, LlPend
  <2>3. /\ UNCHANGED <<ll_call, ll_ret>> /\ \A u \in Threads \ {t} : ll_pc'[u] = ll_pc[u]
        /\ ll_pc[t] \in {"pend", "put_back"} /\ ll_pc'[t] \in {"link", "link_back"}
        /\ ll_pc' \in [Threads -> LlLabels]
    BY <1>5 DEF LlPend, LlCallInv
  <2>4. LlCallInv'
    BY <2>3 DEF LlCallInv
  <2> QED
    BY <2>2, <2>4
<1>6. CASE LlReturn(t)
  <2>1. LlTypeOK'
    BY <1>6 DEF LlTypeOK, LlReturn, llHeap
  <2>2. LlIdle \in LlCalls
    BY DEF LlIdle, LlCalls
  <2>3. LlCallInv'
    BY <1>6, <2>2 DEF LlCallInv, LlReturn
  <2> QED
    BY <2>1, <2>3
<1> QED
  BY <1>1, <1>2, <1>3, <1>4, <1>5, <1>6 DEF LlRun

(* ll_ths counts the threads inside.                                       *)
LEMMA LlCountKept ==
  ASSUME LlCallInv, ll_ths = Cardinality(LlInside), NEW t \in Threads, LlCall(t) \/ LlRun(t)
  PROVE  ll_ths' = Cardinality(LlInside)' /\ ll_ths' \in 0 .. Cardinality(Threads)
<1> USE DEF Move, LlLabels
<1>1. /\ \A u \in Threads \ {t} : ll_pc'[u] = ll_pc[u]
      /\ \/ t \in LlInside /\ t \in LlInside' /\ ll_ths' = ll_ths
         \/ t \notin LlInside /\ t \notin LlInside' /\ ll_ths' = ll_ths
         \/ t \notin LlInside /\ t \in LlInside' /\ ll_ths' = ll_ths + 1
         \/ t \in LlInside /\ t \notin LlInside' /\ ll_ths' = ll_ths - 1
  <2>1. CASE LlCall(t) \/ LlReturn(t) \/ LlNew(t) \/ LlPush(t)
    BY <2>1 DEF LlCallInv, LlInside, LlCall, LlReturn, LlNew, LlPush
  <2>2. CASE LlAdd(t)
    BY <2>2 DEF LlCallInv, LlInside, LlAdd
  <2>3. CASE LlLoad(t) \/ LlTake(t) \/ LlSwap(t) \/ LlAlone(t) \/ LlDelete(t)
    BY <2>3 DEF LlCallInv, LlInside, LlLoad, LlTake, LlSwap, LlAlone, LlDelete
  <2>4. CASE LlSub(t) \/ LlSubOne(t)
    BY <2>4 DEF LlCallInv, LlInside, LlSub, LlSubOne
  <2>5. CASE LlPend(t) \/ LlLink(t)
    BY <2>5 DEF LlCallInv, LlInside, LlPend, LlLink
  <2> QED
    BY <2>1, <2>2, <2>3, <2>4, <2>5 DEF LlRun
<1>2. \A u \in Threads \ {t} : u \in LlInside' <=> u \in LlInside
  BY <1>1 DEF LlInside
<1>3. LlInside \subseteq Threads /\ LlInside' \subseteq Threads
  BY DEF LlInside
<1> HIDE DEF Move, LlLabels
<1>4. \/ LlInside' = LlInside /\ ll_ths' = ll_ths
      \/ LlInside' = LlInside \cup {t} /\ t \notin LlInside /\ ll_ths' = ll_ths + 1
      \/ LlInside' = LlInside \ {t} /\ t \in LlInside /\ ll_ths' = ll_ths - 1
  BY <1>1, <1>2, <1>3
<1>5. ll_ths' = Cardinality(LlInside')
  BY <1>3, <1>4, ThreadSets
<1>6. Cardinality(LlInside') \in Nat /\ Cardinality(LlInside') <= Cardinality(Threads)
      /\ Cardinality(Threads) \in Nat
  BY <1>3, CallersAssumption, FS_Subset, FS_CardinalityType
<1> QED
  BY <1>5, <1>6

(* A step after which everyone owns the nodes that they owned.             *)
LEMMA LlQuiet ==
  ASSUME NEW s, NEW r, NEW L, LlNodesInv(s, r, L), NEW t \in Threads,
         UNCHANGED <<ll_head, ll_ready, ll_next, ll_live>>,
         \A u \in Threads \ {t} : /\ ll_pc'[u] = ll_pc[u] /\ ll_raw'[u] = ll_raw[u]
                                  /\ ll_list'[u] = ll_list[u] /\ ll_last'[u] = ll_last[u],
         LlHeld(t, L[t])', LlTakersInv',
         \A u \in Threads : ll_pc'[u] = "push" => ll_data'[ll_raw'[u]] = ll_call'[u].arg
  PROVE  LlNodesInv(s, r, L)'
<1>1. PICK p : p = L[t]
  OBVIOUS
<1>2. PICK old : old = NodesOf(s) \cup NodesOf(r) \cup NodesOf(p)
  OBVIOUS
<1>3. /\ NodesOf(s) \cap NodesOf(r) = {} /\ NodesOf(p) \cap (NodesOf(s) \cup NodesOf(r)) = {}
      /\ old \subseteq ll_live
  BY <1>1, <1>2 DEF LlNodesInv, OwnedOnce
<1>4. IsChain(s, ll_head', ll_next') /\ IsChain(r, ll_ready', ll_next') /\ LlHeld(t, p)'
  BY <1>1 DEF LlNodesInv
<1>5. ll_live' = (ll_live \ old) \cup old /\ old \cap ll_live \subseteq old
  BY <1>3
<1>8. old = NodesOf(s) \cup NodesOf(r) \cup NodesOf(L[t])
  BY <1>1, <1>2
<1>9. \A u \in Threads \ {t} :
        /\ ll_pc'[u] = ll_pc[u] /\ ll_raw'[u] = ll_raw[u]
        /\ ll_list'[u] = ll_list[u] /\ ll_last'[u] = ll_last[u]
        /\ \A n \in NodesOf(L[u]) : ll_next'[n] = ll_next[n]
  OBVIOUS
<1>6. LlNodesInv(s, r, [L EXCEPT ![t] = p])'
  BY ONLY LlNodesInv(s, r, L), t \in Threads, LlTakersInv',
          \A u \in Threads : ll_pc'[u] = "push" => ll_data'[ll_raw'[u]] = ll_call'[u].arg,
          <1>2, <1>3, <1>4, <1>5, <1>8, <1>9, LlStepMade
<1>7. [L EXCEPT ![t] = p] = L
  BY <1>1 DEF LlNodesInv
<1> QED
  BY <1>6, <1>7

(* The paths that the threads own.                                         *)
LEMMA LlPaths ==
  ASSUME NEW s, NEW r, NEW L, LlNodesInv(s, r, L), NEW t \in Threads
  PROVE  /\ L[t] \in Seq(Nodes) /\ Len(L[t]) \in Nat /\ NodesOf(L[t]) \subseteq Nodes \cap ll_live
         /\ LlFirst(t) = 0 <=> Len(L[t]) = 0
         /\ LlFirst(t) # 0 => LlFirst(t) \in NodesOf(L[t])
         /\ Len(L[t]) <= 1 => NodesOf(L[t]) = {LlFirst(t)} \ {0}
         /\ \A n \in NodesOf(L[t]) : /\ n \notin NodesOf(s) /\ n \notin NodesOf(r)
                                     /\ \A u \in Threads : u # t => n \notin NodesOf(L[u])
<1>1. IsPath(L[t], LlFirst(t), ll_next)
  BY DEF LlNodesInv, LlHeld
<1> QED
  BY <1>1, PathNodes DEF LlNodesInv, OwnedOnce

(* A thread that owns no node, and one that owns some.                     *)
LEMMA LlOwnsNone ==
  ASSUME NEW s, NEW r, NEW L, LlNodesInv(s, r, L), NEW t \in Threads
  PROVE  /\ LlFirst(t) = 0 => Len(L[t]) = 0 /\ NodesOf(L[t]) = {}
         /\ Len(L[t]) # 0 => LlFirst(t) # 0 /\ LlFirst(t) \in NodesOf(L[t]) /\ LlFirst(t) \in Nodes
<1>1. /\ LlFirst(t) = 0 <=> Len(L[t]) = 0
      /\ LlFirst(t) # 0 => LlFirst(t) \in NodesOf(L[t])
      /\ NodesOf(L[t]) \subseteq Nodes
  BY LlPaths
<1>2. Len(L[t]) <= 1 => NodesOf(L[t]) = {LlFirst(t)} \ {0}
  BY LlPaths
<1> QED
  BY <1>1, <1>2

(* A pointer to the head leads to a node of the stack.                     *)
LEMMA LlHeads ==
  ASSUME NEW s, NEW r, NEW L, LlNodesInv(s, r, L)
  PROVE  /\ NodesOf(s) \subseteq Nodes \cap ll_live /\ NodesOf(r) \subseteq Nodes \cap ll_live
         /\ ll_head # 0 => ll_head \in NodesOf(s)
         /\ ll_ready # 0 => ll_ready \in NodesOf(r)
         /\ NodesOf(s) \cap NodesOf(r) = {}
BY ChainNodes DEF LlNodesInv, OwnedOnce

(* When ll_ths is 1 the thread inside pull() is alone there.               *)
LEMMA LlAloneInside ==
  ASSUME ll_ths = Cardinality(LlInside), ll_ths = 1, NEW t \in LlInside
  PROVE  \A u \in LlInside : u = t
<1>1. LlInside \in SUBSET Threads /\ LlInside \ {t} \in SUBSET Threads
  BY DEF LlInside
<1>2. Cardinality(LlInside \ {t}) = 0
  <2>1. Cardinality(LlInside \ {t}) = Cardinality(LlInside) - 1
    BY <1>1, ThreadSets
  <2> QED
    BY <2>1
<1>3. LlInside \ {t} = {}
  BY <1>1, <1>2, ThreadSets
<1> QED
  BY <1>3

(* The steps that hand no node over.                                       *)
LEMMA LlQuietSteps ==
  ASSUME NEW s, NEW r, NEW L, LlInv(s, r, L), NEW t \in Threads,
         \/ LlCall(t) \/ LlReturn(t) \/ LlAdd(t) \/ LlLoad(t) \/ LlSwap(t) \/ LlAlone(t) \/ LlSubOne(t)
         \/ LlSub(t) /\ ll_ths # 1
  PROVE  LlNodesInv(s, r, L)' /\ ll_head' = ll_head /\ \A n \in NodesOf(s) : ll_data'[n] = ll_data[n]
<1> USE DEF Move
<1>1. LlTypeOK /\ LlCallInv /\ LlNodesInv(s, r, L) /\ ll_ths = Cardinality(LlInside)
  BY DEF LlInv
<1>2. UNCHANGED <<ll_head, ll_ready, ll_next, ll_live>>
  BY DEF LlCall, LlReturn, LlAdd, LlLoad, LlSwap, LlAlone, LlSubOne, LlSub, llHeap
<1>3. \A u \in Threads \ {t} : /\ ll_pc'[u] = ll_pc[u] /\ ll_raw'[u] = ll_raw[u]
                               /\ ll_list'[u] = ll_list[u] /\ ll_last'[u] = ll_last[u]
                               /\ ll_call'[u] = ll_call[u]
  BY <1>1 DEF LlTypeOK, LlCallInv,
              LlCall, LlReturn, LlAdd, LlLoad, LlSwap, LlAlone, LlSubOne, LlSub, llHeap, llLocals
<1>4. \/ ll_pc[t] = "idle" /\ ll_pc'[t] \in {"new", "add"}
      \/ ll_pc[t] \in {"return", "add", "sub_one"} /\ ll_pc'[t] \in {"idle", "load", "return"}
      \/ ll_pc[t] = "load" /\ ll_pc'[t] = "take" /\ ll_raw'[t] = ll_head /\ ll_head # 0
      \/ ll_pc[t] = "load" /\ ll_pc'[t] = "alone" /\ ll_raw'[t] = 0
      \/ ll_pc[t] = "swap" /\ ll_pc'[t] = "alone" /\ ll_raw'[t] = ll_raw[t]
      \/ ll_pc[t] = "alone" /\ ll_pc'[t] = "delete" /\ ll_raw'[t] = ll_raw[t] /\ ll_ths = 1
      \/ ll_pc[t] = "alone" /\ ll_pc'[t] = "pend" /\ ll_list'[t] = ll_raw[t]
      \/ ll_pc[t] = "sub" /\ ll_pc'[t] = "put_back" /\ ll_list'[t] = ll_list[t]
  BY <1>1 DEF LlTypeOK, LlCallInv, LlCall, LlReturn, LlAdd, LlLoad, LlSwap, LlAlone, LlSubOne, LlSub, llLocals
<1>5. LlFirst(t)' = LlFirst(t)
  BY <1>4 DEF LlFirst
<1>6. LlHeld(t, L[t])'
  <2>1. LlHeld(t, L[t])
    BY <1>1 DEF LlNodesInv
  <2>2. IsPath(L[t], LlFirst(t)', ll_next')
    BY <1>2, <1>5, <2>1 DEF LlHeld
  <2>3. ll_pc'[t] \in {"push", "swap", "alone", "delete", "pend", "link"} => Len(L[t]) <= 1
    <3>1. CASE ll_pc[t] = "load"
      <4>1. LlFirst(t) = 0
        BY <3>1 DEF LlFirst
      <4> QED
        BY <1>1, <4>1, LlPaths
    <3>2. CASE ll_pc[t] # "load"
      BY <1>4, <2>1, <3>2 DEF LlHeld
    <3> QED
      BY <3>1, <3>2
  <2>4. ll_pc'[t] \in {"sub", "put_back"} => IsChain(L[t], ll_list'[t], ll_next')
    BY <1>2, <1>4, <2>1 DEF LlHeld
  <2>5. PICK p : p = L[t]
    OBVIOUS
  <2>6. LlHeld(t, p)'
    BY <1>4, <2>2, <2>3, <2>4, <2>5 DEF LlHeld
  <2> QED
    BY <2>5, <2>6
<1>7. LlTakersInv'
  <2>1. LlTakersInv /\ ll_live' = ll_live
    BY <1>1, <1>2 DEF LlNodesInv
  <2>2. CASE ll_pc'[t] = "take"
    <3>1. ll_raw'[t] = ll_head /\ ll_head \in NodesOf(s) /\ ll_head \in ll_live
      BY <1>1, <1>4, <2>2, LlHeads
    <3>2. ASSUME NEW u \in Threads, ll_pc[u] = "delete"
          PROVE  ll_raw[u] # ll_head
      <4>1. LlFirst(u) = ll_raw[u]
        BY <3>2 DEF LlFirst
      <4>2. ll_raw[u] # 0 => ll_raw[u] \notin NodesOf(s)
        BY <1>1, <4>1, LlPaths
      <4>3. ll_head # 0
        BY <1>4, <2>2
      <4> QED
        BY <3>1, <4>2, <4>3
    <3> QED
      BY <1>3, <2>1, <2>2, <3>1, <3>2 DEF LlTakersInv
  <2>3. CASE ll_pc'[t] = "delete"
    <3>1. ll_ths = 1 /\ t \in LlInside
      BY <1>4, <2>3 DEF LlInside
    <3>2. \A u \in Threads \ {t} : ll_pc[u] # "take"
      BY <1>1, <3>1, LlAloneInside DEF LlInside
    <3> QED
      BY <1>3, <2>3, <3>2 DEF LlTakersInv
  <2>4. CASE ll_pc'[t] \notin {"take", "delete"}
    BY <1>3, <2>1, <2>4 DEF LlTakersInv
  <2> QED
    BY <2>2, <2>3, <2>4
<1>8. \A n \in Nodes : ll_data'[n] # ll_data[n] => ll_pc[t] = "swap" /\ n = LlFirst(t)
  BY <1>1 DEF LlTypeOK, LlFirst, LlCall, LlReturn, LlAdd, LlLoad, LlSwap, LlAlone, LlSubOne, LlSub, llHeap
<1>9. \A n \in NodesOf(s) : ll_data'[n] = ll_data[n]
  <2>1. LlFirst(t) # 0 => LlFirst(t) \notin NodesOf(s)
    BY <1>1, LlPaths
  <2>2. NodesOf(s) \subseteq Nodes /\ 0 \notin Nodes
    BY <1>1, LlHeads, NodesAssumption
  <2> QED
    BY <1>8, <2>1, <2>2
<1>10. \A u \in Threads : ll_pc'[u] = "push" => ll_data'[ll_raw'[u]] = ll_call'[u].arg
  <2> SUFFICES ASSUME NEW u \in Threads, ll_pc'[u] = "push"
               PROVE  ll_data'[ll_raw'[u]] = ll_call'[u].arg
    OBVIOUS
  <2>1. u # t /\ ll_pc[u] = "push" /\ ll_raw'[u] = ll_raw[u] /\ ll_call'[u] = ll_call[u]
    BY <1>3, <1>4
  <2>2. LlFirst(u) = ll_raw[u] /\ Len(L[u]) # 0
    BY <1>1, <2>1 DEF LlFirst, LlNodesInv, LlHeld
  <2>3. ll_raw[u] \in NodesOf(L[u]) /\ ll_raw[u] # 0 /\ ll_raw[u] \in Nodes /\ ll_raw[u] \notin NodesOf(L[t])
    <3>1. LlFirst(u) # 0 /\ LlFirst(u) \in NodesOf(L[u]) /\ NodesOf(L[u]) \subseteq Nodes
      BY <1>1, <2>2, LlPaths
    <3>2. \A n \in NodesOf(L[u]) : n \notin NodesOf(L[t])
      BY <1>1, <2>1, LlPaths
    <3> QED
      BY <2>2, <3>1, <3>2
  <2>4. ll_data'[ll_raw[u]] = ll_data[ll_raw[u]]
    <3>1. LlFirst(t) # 0 => LlFirst(t) \in NodesOf(L[t])
      BY <1>1, LlPaths
    <3> QED
      BY <1>8, <2>3, <3>1
  <2> QED
    BY <1>1, <2>1, <2>4 DEF LlNodesInv
<1>11. LlNodesInv(s, r, L)'
  BY <1>1, <1>2, <1>3, <1>6, <1>7, <1>10, LlQuiet
<1> QED
  BY <1>2, <1>9, <1>11

(* No step but these two makes a thread one that may follow a pointer to a *)
(* node it does not own, or one that is about to delete.                   *)
LEMMA LlTakersKept ==
  ASSUME LlTakersInv, NEW t \in Threads,
         \A u \in Threads \ {t} : ll_pc'[u] = ll_pc[u] /\ ll_raw'[u] = ll_raw[u],
         ll_pc'[t] \notin {"take", "delete"},
         \A u \in Threads \ {t} : ll_pc[u] = "take" => ll_raw[u] \in ll_live'
  PROVE  LlTakersInv'
BY DEF LlTakersInv

(* What a push() has ready stays what its caller gave it.                  *)
LEMMA LlReadyKept ==
  ASSUME NEW s, NEW r, NEW L, LlNodesInv(s, r, L), NEW t \in Threads,
         \A u \in Threads \ {t} : ll_pc'[u] = ll_pc[u] /\ ll_raw'[u] = ll_raw[u],
         ll_call' = ll_call, ll_pc'[t] # "push",
         \A n \in ll_live : ll_data'[n] = ll_data[n]
  PROVE  \A u \in Threads : ll_pc'[u] = "push" => ll_data'[ll_raw'[u]] = ll_call'[u].arg
<1> SUFFICES ASSUME NEW u \in Threads, ll_pc'[u] = "push"
             PROVE  ll_data'[ll_raw'[u]] = ll_call'[u].arg
  OBVIOUS
<1>1. u # t /\ ll_pc[u] = "push" /\ ll_raw'[u] = ll_raw[u] /\ ll_call'[u] = ll_call[u]
  OBVIOUS
<1>2. LlFirst(u) = ll_raw[u] /\ Len(L[u]) # 0
  BY <1>1 DEF LlFirst, LlNodesInv, LlHeld
<1>3. ll_raw[u] \in ll_live
  BY <1>2, LlPaths
<1> QED
  BY <1>1, <1>3 DEF LlNodesInv

(* operator new returns a node that nobody has.                            *)
LEMMA LlNewStep ==
  ASSUME NEW s, NEW r, NEW L, LlInv(s, r, L), NEW t \in Threads, LlNew(t)
  PROVE  /\ \E M : LlNodesInv(s, r, M)'
         /\ \A n \in NodesOf(s) : ll_data'[n] = ll_data[n]
<1>1. LlTypeOK /\ LlCallInv /\ LlNodesInv(s, r, L)
  BY DEF LlInv
<1>2. PICK n \in Nodes :
        /\ n \notin ll_live
        /\ ll_live' = ll_live \cup {n}
        /\ ll_raw' = [ll_raw EXCEPT ![t] = n]
        /\ ll_data' = [ll_data EXCEPT ![n] = ll_call[t].arg]
        /\ ll_next' = [ll_next EXCEPT ![n] = ll_head]
  BY DEF LlNew, FirstFree
<1>3. ll_pc[t] = "new" /\ ll_pc' = [ll_pc EXCEPT ![t] = "push"]
      /\ UNCHANGED <<ll_head, ll_ready, ll_list, ll_last, ll_call>>
  BY DEF LlNew, Move
<1>4. /\ \A u \in Threads \ {t} : ll_pc'[u] = ll_pc[u] /\ ll_raw'[u] = ll_raw[u]
      /\ ll_pc'[t] = "push" /\ ll_raw'[t] = n
      /\ \A m \in Nodes \ {n} : ll_next'[m] = ll_next[m] /\ ll_data'[m] = ll_data[m]
      /\ ll_data'[n] = ll_call[t].arg
  BY <1>1, <1>2, <1>3 DEF LlTypeOK, LlCallInv
<1>5. LlFirst(t) = 0
  BY <1>3 DEF LlFirst
<1>6. NodesOf(L[t]) = {}
  BY <1>1, <1>5, LlPaths
<1>7. /\ NodesOf(s) \subseteq Nodes \ {n} /\ NodesOf(r) \subseteq Nodes \ {n}
      /\ \A u \in Threads : NodesOf(L[u]) \subseteq Nodes \ {n}
      /\ NodesOf(s) \cap NodesOf(r) = {}
  BY <1>1, <1>2, LlHeads, LlPaths
<1>8. PICK p : p = <<n>>
  OBVIOUS
<1>9. NodesOf(p) = {n} /\ Len(p) = 1
  BY <1>8, SinglePath
<1>10. IsPath(p, n, ll_next')
  BY <1>8, SinglePath
<1>11. LlHeld(t, p)'
  <2>1. LlFirst(t)' = n
    BY <1>4 DEF LlFirst
  <2> QED
    BY <1>4, <1>9, <1>10, <2>1 DEF LlHeld
<1>12. IsChain(s, ll_head', ll_next') /\ IsChain(r, ll_ready', ll_next')
  <2>1. \A m \in NodesOf(s) \cup NodesOf(r) : ll_next'[m] = ll_next[m]
    BY <1>4, <1>7
  <2> QED
    BY <1>1, <1>3, <2>1, ChainKept DEF LlNodesInv
<1>13. LlTakersInv'
  <2>1. LlTakersInv
    BY <1>1 DEF LlNodesInv
  <2>2. \A u \in Threads \ {t} : ll_pc[u] = "take" => ll_raw[u] \in ll_live'
    BY <1>2, <2>1 DEF LlTakersInv
  <2>3. ll_pc'[t] \notin {"take", "delete"}
    BY <1>4
  <2> QED
    BY <1>4, <2>1, <2>2, <2>3, LlTakersKept
<1>14. \A u \in Threads : ll_pc'[u] = "push" => ll_data'[ll_raw'[u]] = ll_call'[u].arg
  <2>1. ASSUME NEW u \in Threads, u # t, ll_pc'[u] = "push"
        PROVE  ll_data'[ll_raw'[u]] = ll_call'[u].arg
    <3>1. ll_pc[u] = "push" /\ ll_raw'[u] = ll_raw[u]
      BY <1>4, <2>1
    <3>2. LlFirst(u) = ll_raw[u] /\ Len(L[u]) # 0
      BY <1>1, <3>1 DEF LlFirst, LlNodesInv, LlHeld
    <3>3. LlFirst(u) \in NodesOf(L[u])
      BY <1>1, <3>2, LlPaths
    <3>4. ll_raw[u] \in Nodes \ {n}
      BY <1>7, <3>2, <3>3
    <3> QED
      BY <1>1, <1>3, <1>4, <3>1, <3>4 DEF LlNodesInv
  <2> QED
    BY <1>3, <1>4, <2>1
<1>15. PICK old : old = NodesOf(s) \cup NodesOf(r) \cup NodesOf(L[t])
  OBVIOUS
<1>16. PICK new : new = NodesOf(s) \cup NodesOf(r) \cup NodesOf(p)
  OBVIOUS
<1>17. new \cap ll_live \subseteq old /\ ll_live' = (ll_live \ old) \cup new
  BY <1>1, <1>2, <1>6, <1>9, <1>15, <1>16, LlHeads
<1>18. NodesOf(p) \cap (NodesOf(s) \cup NodesOf(r)) = {}
  BY <1>7, <1>9
<1>19. \A u \in Threads \ {t} :
         /\ ll_pc'[u] = ll_pc[u] /\ ll_raw'[u] = ll_raw[u]
         /\ ll_list'[u] = ll_list[u] /\ ll_last'[u] = ll_last[u]
         /\ \A m \in NodesOf(L[u]) : ll_next'[m] = ll_next[m]
  BY <1>3, <1>4, <1>7
<1>20. LlNodesInv(s, r, [L EXCEPT ![t] = p])'
  BY ONLY <1>1, <1>7, <1>11, <1>12, <1>13, <1>14, <1>15, <1>16, <1>17, <1>18, <1>19, t \in Threads, LlStepMade
<1>21. PICK M : M = [L EXCEPT ![t] = p]
  OBVIOUS
<1>22. LlNodesInv(s, r, M)'
  BY <1>20, <1>21
<1> QED
  BY <1>4, <1>7, <1>22

(* push() gives its node to the stack.                                     *)
LEMMA LlPushStep ==
  ASSUME NEW s, NEW r, NEW L, LlInv(s, r, L), NEW t \in Threads, LlPush(t), NEW x, x = <<ll_raw[t]>> \o s
  PROVE  /\ \E M : LlNodesInv(x, r, M)'
         /\ ll_raw[t] \in Nodes /\ ll_data[ll_raw[t]] = ll_call[t].arg /\ ll_data' = ll_data
<1>1. LlTypeOK /\ LlCallInv /\ LlNodesInv(s, r, L)
  BY DEF LlInv
<1>2. /\ ll_pc[t] = "push" /\ ll_pc' = [ll_pc EXCEPT ![t] = "return"]
      /\ ll_head = ll_next[ll_raw[t]] /\ ll_head' = ll_raw[t]
      /\ UNCHANGED <<ll_ready, ll_live, ll_next, ll_data, ll_raw, ll_list, ll_last, ll_call>>
  BY DEF LlPush, Move, llHeap, llLocals
<1>3. /\ \A u \in Threads \ {t} : ll_pc'[u] = ll_pc[u]
      /\ ll_pc'[t] = "return"
  BY <1>1, <1>2 DEF LlCallInv
<1>4. PICK n : n = ll_raw[t]
  OBVIOUS
<1>5. LlFirst(t) = n /\ Len(L[t]) # 0 /\ Len(L[t]) <= 1
  BY <1>1, <1>2, <1>4 DEF LlFirst, LlNodesInv, LlHeld
<1>6. n \in Nodes /\ n \in ll_live /\ NodesOf(L[t]) = {n} /\ n \notin NodesOf(s) /\ n \notin NodesOf(r)
  <2>1. LlFirst(t) # 0 /\ LlFirst(t) \in NodesOf(L[t])
    BY <1>1, <1>5, LlOwnsNone
  <2>2. NodesOf(L[t]) = {LlFirst(t)} \ {0} /\ NodesOf(L[t]) \subseteq Nodes \cap ll_live
    BY <1>1, <1>5, LlPaths
  <2>3. \A m \in NodesOf(L[t]) : m \notin NodesOf(s) /\ m \notin NodesOf(r)
    BY <1>1, LlPaths
  <2> QED
    BY <1>5, <2>1, <2>2, <2>3
<1>7. IsChain(x, n, ll_next) /\ NodesOf(x) = NodesOf(s) \cup {n}
  BY <1>1, <1>2, <1>4, <1>6, ChainPushed DEF LlNodesInv
<1>8. IsChain(x, ll_head', ll_next') /\ IsChain(r, ll_ready', ll_next')
  BY <1>1, <1>2, <1>4, <1>7 DEF LlNodesInv
<1>9. PICK p : p = << >>
  OBVIOUS
<1>10. NodesOf(p) = {} /\ Len(p) = 0 /\ IsPath(p, 0, ll_next')
  BY <1>9, EmptyPath
<1>11. LlHeld(t, p)'
  <2>1. LlFirst(t)' = 0
    BY <1>3 DEF LlFirst
  <2> QED
    BY <1>3, <1>10, <2>1 DEF LlHeld
<1>12. LlTakersInv'
  BY <1>1, <1>2, <1>3 DEF LlNodesInv, LlTakersInv
<1>13. \A u \in Threads : ll_pc'[u] = "push" => ll_data'[ll_raw'[u]] = ll_call'[u].arg
  BY <1>1, <1>2, <1>3, LlReadyKept
<1>14. PICK old : old = NodesOf(s) \cup NodesOf(r) \cup NodesOf(L[t])
  OBVIOUS
<1>15. PICK new : new = NodesOf(x) \cup NodesOf(r) \cup NodesOf(p)
  OBVIOUS
<1>16. /\ new \cap ll_live \subseteq old /\ ll_live' = (ll_live \ old) \cup new
       /\ NodesOf(x) \cap NodesOf(r) = {} /\ NodesOf(p) \cap (NodesOf(x) \cup NodesOf(r)) = {}
  BY <1>1, <1>2, <1>6, <1>7, <1>10, <1>14, <1>15, LlHeads
<1>17. \A u \in Threads \ {t} :
         /\ ll_pc'[u] = ll_pc[u] /\ ll_raw'[u] = ll_raw[u]
         /\ ll_list'[u] = ll_list[u] /\ ll_last'[u] = ll_last[u]
         /\ \A m \in NodesOf(L[u]) : ll_next'[m] = ll_next[m]
  BY <1>2, <1>3
<1>18. LlNodesInv(x, r, [L EXCEPT ![t] = p])'
  BY ONLY <1>1, <1>8, <1>11, <1>12, <1>13, <1>14, <1>15, <1>16, <1>17, t \in Threads, LlStepMade
<1>19. PICK M : M = [L EXCEPT ![t] = p]
  OBVIOUS
<1>20. LlNodesInv(x, r, M)'
  BY <1>18, <1>19
<1> QED
  BY <1>1, <1>2, <1>4, <1>6, <1>20 DEF LlNodesInv

(* pull() takes the first node.                                            *)
LEMMA LlTakeStep ==
  ASSUME NEW s, NEW r, NEW L, LlInv(s, r, L), NEW t \in Threads, LlTake(t), NEW x, x = Tail(s)
  PROVE  /\ \E M : LlNodesInv(x, r, M)'
         /\ s # << >> /\ ll_raw[t] = Head(s) /\ ll_data' = ll_data
<1>1. LlTypeOK /\ LlCallInv /\ LlNodesInv(s, r, L)
  BY DEF LlInv
<1>2. /\ ll_pc[t] = "take" /\ ll_pc' = [ll_pc EXCEPT ![t] = "swap"]
      /\ ll_head = ll_raw[t] /\ ll_head' = ll_next[ll_raw[t]]
      /\ UNCHANGED <<ll_ready, ll_live, ll_next, ll_data, ll_raw, ll_list, ll_last, ll_call>>
  BY DEF LlTake, Move, llHeap, llLocals
<1>3. /\ \A u \in Threads \ {t} : ll_pc'[u] = ll_pc[u]
      /\ ll_pc'[t] = "swap"
  BY <1>1, <1>2 DEF LlCallInv
<1>4. PICK n : n = ll_raw[t]
  OBVIOUS
<1>5. n \in ll_live /\ n \in Nodes /\ n # 0
  BY <1>1, <1>2, <1>4, NodesAssumption DEF LlNodesInv, LlTakersInv, LlTypeOK
<1>6. /\ IsChain(x, ll_next[n], ll_next) /\ NodesOf(x) = NodesOf(s) \ {n}
      /\ s # << >> /\ n = Head(s) /\ n \in NodesOf(s)
  BY <1>1, <1>2, <1>4, <1>5, ChainTaken DEF LlNodesInv
<1>7. NodesOf(L[t]) = {}
  <2>1. LlFirst(t) = 0
    BY <1>2 DEF LlFirst
  <2> QED
    BY <1>1, <2>1, LlOwnsNone
<1>8. IsChain(x, ll_head', ll_next') /\ IsChain(r, ll_ready', ll_next')
  BY <1>1, <1>2, <1>4, <1>6 DEF LlNodesInv
<1>9. PICK p : p = <<n>>
  OBVIOUS
<1>10. NodesOf(p) = {n} /\ Len(p) = 1
  BY <1>5, <1>9, SinglePath
<1>21. IsPath(p, n, ll_next')
  BY <1>5, <1>9, SinglePath
<1>11. LlHeld(t, p)'
  <2>1. LlFirst(t)' = n
    BY <1>2, <1>3, <1>4 DEF LlFirst
  <2> QED
    BY <1>3, <1>10, <1>21, <2>1 DEF LlHeld
<1>12. LlTakersInv'
  BY <1>1, <1>2, <1>3 DEF LlNodesInv, LlTakersInv
<1>13. \A u \in Threads : ll_pc'[u] = "push" => ll_data'[ll_raw'[u]] = ll_call'[u].arg
  BY <1>1, <1>2, <1>3, LlReadyKept
<1>14. PICK old : old = NodesOf(s) \cup NodesOf(r) \cup NodesOf(L[t])
  OBVIOUS
<1>15. PICK new : new = NodesOf(x) \cup NodesOf(r) \cup NodesOf(p)
  OBVIOUS
<1>16. /\ new \cap ll_live \subseteq old /\ ll_live' = (ll_live \ old) \cup new
       /\ NodesOf(x) \cap NodesOf(r) = {} /\ NodesOf(p) \cap (NodesOf(x) \cup NodesOf(r)) = {}
  BY <1>1, <1>2, <1>6, <1>7, <1>10, <1>14, <1>15, LlHeads
<1>17. \A u \in Threads \ {t} :
         /\ ll_pc'[u] = ll_pc[u] /\ ll_raw'[u] = ll_raw[u]
         /\ ll_list'[u] = ll_list[u] /\ ll_last'[u] = ll_last[u]
         /\ \A m \in NodesOf(L[u]) : ll_next'[m] = ll_next[m]
  BY <1>2, <1>3
<1>18. LlNodesInv(x, r, [L EXCEPT ![t] = p])'
  BY ONLY <1>1, <1>8, <1>11, <1>12, <1>13, <1>14, <1>15, <1>16, <1>17, t \in Threads, LlStepMade
<1>19. PICK M : M = [L EXCEPT ![t] = p]
  OBVIOUS
<1>20. LlNodesInv(x, r, M)'
  BY <1>18, <1>19
<1> QED
  BY <1>2, <1>4, <1>6, <1>20

(* The node is deleted, and the pending ones are taken over.               *)
LEMMA LlDeleteStep ==
  ASSUME NEW s, NEW r, NEW L, LlInv(s, r, L), NEW t \in Threads, LlDelete(t)
  PROVE  /\ \E y, M : LlNodesInv(s, y, M)'
         /\ ll_head' = ll_head /\ ll_data' = ll_data
<1>1. LlTypeOK /\ LlCallInv /\ LlNodesInv(s, r, L)
  BY DEF LlInv
<1>2. /\ ll_pc[t] = "delete" /\ ll_pc' = [ll_pc EXCEPT ![t] = "sub"]
      /\ ll_live' = ll_live \ {ll_raw[t]} /\ ll_ready' = 0
      /\ ll_list' = [ll_list EXCEPT ![t] = ll_ready]
      /\ UNCHANGED <<ll_head, ll_next, ll_data, ll_raw, ll_last, ll_call>>
  BY DEF LlDelete, Move
<1>3. /\ \A u \in Threads \ {t} : ll_pc'[u] = ll_pc[u] /\ ll_list'[u] = ll_list[u]
      /\ ll_pc'[t] = "sub" /\ ll_list'[t] = ll_ready
  BY <1>1, <1>2 DEF LlTypeOK, LlCallInv
<1>4. NodesOf(L[t]) = {ll_raw[t]} \ {0} /\ NodesOf(L[t]) \subseteq Nodes \cap ll_live
  <2>1. LlFirst(t) = ll_raw[t] /\ Len(L[t]) <= 1
    BY <1>1, <1>2 DEF LlFirst, LlNodesInv, LlHeld
  <2> QED
    BY <1>1, <2>1, LlPaths
<1>5. PICK y : y = << >>
  OBVIOUS
<1>6. NodesOf(y) = {} /\ IsChain(y, ll_ready', ll_next')
  BY <1>2, <1>5, EmptyPath
<1>7. IsChain(s, ll_head', ll_next') /\ IsChain(r, ll_ready, ll_next')
  BY <1>1, <1>2 DEF LlNodesInv
<1>8. LlHeld(t, r)'
  <2>1. LlFirst(t)' = ll_ready
    BY <1>3 DEF LlFirst
  <2>2. IsPath(r, ll_ready, ll_next')
    BY <1>7, ChainIsPath
  <2> QED
    BY <1>3, <1>7, <2>1, <2>2 DEF LlHeld
<1>9. LlTakersInv'
  <2>1. LlTakersInv
    BY <1>1 DEF LlNodesInv
  <2>2. \A u \in Threads \ {t} : ll_pc[u] = "take" => ll_raw[u] \in ll_live'
    BY <1>2, <2>1 DEF LlTakersInv
  <2>3. ll_pc'[t] \notin {"take", "delete"}
    BY <1>3
  <2> QED
    BY <1>2, <1>3, <2>1, <2>2, <2>3, LlTakersKept
<1>10. \A u \in Threads : ll_pc'[u] = "push" => ll_data'[ll_raw'[u]] = ll_call'[u].arg
  BY <1>1, <1>2, <1>3, LlReadyKept
<1>11. PICK old : old = NodesOf(s) \cup NodesOf(r) \cup NodesOf(L[t])
  OBVIOUS
<1>12. PICK new : new = NodesOf(s) \cup NodesOf(y) \cup NodesOf(r)
  OBVIOUS
<1>13. \A m \in NodesOf(L[t]) : m \notin NodesOf(s) /\ m \notin NodesOf(r)
  BY <1>1, LlPaths
<1>14. 0 \notin ll_live
  BY <1>1, NodesAssumption DEF LlTypeOK
<1>15. /\ new \cap ll_live \subseteq old /\ ll_live' = (ll_live \ old) \cup new
       /\ NodesOf(s) \cap NodesOf(y) = {} /\ NodesOf(r) \cap (NodesOf(s) \cup NodesOf(y)) = {}
  <2>1. /\ NodesOf(s) \subseteq ll_live /\ NodesOf(r) \subseteq ll_live
        /\ NodesOf(s) \cap NodesOf(r) = {}
    BY <1>1, LlHeads
  <2>2. ll_live' = ll_live \ NodesOf(L[t])
    BY <1>2, <1>4, <1>14
  <2> QED
    BY <1>6, <1>11, <1>12, <1>13, <2>1, <2>2
<1>16. \A u \in Threads \ {t} :
         /\ ll_pc'[u] = ll_pc[u] /\ ll_raw'[u] = ll_raw[u]
         /\ ll_list'[u] = ll_list[u] /\ ll_last'[u] = ll_last[u]
         /\ \A m \in NodesOf(L[u]) : ll_next'[m] = ll_next[m]
  BY <1>2, <1>3
<1>17. LlNodesInv(s, y, [L EXCEPT ![t] = r])'
  BY ONLY <1>1, <1>6, <1>7, <1>8, <1>9, <1>10, <1>11, <1>12, <1>15, <1>16, t \in Threads, LlStepMade
<1>18. PICK M : M = [L EXCEPT ![t] = r]
  OBVIOUS
<1>19. LlNodesInv(s, y, M)'
  BY <1>17, <1>18
<1> QED
  BY <1>2, <1>19

(* A thread that was alone all the time deletes the nodes that it took     *)
(* over.                                                                   *)
LEMMA LlSubStep ==
  ASSUME NEW s, NEW r, NEW L, LlInv(s, r, L), NEW t \in Threads, LlSub(t), ll_ths = 1
  PROVE  /\ \E M : LlNodesInv(s, r, M)'
         /\ ll_head' = ll_head /\ ll_data' = ll_data
<1>1. LlTypeOK /\ LlCallInv /\ LlNodesInv(s, r, L) /\ ll_ths = Cardinality(LlInside)
  BY DEF LlInv
<1>2. /\ ll_pc[t] = "sub" /\ ll_pc' = [ll_pc EXCEPT ![t] = "return"]
      /\ ll_live' = ll_live \ LlNodesOf(ll_list[t])
      /\ UNCHANGED <<ll_head, ll_ready, ll_next, ll_data, ll_raw, ll_list, ll_last, ll_call>>
  BY DEF LlSub, Move, llLocals
<1>3. /\ \A u \in Threads \ {t} : ll_pc'[u] = ll_pc[u]
      /\ ll_pc'[t] = "return"
  BY <1>1, <1>2 DEF LlCallInv
<1>4. ll_live' = ll_live \ NodesOf(L[t])
  <2>1. IsChain(L[t], ll_list[t], ll_next)
    BY <1>1, <1>2 DEF LlNodesInv, LlHeld
  <2>2. LlChain(ll_list[t]) = L[t]
    BY <2>1, ChainComputed DEF LlChain
  <2> QED
    BY <1>2, <2>2 DEF LlNodesOf
<1>5. IsChain(s, ll_head', ll_next') /\ IsChain(r, ll_ready', ll_next')
  BY <1>1, <1>2 DEF LlNodesInv
<1>6. PICK p : p = << >>
  OBVIOUS
<1>7. NodesOf(p) = {} /\ Len(p) = 0 /\ IsPath(p, 0, ll_next')
  BY <1>6, EmptyPath
<1>8. LlHeld(t, p)'
  <2>1. LlFirst(t)' = 0
    BY <1>3 DEF LlFirst
  <2> QED
    BY <1>3, <1>7, <2>1 DEF LlHeld
<1>9. LlTakersInv'
  <2>1. LlTakersInv
    BY <1>1 DEF LlNodesInv
  <2>2. \A u \in Threads \ {t} : ll_pc[u] # "take"
    <3>1. t \in LlInside
      BY <1>2 DEF LlInside
    <3> QED
      BY <1>1, <3>1, LlAloneInside DEF LlInside
  <2>3. ll_pc'[t] \notin {"take", "delete"}
    BY <1>3
  <2> QED
    BY <1>2, <1>3, <2>1, <2>2, <2>3, LlTakersKept
<1>10. \A u \in Threads : ll_pc'[u] = "push" => ll_data'[ll_raw'[u]] = ll_call'[u].arg
  BY <1>1, <1>2, <1>3, LlReadyKept
<1>11. PICK old : old = NodesOf(s) \cup NodesOf(r) \cup NodesOf(L[t])
  OBVIOUS
<1>12. PICK new : new = NodesOf(s) \cup NodesOf(r) \cup NodesOf(p)
  OBVIOUS
<1>13. \A m \in NodesOf(L[t]) : m \notin NodesOf(s) /\ m \notin NodesOf(r)
  BY <1>1, LlPaths
<1>14. /\ new \cap ll_live \subseteq old /\ ll_live' = (ll_live \ old) \cup new
       /\ NodesOf(s) \cap NodesOf(r) = {} /\ NodesOf(p) \cap (NodesOf(s) \cup NodesOf(r)) = {}
  <2>1. /\ NodesOf(s) \subseteq ll_live /\ NodesOf(r) \subseteq ll_live
        /\ NodesOf(s) \cap NodesOf(r) = {}
    BY <1>1, LlHeads
  <2> QED
    BY <1>4, <1>7, <1>11, <1>12, <1>13, <2>1
<1>15. \A u \in Threads \ {t} :
         /\ ll_pc'[u] = ll_pc[u] /\ ll_raw'[u] = ll_raw[u]
         /\ ll_list'[u] = ll_list[u] /\ ll_last'[u] = ll_last[u]
         /\ \A m \in NodesOf(L[u]) : ll_next'[m] = ll_next[m]
  BY <1>2, <1>3
<1>16. LlNodesInv(s, r, [L EXCEPT ![t] = p])'
  BY ONLY <1>1, <1>5, <1>8, <1>9, <1>10, <1>11, <1>12, <1>14, <1>15, t \in Threads, LlStepMade
<1>17. PICK M : M = [L EXCEPT ![t] = p]
  OBVIOUS
<1>18. LlNodesInv(s, r, M)'
  BY <1>16, <1>17
<1> QED
  BY <1>2, <1>18

(* The last node of those a thread puts back.                              *)
LEMMA LlLastIs ==
  ASSUME NEW s, NEW r, NEW L, LlInv(s, r, L), NEW t \in Threads, LlPend(t), NEW n, n = L[t][Len(L[t])]
  PROVE  /\ Len(L[t]) # 0 /\ n \in Nodes /\ n \in NodesOf(L[t])
         /\ ll_last' = [ll_last EXCEPT ![t] = n] /\ ll_next' = [ll_next EXCEPT ![n] = ll_ready]
<1>1. LlTypeOK /\ LlCallInv /\ LlNodesInv(s, r, L)
  BY DEF LlInv
<1>2. ll_pc[t] \in {"pend", "put_back"} /\ ll_list[t] # 0
  BY DEF LlPend, Move
<1>3. LlFirst(t) = ll_list[t] /\ LlHeld(t, L[t])
  BY <1>1, <1>2 DEF LlFirst, LlNodesInv
<1>4. Len(L[t]) # 0 /\ Len(L[t]) \in Nat /\ L[t] \in Seq(Nodes)
  BY <1>1, <1>2, <1>3, LlPaths
<1>5. Len(L[t]) \in 1 .. Len(L[t]) /\ n \in Nodes /\ n \in NodesOf(L[t])
  BY <1>4 DEF NodesOf
<1>6. n = IF ll_pc[t] = "pend" THEN ll_list[t] ELSE LlChain(ll_list[t])[Len(LlChain(ll_list[t]))]
  <2>1. CASE ll_pc[t] = "pend"
    <3>1. Len(L[t]) <= 1 /\ L[t][1] = ll_list[t]
      BY <1>3, <1>4, <2>1 DEF LlHeld, IsPath
    <3>2. PICK m : m = Len(L[t])
      OBVIOUS
    <3>3. m \in Nat /\ m # 0 /\ m <= 1
      BY <1>4, <3>1, <3>2
    <3>4. m = 1
      BY <3>3
    <3> QED
      BY <2>1, <3>1, <3>2, <3>4
  <2>2. CASE ll_pc[t] = "put_back"
    <3>1. IsChain(L[t], ll_list[t], ll_next)
      BY <1>3, <2>2 DEF LlHeld
    <3>2. LlChain(ll_list[t]) = L[t]
      BY <3>1, ChainComputed DEF LlChain
    <3> QED
      BY <2>2, <3>2
  <2> QED
    BY <1>2, <2>1, <2>2
<1> QED
  BY <1>4, <1>5, <1>6 DEF LlPend

(* The last node that a thread puts back leads to the pending ones.        *)
LEMMA LlPendStep ==
  ASSUME NEW s, NEW r, NEW L, LlInv(s, r, L), NEW t \in Threads, LlPend(t)
  PROVE  /\ \E M : LlNodesInv(s, r, M)'
         /\ ll_head' = ll_head /\ ll_data' = ll_data
<1>1. LlTypeOK /\ LlCallInv /\ LlNodesInv(s, r, L)
  BY DEF LlInv
<1>2. PICK p : p = L[t]
  OBVIOUS
<1>3. PICK n : n = p[Len(p)]
  OBVIOUS
<1>4. /\ Len(p) # 0 /\ n \in Nodes /\ n \in NodesOf(p)
      /\ ll_last' = [ll_last EXCEPT ![t] = n] /\ ll_next' = [ll_next EXCEPT ![n] = ll_ready]
  BY <1>2, <1>3, LlLastIs
<1>5. /\ \/ ll_pc[t] = "pend" /\ ll_pc' = [ll_pc EXCEPT ![t] = "link"]
         \/ ll_pc[t] = "put_back" /\ ll_pc' = [ll_pc EXCEPT ![t] = "link_back"]
      /\ UNCHANGED <<ll_head, ll_ready, ll_live, ll_data, ll_raw, ll_list, ll_call>>
  BY DEF LlPend, Move
<1>6. /\ \A u \in Threads \ {t} : ll_pc'[u] = ll_pc[u] /\ ll_last'[u] = ll_last[u]
      /\ \/ ll_pc[t] = "pend" /\ ll_pc'[t] = "link"
         \/ ll_pc[t] = "put_back" /\ ll_pc'[t] = "link_back"
      /\ ll_last'[t] = n
      /\ \A m \in Nodes \ {n} : ll_next'[m] = ll_next[m]
  BY <1>1, <1>4, <1>5 DEF LlTypeOK, LlCallInv
<1>7. /\ \A m \in NodesOf(p) : m \notin NodesOf(s) /\ m \notin NodesOf(r)
      /\ \A m \in NodesOf(p) : \A u \in Threads : u # t => m \notin NodesOf(L[u])
      /\ NodesOf(p) \subseteq ll_live
  BY <1>1, <1>2, LlPaths
<1>8. /\ NodesOf(s) \subseteq Nodes \cap ll_live /\ NodesOf(r) \subseteq Nodes \cap ll_live
      /\ NodesOf(s) \cap NodesOf(r) = {}
      /\ \A u \in Threads : NodesOf(L[u]) \subseteq Nodes
  BY <1>1, LlHeads, LlPaths
<1>9. IsChain(s, ll_head', ll_next') /\ IsChain(r, ll_ready', ll_next')
  <2>1. \A m \in NodesOf(s) \cup NodesOf(r) : ll_next'[m] = ll_next[m]
    BY <1>4, <1>6, <1>7, <1>8
  <2> QED
    BY <1>1, <1>5, <2>1, ChainKept DEF LlNodesInv
<1>10. LlHeld(t, p)'
  <2>1. LlHeld(t, p)
    BY <1>1, <1>2 DEF LlNodesInv
  <2>2. LlFirst(t)' = LlFirst(t)
    BY <1>5, <1>6 DEF LlFirst
  <2>3. IsPath(p, LlFirst(t), ll_next')
    <3>1. IsPath(p, LlFirst(t), ll_next)
      BY <2>1 DEF LlHeld
    <3>2. p \in Seq(Nodes) /\ Len(p) \in 1 .. Len(p)
      BY <1>4, <3>1 DEF IsPath
    <3>3. \A i \in 1 .. Len(p) : i # Len(p) => p[i] \in Nodes \ {n}
      BY <1>3, <3>1, <3>2 DEF IsPath
    <3> QED
      BY <1>6, <3>1, <3>3, PathKept
  <2>4. ll_pc'[t] = "link" => Len(p) <= 1
    BY <1>6, <2>1 DEF LlHeld
  <2> QED
    BY <1>3, <1>4, <1>6, <2>2, <2>3, <2>4 DEF LlHeld
<1>11. LlTakersInv'
  <2>1. LlTakersInv
    BY <1>1 DEF LlNodesInv
  <2>2. \A u \in Threads \ {t} : ll_pc[u] = "take" => ll_raw[u] \in ll_live'
    BY <1>5, <2>1 DEF LlTakersInv
  <2>3. ll_pc'[t] \notin {"take", "delete"}
    BY <1>6
  <2> QED
    BY <1>5, <1>6, <2>1, <2>2, <2>3, LlTakersKept
<1>12. \A u \in Threads : ll_pc'[u] = "push" => ll_data'[ll_raw'[u]] = ll_call'[u].arg
  BY <1>1, <1>5, <1>6, LlReadyKept
<1>13. PICK old : old = NodesOf(s) \cup NodesOf(r) \cup NodesOf(L[t])
  OBVIOUS
<1>14. old = NodesOf(s) \cup NodesOf(r) \cup NodesOf(p)
  BY <1>2, <1>13
<1>15. /\ old \cap ll_live \subseteq old /\ ll_live' = (ll_live \ old) \cup old
       /\ NodesOf(s) \cap NodesOf(r) = {} /\ NodesOf(p) \cap (NodesOf(s) \cup NodesOf(r)) = {}
  BY <1>5, <1>7, <1>8, <1>14
<1>16. \A u \in Threads \ {t} :
         /\ ll_pc'[u] = ll_pc[u] /\ ll_raw'[u] = ll_raw[u]
         /\ ll_list'[u] = ll_list[u] /\ ll_last'[u] = ll_last[u]
         /\ \A m \in NodesOf(L[u]) : ll_next'[m] = ll_next[m]
  BY <1>4, <1>5, <1>6, <1>7, <1>8
<1>17. LlNodesInv(s, r, [L EXCEPT ![t] = p])'
  BY ONLY <1>1, <1>9, <1>10, <1>11, <1>12, <1>13, <1>14, <1>15, <1>16, t \in Threads, LlStepMade
<1>18. PICK M : M = [L EXCEPT ![t] = p]
  OBVIOUS
<1>19. LlNodesInv(s, r, M)'
  BY <1>17, <1>18
<1> QED
  BY <1>5, <1>19

(* The nodes become pending ones.                                          *)
LEMMA LlLinkStep ==
  ASSUME NEW s, NEW r, NEW L, LlInv(s, r, L), NEW t \in Threads, LlLink(t)
  PROVE  /\ \E y, M : LlNodesInv(s, y, M)'
         /\ ll_head' = ll_head /\ ll_data' = ll_data
<1>1. LlTypeOK /\ LlCallInv /\ LlNodesInv(s, r, L)
  BY DEF LlInv
<1>2. /\ ll_pc[t] \in {"link", "link_back"}
      /\ ll_pc' = [ll_pc EXCEPT ![t] = "sub_one"] \/ ll_pc' = [ll_pc EXCEPT ![t] = "return"]
      /\ ll_ready = ll_next[ll_last[t]] /\ ll_ready' = ll_list[t]
      /\ UNCHANGED <<ll_head, ll_next, ll_live, ll_data, ll_raw, ll_list, ll_last, ll_call>>
  BY DEF LlLink, Move, llHeap, llLocals
<1>3. /\ \A u \in Threads \ {t} : ll_pc'[u] = ll_pc[u]
      /\ ll_pc'[t] \in {"sub_one", "return"}
  BY <1>1, <1>2 DEF LlCallInv
<1>4. PICK q : q = L[t]
  OBVIOUS
<1>5. /\ IsPath(q, ll_list[t], ll_next) /\ Len(q) # 0 /\ ll_last[t] = q[Len(q)]
  <2>1. LlHeld(t, q) /\ LlFirst(t) = ll_list[t]
    BY <1>1, <1>2, <1>4 DEF LlNodesInv, LlFirst
  <2> QED
    BY <1>2, <2>1 DEF LlHeld
<1>6. \A m \in NodesOf(q) : m \notin NodesOf(s) /\ m \notin NodesOf(r)
  BY <1>1, <1>4, LlPaths
<1>7. PICK y : y = q \o r
  OBVIOUS
<1>8. IsChain(y, ll_list[t], ll_next) /\ NodesOf(y) = NodesOf(q) \cup NodesOf(r)
  <2>1. IsChain(r, ll_next[q[Len(q)]], ll_next)
    BY <1>1, <1>2, <1>5 DEF LlNodesInv
  <2>2. NodesOf(q) \cap NodesOf(r) = {}
    BY <1>6
  <2> QED
    BY <1>5, <1>7, <2>1, <2>2, ChainJoined
<1>9. IsChain(s, ll_head', ll_next') /\ IsChain(y, ll_ready', ll_next')
  BY <1>1, <1>2, <1>8 DEF LlNodesInv
<1>10. PICK p : p = << >>
  OBVIOUS
<1>11. NodesOf(p) = {} /\ Len(p) = 0 /\ IsPath(p, 0, ll_next')
  BY <1>10, EmptyPath
<1>12. LlHeld(t, p)'
  <2>1. LlFirst(t)' = 0
    BY <1>3 DEF LlFirst
  <2> QED
    BY <1>3, <1>11, <2>1 DEF LlHeld
<1>13. LlTakersInv'
  <2>1. LlTakersInv
    BY <1>1 DEF LlNodesInv
  <2>2. \A u \in Threads \ {t} : ll_pc[u] = "take" => ll_raw[u] \in ll_live'
    BY <1>2, <2>1 DEF LlTakersInv
  <2>3. ll_pc'[t] \notin {"take", "delete"}
    BY <1>3
  <2> QED
    BY <1>2, <1>3, <2>1, <2>2, <2>3, LlTakersKept
<1>14. \A u \in Threads : ll_pc'[u] = "push" => ll_data'[ll_raw'[u]] = ll_call'[u].arg
  BY <1>1, <1>2, <1>3, LlReadyKept
<1>15. PICK old : old = NodesOf(s) \cup NodesOf(r) \cup NodesOf(L[t])
  OBVIOUS
<1>16. PICK new : new = NodesOf(s) \cup NodesOf(y) \cup NodesOf(p)
  OBVIOUS
<1>17. /\ new \cap ll_live \subseteq old /\ ll_live' = (ll_live \ old) \cup new
       /\ NodesOf(s) \cap NodesOf(y) = {} /\ NodesOf(p) \cap (NodesOf(s) \cup NodesOf(y)) = {}
  <2>1. /\ NodesOf(s) \subseteq ll_live /\ NodesOf(r) \subseteq ll_live
        /\ NodesOf(s) \cap NodesOf(r) = {}
    BY <1>1, LlHeads
  <2>2. NodesOf(q) \subseteq ll_live
    BY <1>1, <1>4, LlPaths
  <2> QED
    BY <1>2, <1>4, <1>6, <1>8, <1>11, <1>15, <1>16, <2>1, <2>2
<1>18. \A u \in Threads \ {t} :
         /\ ll_pc'[u] = ll_pc[u] /\ ll_raw'[u] = ll_raw[u]
         /\ ll_list'[u] = ll_list[u] /\ ll_last'[u] = ll_last[u]
         /\ \A m \in NodesOf(L[u]) : ll_next'[m] = ll_next[m]
  BY <1>2, <1>3
<1>19. LlNodesInv(s, y, [L EXCEPT ![t] = p])'
  BY ONLY <1>1, <1>9, <1>12, <1>13, <1>14, <1>15, <1>16, <1>17, <1>18, t \in Threads, LlStepMade
<1>20. PICK M : M = [L EXCEPT ![t] = p]
  OBVIOUS
<1>21. LlNodesInv(s, y, M)'
  BY <1>19, <1>20
<1> QED
  BY <1>2, <1>21

(* The stack after a step of thread t.                                     *)
LlStackAfter(s, t) ==
  CASE ll_pc[t] = "push" -> <<ll_raw[t]>> \o s
    [] ll_pc[t] = "take" -> Tail(s)
    [] OTHER -> s

(* Every step keeps the invariant.                                         *)
LEMMA LlStepKept ==
  ASSUME NEW s, NEW r, NEW L, LlInv(s, r, L), NEW t \in Threads, LlCall(t) \/ LlRun(t),
         NEW x, x = LlStackAfter(s, t)
  PROVE  \E y, M : LlInv(x, y, M)'
<1> USE DEF Move
<1>1. LlTypeOK /\ LlCallInv /\ LlNodesInv(s, r, L) /\ ll_ths = Cardinality(LlInside)
  BY DEF LlInv
<1>2. ll_ths' = Cardinality(LlInside)' /\ ll_ths' \in 0 .. Cardinality(Threads)
  BY <1>1, LlCountKept
<1>3. LlTypeOK' /\ LlCallInv'
  <2>1. ll_pc[t] = "take" => ll_raw[t] \in Nodes
    BY <1>1 DEF LlNodesInv, LlTakersInv, LlTypeOK
  <2>2. ASSUME LlPend(t)
        PROVE  ll_last'[t] \in Nodes
    <3>1. PICK n : n = L[t][Len(L[t])]
      OBVIOUS
    <3>2. n \in Nodes /\ ll_last' = [ll_last EXCEPT ![t] = n]
      BY <2>2, <3>1, LlLastIs
    <3> QED
      BY <1>1, <3>2 DEF LlTypeOK
  <2> QED
    BY <1>1, <1>2, <2>1, <2>2, LlTypesKept
<1>4. ASSUME \/ LlCall(t) \/ LlReturn(t) \/ LlAdd(t) \/ LlLoad(t) \/ LlSwap(t) \/ LlAlone(t) \/ LlSubOne(t)
             \/ LlSub(t) /\ ll_ths # 1
      PROVE  \E y, M : LlNodesInv(x, y, M)'
  <2>1. LlNodesInv(s, r, L)'
    BY <1>4, LlQuietSteps
  <2>2. x = s
    BY <1>4 DEF LlStackAfter, LlCall, LlReturn, LlAdd, LlLoad, LlSwap, LlAlone, LlSubOne, LlSub
  <2> QED
    BY <2>1, <2>2
<1>5. ASSUME LlNew(t) \/ LlDelete(t) \/ LlPend(t) \/ LlLink(t) \/ (LlSub(t) /\ ll_ths = 1)
      PROVE  \E y, M : LlNodesInv(x, y, M)'
  <2>1. \E y, M : LlNodesInv(s, y, M)'
    <3>1. CASE LlNew(t)
      BY <3>1, LlNewStep
    <3>2. CASE LlDelete(t)
      BY <3>2, LlDeleteStep
    <3>3. CASE LlPend(t)
      BY <3>3, LlPendStep
    <3>4. CASE LlLink(t)
      BY <3>4, LlLinkStep
    <3>5. CASE LlSub(t) /\ ll_ths = 1
      BY <3>5, LlSubStep
    <3> QED
      BY <1>5, <3>1, <3>2, <3>3, <3>4, <3>5
  <2>2. x = s
    BY <1>5 DEF LlStackAfter, LlNew, LlDelete, LlPend, LlLink, LlSub
  <2> QED
    BY <2>1, <2>2
<1>6. CASE LlPush(t)
  <2>1. x = <<ll_raw[t]>> \o s
    BY <1>6 DEF LlStackAfter, LlPush
  <2>2. \E M : LlNodesInv(x, r, M)'
    BY <1>6, <2>1, LlPushStep
  <2> QED
    BY <1>2, <1>3, <2>2 DEF LlInv
<1>7. CASE LlTake(t)
  <2>1. x = Tail(s)
    BY <1>7 DEF LlStackAfter, LlTake
  <2>2. \E M : LlNodesInv(x, r, M)'
    BY <1>7, <2>1, LlTakeStep
  <2> QED
    BY <1>2, <1>3, <2>2 DEF LlInv
<1>8. CASE ~(LlPush(t) \/ LlTake(t))
  <2>1. \E y, M : LlNodesInv(x, y, M)'
    BY <1>4, <1>5, <1>8 DEF LlRun
  <2> QED
    BY <1>2, <1>3, <2>1 DEF LlInv
<1> QED
  BY <1>6, <1>7, <1>8

(* The inductive invariant of ll_stack: the stack and the pending list are *)
(* chains and every thread has a path of its own, of different nodes that  *)
(* are all that are live; ll_ths counts the threads inside pull(), and no  *)
(* thread is about to delete a node that another one may still look at.    *)
THEOREM LlInvariance == LlSpec => [](\E s, r, L : LlInv(s, r, L))
<1>1. LlInit => \E s, r, L : LlInv(s, r, L)
  <2> SUFFICES ASSUME LlInit
               PROVE  \E s, r, L : LlInv(s, r, L)
    OBVIOUS
  <2>1. PICK e : e = << >>
    OBVIOUS
  <2>2. PICK L : L = [t \in Threads |-> e]
    OBVIOUS
  <2>3. e \in Seq(Nodes) /\ NodesOf(e) = {} /\ Len(e) = 0 /\ IsChain(e, 0, ll_next) /\ IsPath(e, 0, ll_next)
    BY <2>1, EmptyPath, EmptySeq
  <2>4. /\ ll_pc = [t \in Threads |-> "idle"] /\ ll_head = 0 /\ ll_ready = 0 /\ ll_ths = 0 /\ ll_live = {}
    BY DEF LlInit
  <2>5. LlInside = {}
    BY <2>4 DEF LlInside
  <2>6. ll_ths = Cardinality(LlInside) /\ 0 \in 0 .. Cardinality(Threads)
    BY <2>4, <2>5, CallersAssumption, FS_EmptySet, FS_CardinalityType
  <2>7. LlTypeOK
    BY <2>6 DEF LlInit, LlTypeOK
  <2>8. LlCallInv
    BY DEF LlInit, LlCallInv, LlLabels, LlCalls, LlIdle
  <2>9. L \in [Threads -> Seq(Nodes)] /\ \A t \in Threads : L[t] = e
    BY <2>2, <2>3
  <2>10. ASSUME NEW t \in Threads
         PROVE  LlHeld(t, L[t])
    <3>1. ll_pc[t] = "idle" /\ L[t] = e
      BY <2>4, <2>9
    <3>2. LlFirst(t) = 0
      BY <3>1 DEF LlFirst
    <3> QED
      BY <2>3, <3>1, <3>2 DEF LlHeld
  <2>11. OwnedOnce(e, e, L, ll_live)
    BY <2>3, <2>4, <2>9 DEF OwnedOnce
  <2>12. LlTakersInv /\ \A t \in Threads : ll_pc[t] # "push"
    BY <2>4 DEF LlTakersInv
  <2>13. LlNodesInv(e, e, L)
    BY <2>3, <2>4, <2>9, <2>10, <2>11, <2>12 DEF LlNodesInv
  <2> QED
    BY <2>6, <2>7, <2>8, <2>13 DEF LlInv
<1>2. (\E s, r, L : LlInv(s, r, L)) /\ [LlNext]_llVars => (\E s, r, L : LlInv(s, r, L))'
  <2> SUFFICES ASSUME NEW s, NEW r, NEW L, LlInv(s, r, L), [LlNext]_llVars
               PROVE  (\E x, y, M : LlInv(x, y, M))'
    OBVIOUS
  <2>1. ASSUME NEW t \in Threads, LlCall(t) \/ LlRun(t)
        PROVE  (\E x, y, M : LlInv(x, y, M))'
    <3>1. PICK x : x = LlStackAfter(s, t)
      OBVIOUS
    <3>2. \E y, M : LlInv(x, y, M)'
      BY <2>1, <3>1, LlStepKept
    <3> QED
      BY <3>2
  <2>2. CASE UNCHANGED llVars
    <3>1. LlInv(s, r, L)'
      BY <2>2 DEF LlInv, LlTypeOK, LlCallInv, LlInside, LlNodesInv, LlHeld, LlFirst, LlTakersInv,
                  llVars, llHeap, llLocals
    <3> QED
      BY <3>1
  <2> QED
    BY <2>1, <2>2 DEF LlNext
<1> QED
  BY <1>1, <1>2, PTL DEF LlSpec

(* Every variable of ll_stack keeps its type.                              *)
THEOREM LlTypeCorrect == LlSpec => []LlTypeOK
<1>1. (\E s, r, L : LlInv(s, r, L)) => LlTypeOK
  BY DEF LlInv
<1> QED
  BY <1>1, LlInvariance, PTL

(* What the invariant says of the model's own stack and pending list.      *)
LEMMA LlChainsAre ==
  ASSUME NEW s, NEW r, NEW L, LlInv(s, r, L)
  PROVE  LlChain(ll_head) = s /\ LlChain(ll_ready) = r
<1>1. IsChain(s, ll_head, ll_next) /\ IsChain(r, ll_ready, ll_next)
  BY DEF LlInv, LlNodesInv
<1> QED
  BY <1>1, ChainComputed DEF LlChain

(* The model's own stack after a step.                                     *)
LEMMA LlChainThen ==
  ASSUME NEW s, NEW r, NEW L, LlInv(s, r, L)'
  PROVE  LlChain(ll_head)' = s
<1>1. IsChain(s, ll_head', ll_next')
  BY DEF LlInv, LlNodesInv
<1>2. ChainFrom(ll_head', ll_next') = s
  BY <1>1, ChainComputed
<1> QED
  BY <1>2 DEF LlChain

(* What a thread owns and may follow: the nodes of its path, and the head  *)
(* that it is about to take.                                               *)
LEMMA LlHoldsPath ==
  ASSUME NEW s, NEW r, NEW L, LlInv(s, r, L), NEW t \in Threads
  PROVE  LlHolds(t) = IF ll_pc[t] = "take" THEN {ll_raw[t]} \ {0} ELSE NodesOf(L[t])
<1>1. LlNodesInv(s, r, L) /\ LlHeld(t, L[t]) /\ ll_pc[t] \in LlLabels
  BY DEF LlInv, LlNodesInv, LlCallInv
<1>2. CASE ll_pc[t] = "take"
  BY <1>2 DEF LlHolds
<1>3. CASE ll_pc[t] \in {"push", "swap", "alone", "delete"}
  <2>1. LlFirst(t) = ll_raw[t] /\ Len(L[t]) <= 1
    BY <1>1, <1>3 DEF LlFirst, LlHeld
  <2>2. NodesOf(L[t]) = {ll_raw[t]} \ {0}
    BY <1>1, <2>1, LlPaths
  <2> QED
    BY <1>3, <2>2 DEF LlHolds
<1>4. CASE ll_pc[t] \in {"pend", "link"}
  <2>1. LlFirst(t) = ll_list[t] /\ Len(L[t]) <= 1
    BY <1>1, <1>4 DEF LlFirst, LlHeld
  <2>2. NodesOf(L[t]) = {ll_list[t]} \ {0}
    BY <1>1, <2>1, LlPaths
  <2> QED
    BY <1>4, <2>2 DEF LlHolds
<1>5. CASE ll_pc[t] \in {"sub", "put_back"}
  <2>1. IsChain(L[t], ll_list[t], ll_next)
    BY <1>1, <1>5 DEF LlHeld
  <2>2. LlChain(ll_list[t]) = L[t]
    BY <2>1, ChainComputed DEF LlChain
  <2> QED
    BY <1>5, <2>2 DEF LlHolds, LlNodesOf
<1>6. CASE ll_pc[t] = "link_back"
  <2>1. PICK p : p = L[t]
    OBVIOUS
  <2>2. PICK c : c = LlChain(ll_list[t])
    OBVIOUS
  <2>3. IsPath(p, ll_list[t], ll_next) /\ Len(p) # 0 /\ ll_last[t] = p[Len(p)]
    BY <1>1, <1>6, <2>1 DEF LlHeld, LlFirst
  <2>4. /\ p \in Seq(Nodes) /\ Len(p) \in Nat \ {0} /\ Len(p) \in 1 .. Len(p)
        /\ \A i, j \in 1 .. Len(p) : p[i] = p[j] => i = j
    BY <2>3 DEF IsPath
  <2>5. PICK m \in Nat : DOMAIN c = 1 .. m /\ Len(p) <= m /\ \A i \in 1 .. Len(p) : c[i] = p[i]
    BY <2>2, <2>3, PathComputed DEF LlChain
  <2>6. PICK l : l = Len(p)
    OBVIOUS
  <2>7. l \in Nat \ {0} /\ l \in 1 .. l /\ l <= m /\ \A i \in 1 .. l : c[i] = p[i]
    BY <2>4, <2>5, <2>6
  <2>8. \A i \in 1 .. l : p[i] = ll_last[t] => i = l
    BY <2>3, <2>4, <2>6
  <2>9. {k \in DOMAIN c : \A j \in 1 .. k - 1 : c[j] # ll_last[t]} = 1 .. l
    <3>1. ASSUME NEW k \in 1 .. m, \A j \in 1 .. k - 1 : c[j] # ll_last[t]
          PROVE  k \in 1 .. l
      <4>1. l \notin 1 .. k - 1
        BY <2>3, <2>6, <2>7, <3>1
      <4> QED
        BY <2>7, <3>1, <4>1
    <3>2. ASSUME NEW k \in 1 .. l, NEW j \in 1 .. k - 1
          PROVE  k \in 1 .. m /\ c[j] # ll_last[t]
      <4>1. k \in 1 .. m /\ j \in 1 .. l /\ j # l
        BY <2>7, <3>2
      <4> QED
        BY <2>7, <2>8, <4>1
    <3>3. 1 .. l \subseteq 1 .. m
      BY <2>7
    <3> QED
      BY <2>5, <3>1, <3>2, <3>3
  <2>10. LlHolds(t) = {c[i] : i \in {k \in DOMAIN c : \A j \in 1 .. k - 1 : c[j] # ll_last[t]}}
    BY <1>6, <2>2 DEF LlHolds
  <2>11. NodesOf(p) = {p[i] : i \in 1 .. l}
    BY <2>4, <2>6 DEF NodesOf
  <2>12. LlHolds(t) = {c[i] : i \in 1 .. l}
    BY <2>9, <2>10
  <2>13. LlHolds(t) = NodesOf(p)
    BY <2>7, <2>11, <2>12
  <2> QED
    BY <1>6, <2>1, <2>13
<1>7. CASE ll_pc[t] \in {"idle", "new", "add", "load", "sub_one", "return"}
  <2>1. LlFirst(t) = 0
    BY <1>7 DEF LlFirst
  <2>2. NodesOf(L[t]) = {}
    BY <1>1, <2>1, LlOwnsNone
  <2> QED
    BY <1>7, <2>2 DEF LlHolds
<1> QED
  BY <1>1, <1>2, <1>3, <1>4, <1>5, <1>6, <1>7 DEF LlLabels

(* No node of ll_stack is touched after its deletion, and every node is in *)
(* the hands of exactly one, so that it is deleted once.                   *)
THEOREM LlReclaims == LlSpec => [](LlNoDeadNode /\ LlOneOwner)
<1>1. ASSUME NEW s, NEW r, NEW L, LlInv(s, r, L)
      PROVE  LlNoDeadNode /\ LlOneOwner
  <2>1. LlNodesInv(s, r, L) /\ OwnedOnce(s, r, L, ll_live) /\ LlTakersInv
    BY <1>1 DEF LlInv, LlNodesInv
  <2>2. LlNodesOf(ll_head) = NodesOf(s) /\ LlNodesOf(ll_ready) = NodesOf(r)
    BY <1>1, LlChainsAre DEF LlNodesOf
  <2>3. ASSUME NEW t \in Threads
        PROVE  /\ LlHolds(t) \subseteq ll_live
               /\ LlHolds(t) \ (IF ll_pc[t] = "take" THEN {ll_raw[t]} ELSE {}) = NodesOf(L[t])
    <3>1. NodesOf(L[t]) \subseteq ll_live
      BY <2>1, LlPaths
    <3>2. LlHolds(t) = IF ll_pc[t] = "take" THEN {ll_raw[t]} \ {0} ELSE NodesOf(L[t])
      BY <1>1, LlHoldsPath
    <3>3. CASE ll_pc[t] = "take"
      <4>1. ll_raw[t] \in ll_live
        BY <2>1, <3>3 DEF LlTakersInv
      <4>2. LlFirst(t) = 0
        BY <3>3 DEF LlFirst
      <4>3. NodesOf(L[t]) = {}
        BY <2>1, <4>2, LlOwnsNone
      <4> QED
        BY <3>2, <3>3, <4>1, <4>3
    <3>4. CASE ll_pc[t] # "take"
      BY <3>1, <3>2, <3>4
    <3> QED
      BY <3>3, <3>4
  <2>4. NodesOf(s) \subseteq ll_live /\ NodesOf(r) \subseteq ll_live
    BY <2>1, LlHeads
  <2>5. LlNoDeadNode
    BY <2>2, <2>3, <2>4 DEF LlNoDeadNode
  <2>6. LlOneOwner
    <3> DEFINE owned(t) == LlHolds(t) \ (IF ll_pc[t] = "take" THEN {ll_raw[t]} ELSE {})
    <3>1. ASSUME NEW t \in Threads
          PROVE  owned(t) = NodesOf(L[t])
      <4>1. LlHolds(t) \ (IF ll_pc[t] = "take" THEN {ll_raw[t]} ELSE {}) = NodesOf(L[t])
        BY <2>3
      <4> QED
        BY <4>1 DEF owned
    <3>2. UNION {owned(t) : t \in Threads} = UNION {NodesOf(L[t]) : t \in Threads}
      BY <3>1
    <3> HIDE DEF owned
    <3>3. /\ NodesOf(s) \cap NodesOf(r) = {}
          /\ \A t \in Threads :
               /\ owned(t) \cap (NodesOf(s) \cup NodesOf(r)) = {}
               /\ \A u \in Threads \ {t} : owned(t) \cap owned(u) = {}
          /\ ll_live = NodesOf(s) \cup NodesOf(r) \cup UNION {owned(t) : t \in Threads}
      BY <2>1, <3>1, <3>2 DEF OwnedOnce
    <3> QED
      BY <2>2, <3>3 DEF LlOneOwner, owned
  <2> QED
    BY <2>5, <2>6
<1>2. (\E s, r, L : LlInv(s, r, L)) => LlNoDeadNode /\ LlOneOwner
  BY <1>1
<1> QED
  BY <1>2, LlInvariance, PTL

(* A step of ll_stack is one of LifoStack, or changes nothing there.       *)
LEMMA LlStepIsLifo ==
  ASSUME NEW s, NEW r, NEW L, LlInv(s, r, L), NEW t \in Threads, LlCall(t) \/ LlRun(t)
  PROVE  [LlLifo!Next]_(LlLifo!vars)
<1> DEFINE S == DataOf(LlChain(ll_head), ll_data)
<1>1. PICK x : x = LlStackAfter(s, t)
  OBVIOUS
<1>2. PICK y, M : LlInv(x, y, M)'
  BY <1>1, LlStepKept
<1>3. S = DataOf(s, ll_data) /\ S' = DataOf(x, ll_data')
  <2>1. LlChain(ll_head) = s /\ LlChain(ll_head)' = x
    BY <1>2, LlChainsAre, LlChainThen
  <2> QED
    BY <2>1
<1>4. s \in Seq(Nodes) /\ LlTypeOK /\ LlCallInv /\ LlNodesInv(s, r, L)
  BY DEF LlInv, LlNodesInv, IsChain
<1>5. /\ ll_pc[t] = "idle" => ll_call[t] = LlIdle
      /\ ll_pc[t] \in {"new", "push"} => ll_call[t].op = "push" /\ ll_ret[t] = LlNoRet
      /\ ll_pc[t] \in {"load", "take"} => ll_call[t].op = "pull" /\ ll_ret[t] = LlNoRet
      /\ ll_pc[t] = "return" => ll_call[t] # LlIdle /\ ll_ret[t] # LlNoRet
  BY <1>4 DEF LlCallInv
<1> HIDE DEF S
<1>6. ASSUME x = s, \A n \in NodesOf(s) : ll_data'[n] = ll_data[n]
      PROVE  S' = S
  BY <1>3, <1>4, <1>6, DataSame
<1> USE DEF Move
<1>7. ASSUME ~(LlPush(t) \/ LlTake(t))
      PROVE  S' = S
  <2>1. x = s
    BY <1>1, <1>7 DEF LlStackAfter, LlRun, LlCall, LlReturn, LlNew, LlAdd, LlLoad, LlSwap, LlAlone,
                      LlDelete, LlSub, LlPend, LlLink, LlSubOne
  <2>2. CASE LlNew(t)
    BY <1>6, <2>1, <2>2, LlNewStep
  <2>3. CASE LlDelete(t) \/ LlPend(t) \/ LlLink(t)
    <3>1. ll_data' = ll_data
      BY <2>3 DEF LlDelete, LlPend, LlLink, llHeap
    <3> QED
      BY <1>6, <2>1, <3>1
  <2>4. CASE \/ LlCall(t) \/ LlReturn(t) \/ LlAdd(t) \/ LlLoad(t) \/ LlSwap(t) \/ LlAlone(t) \/ LlSubOne(t)
             \/ LlSub(t) /\ ll_ths # 1
    BY <1>6, <2>1, <2>4, LlQuietSteps
  <2>5. CASE LlSub(t) /\ ll_ths = 1
    BY <1>6, <2>1, <2>5, LlSubStep
  <2> QED
    BY <1>7, <2>2, <2>3, <2>4, <2>5 DEF LlRun
<1>8. ASSUME S' = S, UNCHANGED <<ll_call, ll_ret>>
      PROVE  UNCHANGED LlLifo!vars
  BY <1>8 DEF LlLifo!vars, S
<1>9. CASE LlCall(t)
  <2>1. S' = S
    BY <1>7, <1>9 DEF LlCall, LlPush, LlTake
  <2>2. LlLifo!Call(t)
    BY <1>5, <1>9, <2>1 DEF LlLifo!Call, LlLifo!Idle, LlCall, LlIdle, S
  <2> QED
    BY <2>2 DEF LlLifo!Next
<1>10. CASE LlReturn(t)
  <2>1. S' = S
    BY <1>7, <1>10 DEF LlReturn, LlPush, LlTake
  <2>2. LlLifo!Return(t)
    BY <1>5, <1>10, <2>1 DEF LlLifo!Return, LlLifo!Idle, LlLifo!NoRet, LlReturn, LlIdle, LlNoRet, S
  <2> QED
    BY <2>2 DEF LlLifo!Next
<1>11. CASE LlNew(t) \/ LlAdd(t) \/ LlSwap(t) \/ LlAlone(t) \/ LlDelete(t) \/ LlSub(t) \/ LlPend(t) \/ LlLink(t)
            \/ LlSubOne(t)
  <2>1. UNCHANGED <<ll_call, ll_ret>> /\ ~(LlPush(t) \/ LlTake(t))
    BY <1>11 DEF LlNew, LlAdd, LlSwap, LlAlone, LlDelete, LlSub, LlPend, LlLink, LlSubOne, LlPush, LlTake
  <2> QED
    BY <1>7, <1>8, <2>1
<1>12. CASE LlLoad(t)
  <2>1. ll_pc[t] = "load" /\ ll_call' = ll_call /\ ~(LlPush(t) \/ LlTake(t))
    BY <1>12 DEF LlLoad, LlPush, LlTake
  <2>2. S' = S
    BY <1>7, <2>1
  <2>3. CASE ll_head # 0
    BY <1>8, <1>12, <2>1, <2>2, <2>3 DEF LlLoad
  <2>4. CASE ll_head = 0
    <3>1. ll_ret' = [ll_ret EXCEPT ![t] = LlLifo!Result("empty", Null)]
      BY <1>12, <2>4 DEF LlLoad, LlResult, LlLifo!Result
    <3>2. S = << >>
      <4>1. s = << >>
        BY <1>4, <2>4, ChainNodes DEF LlNodesInv
      <4> QED
        BY <1>3, <4>1 DEF DataOf
    <3>3. LlLifo!PullEmpty(t)
      BY <1>5, <2>1, <2>2, <3>1, <3>2
         DEF LlLifo!PullEmpty, LlLifo!Pending, LlLifo!TakesEffect, LlLifo!NoRet, LlNoRet, S
    <3> QED
      BY <3>3 DEF LlLifo!Next
  <2> QED
    BY <2>3, <2>4
<1>13. CASE LlPush(t)
  <2>1. /\ ll_pc[t] = "push" /\ ll_call' = ll_call
        /\ ll_ret' = [ll_ret EXCEPT ![t] = LlLifo!Result("success", Null)]
    BY <1>13 DEF LlPush, LlResult, LlLifo!Result
  <2>2. x = <<ll_raw[t]>> \o s
    BY <1>1, <2>1 DEF LlStackAfter
  <2>3. ll_raw[t] \in Nodes /\ ll_data[ll_raw[t]] = ll_call[t].arg /\ ll_data' = ll_data
    BY <1>13, <2>2, LlPushStep
  <2>4. S' = <<ll_call[t].arg>> \o S
    BY <1>3, <1>4, <2>2, <2>3, DataPushed
  <2>5. LlLifo!Push(t)
    BY <1>5, <2>1, <2>4 DEF LlLifo!Push, LlLifo!Pending, LlLifo!TakesEffect, LlLifo!NoRet, LlNoRet, S
  <2> QED
    BY <2>5 DEF LlLifo!Next
<1>14. CASE LlTake(t)
  <2>1. ll_pc[t] = "take" /\ ll_call' = ll_call
    BY <1>14 DEF LlTake
  <2>2. x = Tail(s)
    BY <1>1, <2>1 DEF LlStackAfter
  <2>3. s # << >> /\ ll_raw[t] = Head(s) /\ ll_data' = ll_data
    BY <1>14, <2>2, LlTakeStep
  <2>4. S # << >> /\ Head(S) = ll_data[ll_raw[t]] /\ S' = Tail(S)
    BY <1>3, <1>4, <2>2, <2>3, DataTaken
  <2>5. ll_ret' = [ll_ret EXCEPT ![t] = LlLifo!Result("success", Head(S))]
    BY <1>14, <2>4 DEF LlTake, LlResult, LlLifo!Result
  <2>6. ll_ret'[t] # LlNoRet
    BY <1>4, <2>5 DEF LlLifo!Result, LlNoRet, LlCallInv
  <2>7. LlLifo!Pull(t)
    BY <1>5, <2>1, <2>4, <2>5, <2>6
       DEF LlLifo!Pull, LlLifo!Pending, LlLifo!TakesEffect, LlLifo!NoRet, LlNoRet, S
  <2> QED
    BY <2>7 DEF LlLifo!Next
<1> QED
  BY <1>9, <1>10, <1>11, <1>12, <1>13, <1>14 DEF LlRun

(* ll_stack implements the stack that LifoStack describes, as long as no   *)
(* thread follows a null pointer.                                          *)
THEOREM LlIsLifo == LlSpec => LlImplementsLifo
<1>1. LlInit => LlLifo!Init
  <2> SUFFICES ASSUME LlInit
               PROVE  LlLifo!Init
    OBVIOUS
  <2>1. ll_head = 0 /\ IsChain(<< >>, 0, ll_next)
    BY EmptyPath DEF LlInit
  <2>2. LlChain(ll_head) = << >>
    BY <2>1, ChainComputed DEF LlChain
  <2>3. DataOf(LlChain(ll_head), ll_data) = << >>
    BY <2>2 DEF DataOf
  <2> QED
    BY <2>3 DEF LlLifo!Init, LlLifo!Idle, LlLifo!NoRet, LlInit, LlIdle, LlNoRet
<1>2. (\E s, r, L : LlInv(s, r, L)) /\ [LlNext]_llVars => [LlLifo!Next]_(LlLifo!vars)
  <2> SUFFICES ASSUME NEW s, NEW r, NEW L, LlInv(s, r, L), [LlNext]_llVars
               PROVE  [LlLifo!Next]_(LlLifo!vars)
    OBVIOUS
  <2>1. CASE LlNext
    BY <2>1, LlStepIsLifo DEF LlNext
  <2>2. CASE UNCHANGED llVars
    BY <2>2 DEF llVars, llHeap, LlLifo!vars, LlChain
  <2> QED
    BY <2>1, <2>2
<1> QED
  BY <1>1, <1>2, LlInvariance, PTL DEF LlSpec, LlImplementsLifo, LlLifo!Spec

-----------------------------------------------------------------------------
(* hl_queue: the inductive invariant *)

(* The steps of the calls, in the order of HlQueue.                       *)
HqLabels == {"idle", "p_new", "p_count", "p_data", "p_link", "p_help", "p_renew", "p_tail", "p_done",
             "h_count", "h_tail", "h_next", "h_cas", "h_data", "h_done", "d_head",
             "normal", "ends_load", "ends_cas", "ends_again"}

(* The labels at which a thread is counted in on the node of its __old.    *)
HqHolding == {"p_data", "p_link", "p_help", "p_renew", "p_tail", "h_tail", "h_next", "h_cas",
              "h_data", "normal", "ends_load", "ends_cas"}

(* Thread t is counted in on a node; those counted in on node n.           *)
HqHolds(t) == hq_pc[t] \in HqHolding
HqUsers(n) == {t \in Threads : HqHolds(t) /\ hq_old[t].ptr = n}

(* The nodes that are allocated, with the one that the destructor deletes. *)
HqKept == IF hq_life = "gone" THEN hq_live \cup {hq_head.ptr} ELSE hq_live

(* Where the nodes lead.                                                   *)
HqNextPtrs == [n \in Nodes |-> hq_next[n].ptr]

(* A push() has its element until it claims a node for it, and a node that *)
(* is ready until it links that.                                           *)
HqPushing(t) == hq_pc[t] \in {"p_new", "p_count", "p_data", "p_link", "p_help"}
                \/ hq_then[t] \in {"p_count", "p_done"}
HqClaimed(t) == hq_pc[t] = "p_link" \/ hq_then[t] = "p_done"
HqReady(t) == hq_pc[t] \in {"p_count", "p_data", "p_link", "p_help"}
              \/ (hq_then[t] = "p_count" /\ hq_pc[t] # "p_renew")

(* Thread t moved the head, or the tail, and gives up the count of it.     *)
HqLeavesHead(t) ==
  hq_pc[t] = "h_data" \/ (hq_pc[t] \in {"ends_load", "ends_cas"} /\ hq_then[t] = "h_done")
HqLeavesTail(t) == hq_pc[t] \in {"ends_load", "ends_cas"} /\ hq_then[t] # "h_done"

(* The count of a node that nobody has counts on any more.                 *)
Zero == [internal |-> 0, external |-> 0]

(* Thread t was the last on its node, and is to delete it.                 *)
HqLast(t) == hq_pc[t] = "ends_again" /\ EndLeft(hq_curr[t], hq_old[t].count) = Zero

(* Where a thread is in its call, and in a release.                        *)
HqFlow(t) ==
  /\ hq_pc[t] \in {"idle", "p_new", "d_head"} => hq_then[t] = "idle"
  /\ hq_pc[t] \in {"p_count", "p_data", "p_link", "p_help"} => hq_then[t] \in {"idle", "p_count"}
  /\ hq_pc[t] = "p_renew" => hq_then[t] = "p_count"
  /\ hq_pc[t] = "p_tail" => hq_then[t] \in {"p_count", "p_done"}
  /\ hq_pc[t] = "p_done" => hq_then[t] = "p_done"
  /\ hq_pc[t] \in {"h_count", "h_tail", "h_next", "h_cas"} => hq_then[t] \in {"idle", "h_count"}
  /\ hq_pc[t] \in {"h_data", "h_done"} => hq_then[t] = "h_done"
  /\ hq_pc[t] = "normal" => hq_then[t] \in {"p_count", "p_done", "h_count", "h_done"}
  /\ hq_pc[t] \in {"ends_load", "ends_cas", "ends_again"} => hq_then[t] \in {"p_count", "p_done", "h_done"}
  /\ hq_new[t] # 0 <=> HqReady(t)

(* Every thread is where its call leads, and the destructor runs alone.    *)
HqFlowInv ==
  /\ hq_pc \in [Threads -> HqLabels] /\ hq_then \in [Threads -> HqLabels]
  /\ \A t \in Threads : HqFlow(t)
  /\ \A t \in Threads : hq_pc[t] = "d_head" => hq_life # "alive"
  /\ hq_life = "gone" => \A t \in Threads : hq_pc[t] = "idle"
  /\ hq_life # "alive" => \A t, u \in Threads : hq_pc[t] # "idle" /\ hq_pc[u] # "idle" => t = u

(* The queue is the chain c.  The tail is the last node or the one before  *)
(* it, and every node but the last has been given its element.             *)
HqListInv(c) ==
  /\ IsChain(c, hq_head.ptr, HqNextPtrs)
  /\ NodesOf(c) \subseteq HqKept
  /\ hq_tail.ptr \in NodesOf(c)
  /\ \A m \in Nodes : hq_next[hq_tail.ptr].ptr = m => hq_next[m].ptr = 0
  /\ \A n \in NodesOf(c) : hq_next[n].ptr # 0 => hq_data[n] # Null
  /\ \A n \in Nodes : hq_next[n].count = 0

(* The node that thread t has ready is its own: not in the chain c, not    *)
(* another's, and none is counted in on it.                                *)
HqOwn(t, c, H, T) ==
  hq_new[t] # 0 =>
    /\ hq_new[t] \in HqKept /\ hq_new[t] \notin NodesOf(c)
    /\ \A u \in Threads : hq_new[u] = hq_new[t] => u = t
    /\ \A u \in Threads : HqHolds(u) => hq_old[u].ptr # hq_new[t]
    /\ hq_next[hq_new[t]].ptr = 0 /\ hq_data[hq_new[t]] = Null
    /\ H[hq_new[t]] = 0 /\ T[hq_new[t]] = 0

(* What thread t knows of the node n on which it is counted in.            *)
HqKnows(t, n, c) ==
  /\ n \in HqKept
  /\ hq_pc[t] \in {"p_data", "p_link", "p_help", "p_renew", "p_tail"} =>
       (hq_next[n].ptr = 0 => n = hq_tail.ptr)
  /\ hq_pc[t] \in {"p_renew", "p_tail"} => hq_next[n].ptr # 0 /\ hq_to[t] = hq_next[n]
  /\ hq_pc[t] \in {"p_link", "p_help"} => (n \in NodesOf(c) => hq_data[n] # Null)
  /\ hq_pc[t] \in {"h_tail", "h_next", "h_cas"} => (n \in NodesOf(c) => n = hq_head.ptr)
  /\ hq_pc[t] \in {"h_next", "h_cas"} => (n = hq_head.ptr => n # hq_tail.ptr)
  /\ hq_pc[t] = "h_cas" => (n = hq_head.ptr => hq_to[t] = hq_next[n])
  /\ hq_pc[t] = "h_data" => hq_data[n] # Null

(* A thread that moved the head or the tail from node n is the only one    *)
(* that gives up that count of it.                                         *)
HqLeaves(t, n, c, H, T) ==
  /\ HqLeavesHead(t) =>
       /\ n \notin NodesOf(c) /\ H[n] = hq_old[t].count
       /\ \A u \in Threads : HqLeavesHead(u) /\ hq_old[u].ptr = n => u = t
  /\ HqLeavesTail(t) =>
       /\ n # hq_tail.ptr /\ n # hq_next[hq_tail.ptr].ptr /\ T[n] = hq_old[t].count
       /\ \A u \in Threads : HqLeavesTail(u) /\ hq_old[u].ptr = n => u = t
  /\ hq_pc[t] = "ends_cas" =>
       /\ hq_curr[t].external \in {1, 2}
       /\ hq_curr[t].external = 1 =>
            hq_count[n].external = 1 /\ hq_count[n].internal <= hq_curr[t].internal
  /\ HqLast(t) =>
       /\ n \in HqKept /\ hq_count[n] = Zero
       /\ \A u \in Threads : HqLast(u) /\ hq_old[u].ptr = n => u = t

(* What the threads have of their own, know and give up.                   *)
HqThreadsInv(c, H, T) ==
  \A t \in Threads :
    /\ HqOwn(t, c, H, T)
    /\ HqHolds(t) => HqKnows(t, hq_old[t].ptr, c)
    /\ HqLeaves(t, hq_old[t].ptr, c, H, T)

(* An end that is not done with a node has x >= 0 as its count of it; one  *)
(* that is has none.                                                       *)
Ends(x) == IF x >= 0 THEN 1 ELSE 0
AtEnd(x) == IF x >= 0 THEN x ELSE 0

(* The counts of node n, x from the head and y from the tail: every end    *)
(* that is not done has its external count there, and unless some other    *)
(* was never given back, the counts make the number of users.              *)
HqCounts(n, x, y) ==
  /\ hq_count[n].external >= Ends(x) + Ends(y) /\ hq_count[n].external <= 2
  /\ hq_count[n].external = Ends(x) + Ends(y) =>
       Cardinality(HqUsers(n)) = hq_count[n].internal + AtEnd(x) + AtEnd(y)

(* H and T are the external counts of the nodes at the head and the tail:  *)
(* the current one where it is, 0 ahead of it, and behind it what is still *)
(* to be given back, or -1.                                                *)
HqCountInv(c, H, T) ==
  /\ H[hq_head.ptr] = hq_head.count
  /\ \A n \in NodesOf(c) : n # hq_head.ptr => H[n] = 0
  /\ T[hq_tail.ptr] = hq_tail.count
  /\ \A m \in Nodes : hq_next[hq_tail.ptr].ptr = m => T[m] = 0
  /\ \A n \in HqKept : HqCounts(n, H[n], T[n])

(* The elements that a push() has put in a node.                           *)
HqKnown == hq_pushed \cup {hq_arg[u] : u \in {t \in Threads : HqClaimed(t)}}

(* An element is in the hands of the one push() that has not claimed a     *)
(* node for it, or in one node, or in the hands of one pull(), or          *)
(* delivered.                                                              *)
HqElemInv ==
  /\ \A t \in Threads : HqPushing(t) =>
       /\ hq_arg[t] \in Values \ hq_pushed
       /\ \A u \in Threads : HqPushing(u) /\ hq_arg[u] = hq_arg[t] => u = t
  /\ \A t \in Threads : ~HqPushing(t) /\ (hq_then[t] # "h_done" \/ hq_pc[t] = "h_data") => hq_arg[t] = Null
  /\ \A n \in HqKept : hq_data[n] # Null =>
       /\ hq_data[n] \in HqKnown \ hq_pulled
       /\ \A m \in HqKept : hq_data[m] = hq_data[n] => m = n
       /\ \A t \in Threads : hq_then[t] = "h_done" => hq_arg[t] # hq_data[n]
  /\ \A t \in Threads : hq_then[t] = "h_done" /\ hq_arg[t] # Null =>
       /\ hq_arg[t] \in HqKnown \ hq_pulled
       /\ \A u \in Threads : hq_then[u] = "h_done" /\ hq_arg[u] = hq_arg[t] => u = t
  /\ hq_pulled \subseteq HqKnown

(* The inductive invariant, for the chain c and the two ends' counts H, T. *)
HqInv(c, H, T) ==
  /\ HqTypeOK /\ H \in [Nodes -> Int] /\ T \in [Nodes -> Int]
  /\ HqFlowInv /\ HqListInv(c) /\ HqThreadsInv(c, H, T) /\ HqCountInv(c, H, T)
  /\ HqElemInv

-----------------------------------------------------------------------------
(* hl_queue: types, and where the calls are *)

(* What a step of thread t leaves alone.                                   *)
HqAlone(t) ==
  \A u \in Threads \ {t} :
    /\ hq_pc'[u] = hq_pc[u] /\ hq_then'[u] = hq_then[u]
    /\ hq_old'[u] = hq_old[u] /\ hq_new'[u] = hq_new[u] /\ hq_to'[u] = hq_to[u]
    /\ hq_curr'[u] = hq_curr[u] /\ hq_arg'[u] = hq_arg[u]

(* A step of one thread is not a step of another.                          *)
LEMMA HqStepAlone ==
  ASSUME HqTypeOK, HqFlowInv, NEW t \in Threads, HqCall(t) \/ HqRun(t)
  PROVE  HqAlone(t)
<1> USE DEF Move, HqAlone, HqFlowInv, HqTypeOK, hqLocals, hqHistory
<1>1. CASE HqCall(t)
  BY <1>1 DEF HqCall, HqPushCall, HqPullCall
<1>2. CASE HqNewNode(t) \/ HqPushCount(t) \/ HqClaim(t)
  BY <1>2 DEF HqNewNode, HqPushCount, HqClaim
<1>3. CASE HqLink(t)
  BY <1>3 DEF HqLink
<1>4. CASE HqHelp(t)
  BY <1>4 DEF HqHelp
<1>5. CASE HqSetTail(t) \/ HqPullCount(t) \/ HqPullTail(t)
  BY <1>5 DEF HqSetTail, HqPullCount, HqPullTail
<1>6. CASE HqPushReturns(t) \/ HqPullReturns(t)
  BY <1>6 DEF HqPushReturns, HqPullReturns, HqReturn
<1>7. CASE HqPullNext(t) \/ HqPullCas(t) \/ HqPullData(t)
  BY <1>7 DEF HqPullNext, HqPullCas, HqPullData
<1>8. CASE HqNormal(t) \/ HqEndsLoad(t) \/ HqEndsCas(t)
  BY <1>8 DEF HqNormal, HqEndsLoad, HqEndsCas
<1>9. CASE HqDestroy(t) \/ HqDeleteHead(t)
  BY <1>9 DEF HqDestroy, HqDeleteHead
<1> QED
  BY <1>1, <1>2, <1>3, <1>4, <1>5, <1>6, <1>7, <1>8, <1>9 DEF HqRun, HqAccess

(* What an end leaves of a count, two bits wide.                           *)
LEMMA EndLeftIs ==
  ASSUME NEW curr \in HqCounters, NEW held \in Int
  PROVE  /\ EndLeft(curr, held) \in HqCounters
         /\ EndLeft(curr, held).internal = curr.internal + held - 1
         /\ curr.external # 0 => EndLeft(curr, held).external = curr.external - 1
         /\ curr.external # 0 /\ curr.external # 1 => EndLeft(curr, held) # Zero
<1>1. \A x \in 0 .. 3 : (x - 1) % 4 \in 0 .. 3 /\ (x # 0 => (x - 1) % 4 = x - 1)
  OBVIOUS
<1>2. curr.external \in 0 .. 3 /\ curr.internal \in Int
  BY DEF HqCounters
<1> QED
  BY <1>1, <1>2 DEF EndLeft, HqCounters, Zero

(* The compare-and-swap on a node that was given up fails, as long as no   *)
(* new node has its address.                                               *)
LEMMA HqAgainFails ==
  ASSUME HqTypeOK, ~HqReused, NEW t \in Threads, HqEndsCas(t), hq_pc[t] = "ends_again"
  PROVE  hq_count[hq_old[t].ptr] # hq_curr[t]
<1>1. hq_curr[t].external \in 0 .. 3
  BY DEF HqTypeOK, HqCounters
<1> QED
  BY <1>1 DEF HqReused

(* Every variable keeps its type.                                          *)
LEMMA HqTypesKept ==
  ASSUME HqTypeOK, HqFlowInv, HqElemInv, ~HqReused, NEW t \in Threads, HqCall(t) \/ HqRun(t),
         HqHolds(t) => hq_old[t].ptr \in Nodes
  PROVE  HqTypeOK'
<1> USE DEF Move, hqLocals, hqHistory, hqHeap
<1> DEFINE Types ==
      /\ hq_head \in HqPtrs /\ hq_tail \in HqPtrs
      /\ hq_data \in [Nodes -> Values \cup {Null}]
      /\ hq_next \in [Nodes -> HqPtrs] /\ hq_count \in [Nodes -> HqCounters]
      /\ hq_live \subseteq Nodes
      /\ hq_old \in [Threads -> HqPtrs] /\ hq_to \in [Threads -> HqPtrs]
      /\ hq_new \in [Threads -> Nodes \cup {0}] /\ hq_curr \in [Threads -> HqCounters]
      /\ hq_arg \in [Threads -> Values \cup {Null}] /\ hq_pushed \subseteq Values
<1>0. Types /\ HqNull \in HqPtrs /\ Fresh \in HqCounters
  BY DEF HqTypeOK, HqNull, HqPtr, HqPtrs, Fresh, HqCounters
<1>1. Types'
  <2>1. CASE HqCall(t) \/ HqDestroy(t) \/ HqDeleteHead(t)
    BY <1>0, <2>1 DEF HqCall, HqPushCall, HqPullCall, HqDestroy, HqDeleteHead
  <2>2. CASE HqNewNode(t)
    BY <1>0, <2>2 DEF HqNewNode
  <2>3. CASE HqPushCount(t) \/ HqPullCount(t)
    <3>1. HqPtr(hq_tail.count + 1, hq_tail.ptr) \in HqPtrs /\ HqPtr(hq_head.count + 1, hq_head.ptr) \in HqPtrs
      BY <1>0 DEF HqPtrs, HqPtr
    <3> QED
      BY <1>0, <2>3, <3>1 DEF HqPushCount, HqPullCount
  <2>4. CASE HqClaim(t) \/ HqSetTail(t)
    BY <1>0, <2>4 DEF HqClaim, HqSetTail
  <2>5. CASE HqLink(t) \/ HqHelp(t)
    <3>1. hq_old[t].ptr \in Nodes
      BY <2>5 DEF HqLink, HqHelp, HqHolds, HqHolding
    <3>2. HqPtr(0, hq_new[t]) \in HqPtrs
      BY <1>0 DEF HqPtr, HqPtrs
    <3> QED
      BY <1>0, <2>5, <3>1, <3>2 DEF HqLink, HqHelp
  <2>6. CASE HqPushReturns(t)
    <3>1. hq_then[t] = "p_done" /\ hq_arg[t] \in Values
      BY <2>6 DEF HqPushReturns, HqFlowInv, HqFlow, HqElemInv, HqPushing
    <3> QED
      BY <1>0, <2>6, <3>1 DEF HqPushReturns, HqReturn
  <2>7. CASE HqPullReturns(t)
    BY <1>0, <2>7 DEF HqPullReturns, HqReturn
  <2>8. CASE HqPullTail(t) \/ HqPullNext(t) \/ HqPullCas(t)
    <3>1. hq_pc[t] = "h_next" => hq_old[t].ptr \in Nodes
      BY DEF HqHolds, HqHolding
    <3> QED
      BY <1>0, <2>8, <3>1 DEF HqPullTail, HqPullNext, HqPullCas
  <2>9. CASE HqPullData(t) \/ HqEndsLoad(t)
    <3>1. hq_old[t].ptr \in Nodes
      BY <2>9 DEF HqPullData, HqEndsLoad, HqHolds, HqHolding
    <3> QED
      BY <1>0, <2>9, <3>1 DEF HqPullData, HqEndsLoad
  <2>10. CASE HqNormal(t)
    <3>1. hq_old[t].ptr \in Nodes
      BY <2>10 DEF HqNormal, HqHolds, HqHolding
    <3>2. [hq_count[hq_old[t].ptr] EXCEPT !.internal = @ - 1] \in HqCounters
      <4>1. hq_count[hq_old[t].ptr] \in HqCounters
        BY <1>0, <3>1
      <4> QED
        BY ONLY <4>1 DEF HqCounters
    <3> QED
      BY <1>0, <2>10, <3>1, <3>2 DEF HqNormal
  <2>11. CASE HqEndsCas(t)
    <3>1. hq_curr[t] \in HqCounters /\ hq_old[t].count \in Int
      BY <1>0 DEF HqPtrs
    <3>2. EndLeft(hq_curr[t], hq_old[t].count) \in HqCounters
      BY <3>1, EndLeftIs
    <3>3. hq_count' = hq_count \/ hq_old[t].ptr \in Nodes
      BY <2>11, HqAgainFails DEF HqEndsCas, HqHolds, HqHolding
    <3> QED
      BY <1>0, <2>11, <3>2, <3>3 DEF HqEndsCas
  <2> QED
    BY <2>1, <2>2, <2>3, <2>4, <2>5, <2>6, <2>7, <2>8, <2>9, <2>10, <2>11 DEF HqRun, HqAccess
<1> HIDE DEF Types
<1>2. hq_pulled' \subseteq hq_pushed' \cup {hq_arg[u] : u \in Threads}'
  <2>1. hq_pulled \subseteq HqKnown /\ HqAlone(t) /\ hq_arg \in [Threads -> Values \cup {Null}]
    BY HqStepAlone DEF HqElemInv, HqTypeOK
  <2>2. ASSUME ~HqClaimed(t) \/ hq_arg'[t] = hq_arg[t] \/ hq_arg[t] \in hq_pushed',
               hq_pushed \subseteq hq_pushed', NEW v \in HqKnown
        PROVE  v \in hq_pushed' \cup {hq_arg[u] : u \in Threads}'
    <3>1. CASE v \in hq_pushed
      BY <2>2, <3>1
    <3>2. CASE v \notin hq_pushed
      <4>1. PICK u \in Threads : HqClaimed(u) /\ hq_arg[u] = v
        BY <2>2, <3>2 DEF HqKnown
      <4>2. hq_arg'[u] = v \/ v \in hq_pushed'
        BY <2>1, <2>2, <4>1 DEF HqAlone
      <4> QED
        BY <4>2
    <3> QED
      BY <3>1, <3>2
  <2>3. /\ ~HqClaimed(t) \/ hq_arg'[t] = hq_arg[t] \/ hq_arg[t] \in hq_pushed'
        /\ hq_pushed \subseteq hq_pushed'
    <3>1. CASE HqPushReturns(t)
      BY <3>1 DEF HqPushReturns
    <3>2. CASE HqCall(t) \/ HqPullData(t) \/ HqPullReturns(t)
      BY <3>2 DEF HqCall, HqPushCall, HqPullCall, HqPullData, HqPullReturns, HqClaimed, HqFlowInv, HqFlow
    <3>3. CASE HqNewNode(t) \/ HqPushCount(t) \/ HqClaim(t) \/ HqLink(t) \/ HqHelp(t) \/ HqSetTail(t)
      BY <3>3 DEF HqNewNode, HqPushCount, HqClaim, HqLink, HqHelp, HqSetTail
    <3>4. CASE HqPullCount(t) \/ HqPullTail(t) \/ HqPullNext(t) \/ HqPullCas(t) \/ HqNormal(t)
               \/ HqEndsLoad(t) \/ HqEndsCas(t) \/ HqDestroy(t) \/ HqDeleteHead(t)
      BY <3>4 DEF HqPullCount, HqPullTail, HqPullNext, HqPullCas, HqNormal, HqEndsLoad, HqEndsCas,
                  HqDestroy, HqDeleteHead
    <3> QED
      BY <3>1, <3>2, <3>3, <3>4 DEF HqRun, HqAccess
  <2>4. HqKnown \subseteq hq_pushed' \cup {hq_arg[u] : u \in Threads}'
    BY <2>2, <2>3
  <2>5. hq_pulled' = hq_pulled \/ (HqPullReturns(t) /\ hq_pulled' = hq_pulled \cup ({hq_arg[t]} \ {Null}))
    BY DEF HqRun, HqAccess, HqCall, HqPushCall, HqPullCall, HqDestroy, HqDeleteHead, HqNewNode, HqPushCount,
       HqClaim, HqLink, HqHelp, HqSetTail, HqPushReturns, HqPullCount, HqPullTail, HqPullNext, HqPullCas,
       HqPullData, HqPullReturns, HqNormal, HqEndsLoad, HqEndsCas
  <2>6. HqPullReturns(t) => hq_arg[t] \in HqKnown \cup {Null}
    BY DEF HqPullReturns, HqFlowInv, HqFlow, HqElemInv
  <2> QED
    BY <2>1, <2>4, <2>5, <2>6
<1>3. hq_life' \in {"alive", "dying", "gone"}
  BY DEF HqTypeOK, HqRun, HqCall, HqDestroy, HqDeleteHead
<1> QED
  BY <1>1, <1>2, <1>3 DEF HqTypeOK, Types

(* Where the calls are.                                                    *)
LEMMA HqFlowKept ==
  ASSUME HqTypeOK, HqFlowInv, NEW t \in Threads, HqCall(t) \/ HqRun(t)
  PROVE  HqFlowInv'
<1> USE DEF Move
<1>1. HqAlone(t)
  BY HqStepAlone
<1>2. \A u \in Threads \ {t} : HqFlow(u)'
  BY <1>1 DEF HqAlone, HqFlowInv, HqFlow, HqReady
<1>3. hq_pc' \in [Threads -> HqLabels] /\ hq_then' \in [Threads -> HqLabels] /\ HqFlow(t)'
  <2> USE DEF HqFlowInv, HqLabels, HqFlow, HqReady, hqLocals, hqHistory
  <2>1. CASE HqCall(t)
    BY <2>1 DEF HqCall, HqPushCall, HqPullCall
  <2>2. CASE HqNewNode(t)
    BY <2>2, NodesAssumption DEF HqNewNode, HqTypeOK
  <2>3. CASE HqPushCount(t) \/ HqClaim(t)
    BY <2>3 DEF HqPushCount, HqClaim
  <2>4. CASE HqLink(t)
    BY <2>4 DEF HqLink, HqTypeOK
  <2>5. CASE HqHelp(t)
    BY <2>5 DEF HqHelp, HqTypeOK
  <2>6. CASE HqSetTail(t) \/ HqPullCount(t)
    BY <2>6 DEF HqSetTail, HqPullCount
  <2>7. CASE HqPushReturns(t)
    BY <2>7 DEF HqPushReturns, HqReturn, HqTypeOK
  <2>8. CASE HqPullReturns(t)
    BY <2>8 DEF HqPullReturns, HqReturn, HqTypeOK
  <2>9. CASE HqPullTail(t) \/ HqPullNext(t)
    BY <2>9 DEF HqPullTail, HqPullNext
  <2>10. CASE HqPullCas(t) \/ HqPullData(t)
    BY <2>10 DEF HqPullCas, HqPullData
  <2>11. CASE HqNormal(t) \/ HqEndsLoad(t)
    BY <2>11 DEF HqNormal, HqEndsLoad
  <2>12. CASE HqEndsCas(t)
    BY <2>12 DEF HqEndsCas
  <2>13. CASE HqDestroy(t) \/ HqDeleteHead(t)
    BY <2>13 DEF HqDestroy, HqDeleteHead
  <2> QED
    BY <2>1, <2>2, <2>3, <2>4, <2>5, <2>6, <2>7, <2>8, <2>9, <2>10, <2>11, <2>12, <2>13 DEF HqRun, HqAccess
<1>4. /\ \A u \in Threads : hq_pc'[u] = "d_head" => hq_life' # "alive"
      /\ hq_life' = "gone" => \A u \in Threads : hq_pc'[u] = "idle"
      /\ hq_life' # "alive" => \A u, w \in Threads : hq_pc'[u] # "idle" /\ hq_pc'[w] # "idle" => u = w
  <2>1. CASE HqCall(t)
    BY <1>1, <2>1 DEF HqCall, HqPushCall, HqPullCall, HqFlowInv, HqAlone
  <2>2. CASE HqDestroy(t)
    BY <1>1, <2>2 DEF HqDestroy, HqFlowInv, HqAlone
  <2>3. CASE HqDeleteHead(t)
    <3>1. hq_life # "alive" /\ hq_life' = "gone"
      BY <2>3 DEF HqDeleteHead, HqFlowInv
    <3> QED
      BY <1>1, <2>3, <3>1 DEF HqDeleteHead, HqFlowInv, HqAlone
  <2>4. CASE HqAccess(t) /\ UNCHANGED hq_life
    <3>1. hq_pc[t] # "idle"
      BY <2>4 DEF HqAccess, HqNewNode, HqPushCount, HqClaim, HqLink, HqHelp, HqSetTail, HqPushReturns,
         HqPullCount, HqPullTail, HqPullNext, HqPullCas, HqPullData, HqPullReturns, HqNormal, HqEndsLoad, HqEndsCas
    <3>2. hq_pc'[t] = "d_head" => hq_life # "alive"
      BY <2>4 DEF HqFlowInv, HqAccess, HqNewNode, HqPushCount, HqClaim, HqLink, HqHelp, HqSetTail, HqPushReturns,
         HqPullCount, HqPullTail, HqPullNext, HqPullCas, HqPullData, HqPullReturns, HqNormal, HqEndsLoad,
         HqEndsCas, HqFlow
    <3> QED
      BY <1>1, <2>4, <3>1, <3>2 DEF HqFlowInv, HqAlone
  <2> QED
    BY <2>1, <2>2, <2>3, <2>4 DEF HqRun
<1> QED
  BY <1>2, <1>3, <1>4 DEF HqFlowInv
-----------------------------------------------------------------------------
(* hl_queue: who may do what with a node *)

(* Where the pointers of the queue lead.                                   *)
LEMMA HqPointers ==
  ASSUME NEW c, HqTypeOK, HqListInv(c)
  PROVE  /\ NodesOf(c) \subseteq Nodes /\ NodesOf(c) \subseteq HqKept
         /\ c \in Seq(Nodes) /\ c # << >>
         /\ hq_head.ptr \in NodesOf(c) /\ hq_tail.ptr \in NodesOf(c)
         /\ \A n \in NodesOf(c) : hq_next[n].ptr \in NodesOf(c) \cup {0} /\ hq_next[n].ptr # hq_head.ptr
         /\ \A n, m \in NodesOf(c) : hq_next[n].ptr = hq_next[m].ptr => n = m
         /\ \A n \in NodesOf(c) : hq_next[n].ptr # n
         /\ hq_next[hq_head.ptr].ptr = 0 => hq_tail.ptr = hq_head.ptr
         /\ 0 \notin Nodes
<1>1. /\ IsChain(c, hq_head.ptr, HqNextPtrs) /\ c \in Seq(Nodes) /\ NodesOf(c) \subseteq HqKept
      /\ hq_tail.ptr \in NodesOf(c)
  BY DEF HqListInv, IsChain
<1>2. /\ NodesOf(c) \subseteq Nodes
      /\ hq_head.ptr = 0 <=> c = << >>
      /\ hq_head.ptr # 0 => hq_head.ptr \in NodesOf(c)
      /\ \A n \in NodesOf(c) : HqNextPtrs[n] \in NodesOf(c) \cup {0}
      /\ \A n \in NodesOf(c) : HqNextPtrs[n] # hq_head.ptr \/ HqNextPtrs[n] = 0
      /\ \A n, m \in NodesOf(c) : HqNextPtrs[n] = HqNextPtrs[m] => n = m \/ HqNextPtrs[n] = 0
  BY <1>1, ChainNodes
<1>3. \A n \in NodesOf(c) : HqNextPtrs[n] = hq_next[n].ptr
  BY <1>2 DEF HqNextPtrs
<1>4. 0 \notin Nodes /\ c # << >> /\ hq_head.ptr # 0
  BY <1>1, <1>2, NodesAssumption DEF NodesOf
<1>5. PICK N \in Nat : N = Len(c) /\ DOMAIN c = 1 .. N
  BY <1>1
<1>6. /\ \A i \in 1 .. N : c[i] \in Nodes /\ HqNextPtrs[c[i]] = IF i = N THEN 0 ELSE c[i + 1]
      /\ \A i, j \in 1 .. N : c[i] = c[j] => i = j
      /\ NodesOf(c) = {c[i] : i \in 1 .. N}
  BY <1>1, <1>5 DEF IsChain, NodesOf
<1>7. ASSUME NEW i \in 1 .. N
      PROVE  /\ HqNextPtrs[c[i]] = 0 => i = N
             /\ HqNextPtrs[c[i]] # c[i]
  <2>1. CASE i = N
    BY <1>4, <1>6, <2>1
  <2>2. CASE i # N
    <3>1. i + 1 \in 1 .. N /\ i + 1 # i
      BY <1>5, <2>2
    <3> QED
      BY <1>4, <1>6, <2>2, <3>1
  <2> QED
    BY <2>1, <2>2
<1>8. \A n, m \in NodesOf(c) : HqNextPtrs[n] = 0 /\ HqNextPtrs[m] = 0 => n = m
  BY <1>6, <1>7
<1>9. \A n \in NodesOf(c) : HqNextPtrs[n] # n
  BY <1>6, <1>7
<1>10. HqNextPtrs[hq_head.ptr] = 0 => hq_tail.ptr = hq_head.ptr
  <2>1. hq_head.ptr = c[1] /\ 1 \in 1 .. N
    BY <1>1, <1>4, <1>5 DEF IsChain
  <2>2. N = 1 => \A n \in NodesOf(c) : n = c[1]
    BY <1>6
  <2> QED
    BY <1>1, <1>7, <2>1, <2>2
<1> QED
  BY <1>1, <1>2, <1>3, <1>4, <1>8, <1>9, <1>10

(* What a step leaves of a node on which another thread is counted in: it  *)
(* stays, its successor too, it does not come into the queue (C before,    *)
(* D after), and in the queue it keeps its element.                        *)
HqSpares(n, C, D) ==
  /\ n \in HqKept'
  /\ hq_next[n].ptr # 0 => hq_next'[n] = hq_next[n]
  /\ n \in D => n \in C
  /\ n \in D /\ hq_data[n] # Null => hq_data'[n] # Null

(* What the other threads know of their nodes stays true.                  *)
LEMMA HqOthersKnow ==
  ASSUME NEW c, NEW d, NEW t, HqTypeOK, HqListInv(c), HqAlone(t), NEW u \in Threads \ {t},
         HqHolds(u) => HqKnows(u, hq_old[u].ptr, c),
         HqHolds(u) => HqSpares(hq_old[u].ptr, NodesOf(c), NodesOf(d)),
         hq_pc[u] = "h_data" => hq_data'[hq_old[u].ptr] # Null,
         hq_tail'.ptr # hq_tail.ptr => hq_next[hq_tail.ptr].ptr # 0 /\ hq_tail'.ptr # hq_head'.ptr,
         hq_head'.ptr # hq_head.ptr => hq_head.ptr \notin NodesOf(d),
         hq_head'.ptr \in NodesOf(d)
  PROVE  (HqHolds(u) => HqKnows(u, hq_old[u].ptr, d))'
<1>1. /\ hq_pc'[u] = hq_pc[u] /\ hq_old'[u] = hq_old[u] /\ hq_to'[u] = hq_to[u]
      /\ HqHolds(u)' <=> HqHolds(u)
  BY DEF HqAlone, HqHolds
<1>0. PICK n : n = hq_old[u].ptr
  OBVIOUS
<1>5. SUFFICES ASSUME HqHolds(u)
               PROVE  HqKnows(u, n, d)'
  BY <1>0, <1>1 DEF HqKnows
<1>2. HqKnows(u, n, c) /\ HqSpares(n, NodesOf(c), NodesOf(d)) /\ (hq_pc[u] = "h_data" => hq_data'[n] # Null)
  BY <1>0, <1>5
<1>3. n = hq_head'.ptr /\ hq_pc[u] \in {"h_tail", "h_next", "h_cas"} => n = hq_head.ptr
  BY <1>2 DEF HqKnows, HqSpares
<1>4. hq_next[hq_head.ptr].ptr = 0 => hq_tail.ptr = hq_head.ptr
  BY HqPointers
<1> QED
  BY <1>1, <1>2, <1>3, <1>4 DEF HqKnows, HqSpares

(* The nodes that the other threads have ready stay theirs.                *)
LEMMA HqOthersOwn ==
  ASSUME NEW c, NEW d, NEW H, NEW T, NEW G, NEW K, NEW t, HqAlone(t), NEW u \in Threads \ {t},
         HqOwn(u, c, H, T),
         hq_new[u] # 0 =>
           /\ hq_new[u] \in HqKept' /\ hq_new[u] \notin NodesOf(d)
           /\ hq_new'[t] # hq_new[u]
           /\ HqHolds(t)' => hq_old'[t].ptr # hq_new[u]
           /\ hq_next'[hq_new[u]] = hq_next[hq_new[u]] /\ hq_data'[hq_new[u]] = hq_data[hq_new[u]]
           /\ G[hq_new[u]] = H[hq_new[u]] /\ K[hq_new[u]] = T[hq_new[u]]
  PROVE  HqOwn(u, d, G, K)'
<1>1. \A w \in Threads : w # t =>
        /\ hq_new'[w] = hq_new[w] /\ hq_old'[w] = hq_old[w] /\ (HqHolds(w)' <=> HqHolds(w))
  BY DEF HqAlone, HqHolds
<1> QED
  BY <1>1 DEF HqOwn

(* The users of a node when thread t has counted itself in, or out.        *)
LEMMA HqUsersThen ==
  ASSUME NEW t \in Threads, HqAlone(t), NEW n
  PROVE  /\ Cardinality(HqUsers(n)) \in Nat /\ (Cardinality(HqUsers(n)) = 0 <=> HqUsers(n) = {})
         /\ (t \in HqUsers(n) <=> t \in HqUsers(n)') => HqUsers(n)' = HqUsers(n)
         /\ t \notin HqUsers(n) /\ t \in HqUsers(n)' =>
              Cardinality(HqUsers(n))' = Cardinality(HqUsers(n)) + 1
         /\ t \in HqUsers(n) /\ t \notin HqUsers(n)' =>
              Cardinality(HqUsers(n))' = Cardinality(HqUsers(n)) - 1
         /\ t \in HqUsers(n) /\ Cardinality(HqUsers(n)) = 1 => HqUsers(n) = {t}
<1>1. PICK S, S2 : S = HqUsers(n) /\ S2 = HqUsers(n)'
  OBVIOUS
<1>2. S \subseteq Threads /\ S2 \subseteq Threads /\ \A u \in Threads \ {t} : u \in S2 <=> u \in S
  BY <1>1 DEF HqUsers, HqAlone, HqHolds
<1>3. /\ (t \in S <=> t \in S2) => S2 = S
      /\ t \notin S /\ t \in S2 => S2 = S \cup {t}
      /\ t \in S /\ t \notin S2 => S2 = S \ {t}
  BY <1>2
<1>4. /\ Cardinality(S) \in Nat /\ (Cardinality(S) = 0 <=> S = {})
      /\ t \notin S => Cardinality(S \cup {t}) = Cardinality(S) + 1
      /\ t \in S => Cardinality(S \ {t}) = Cardinality(S) - 1
  BY <1>2, ThreadSets
<1>5. t \in S /\ Cardinality(S) = 1 => S = {t}
  <2>1. S \ {t} \subseteq Threads
    BY <1>2
  <2>2. Cardinality(S \ {t}) = 0 => S \ {t} = {}
    BY <2>1, ThreadSets
  <2> QED
    BY <1>4, <2>2
<1>6. /\ Cardinality(S) \in Nat /\ (Cardinality(S) = 0 <=> S = {})
      /\ (t \in S <=> t \in S2) => S2 = S
      /\ t \notin S /\ t \in S2 => Cardinality(S2) = Cardinality(S) + 1
      /\ t \in S /\ t \notin S2 => Cardinality(S2) = Cardinality(S) - 1
  BY <1>3, <1>4
<1> QED
  BY <1>1, <1>5, <1>6

(* The counts of a node that nobody joins or leaves.                       *)
LEMMA HqCountsKept ==
  ASSUME NEW t \in Threads, HqAlone(t), NEW n, NEW x, NEW y, HqCounts(n, x, y),
         hq_count'[n] = hq_count[n], t \in HqUsers(n) <=> t \in HqUsers(n)'
  PROVE  HqCounts(n, x, y)'
<1>1. HqUsers(n)' = HqUsers(n)
  BY HqUsersThen
<1> QED
  BY <1>1 DEF HqCounts

(* What holds of the nodes.                                                *)
HqNodesInv(c, H, T) ==
  /\ H \in [Nodes -> Int] /\ T \in [Nodes -> Int]
  /\ HqListInv(c) /\ HqThreadsInv(c, H, T) /\ HqCountInv(c, H, T)

(* A node is kept as long as nobody deletes it.                            *)
LEMMA HqKeptNodes ==
  ASSUME HqTypeOK, HqFlowInv, NEW t \in Threads, hq_pc[t] # "idle", UNCHANGED hq_life
  PROVE  HqKept = hq_live /\ HqKept' = hq_live' /\ HqKept \subseteq Nodes
<1>1. hq_life # "gone"
  BY DEF HqFlowInv
<1> QED
  BY <1>1 DEF HqKept, HqTypeOK

(* A step of a thread that changes nothing but its own variables.          *)
LEMMA HqQuietStep ==
  ASSUME NEW c, NEW H, NEW T, HqTypeOK, HqNodesInv(c, H, T), NEW t \in Threads, HqAlone(t),
         UNCHANGED <<hq_head, hq_tail, hq_data, hq_next, hq_count>>, HqKept' = HqKept,
         hq_new'[t] = hq_new[t], HqHolds(t)' <=> HqHolds(t),
         HqHolds(t) => hq_old'[t].ptr = hq_old[t].ptr,
         HqLeavesHead(t)' => HqLeavesHead(t) /\ hq_old'[t] = hq_old[t],
         HqLeavesTail(t)' => HqLeavesTail(t) /\ hq_old'[t] = hq_old[t],
         hq_pc'[t] # "ends_again",
         (HqHolds(t) => HqKnows(t, hq_old[t].ptr, c))',
         hq_pc'[t] = "ends_cas" =>
           /\ hq_curr'[t].external \in {1, 2}
           /\ hq_curr'[t].external = 1 =>
                /\ hq_count[hq_old[t].ptr].external = 1
                /\ hq_count[hq_old[t].ptr].internal <= hq_curr'[t].internal
  PROVE  HqNodesInv(c, H, T)'
<1>1. /\ HqListInv(c) /\ HqThreadsInv(c, H, T) /\ HqCountInv(c, H, T)
      /\ H \in [Nodes -> Int] /\ T \in [Nodes -> Int]
  BY DEF HqNodesInv
<1>2. HqListInv(c)' /\ hq_head'.ptr \in NodesOf(c)
  BY <1>1, HqPointers DEF HqListInv, HqNextPtrs
<1>3. ASSUME NEW u \in Threads \ {t}
      PROVE  HqOwn(u, c, H, T)'
  <2>1. HqOwn(u, c, H, T)
    BY <1>1 DEF HqThreadsInv
  <2>2. hq_new[u] # 0 =>
          /\ hq_new[u] \in HqKept' /\ hq_new[u] \notin NodesOf(c)
          /\ hq_new'[t] # hq_new[u]
          /\ HqHolds(t)' => hq_old'[t].ptr # hq_new[u]
    BY <2>1 DEF HqOwn
  <2> QED
    BY <2>1, <2>2, HqOthersOwn
<1>4. ASSUME NEW u \in Threads \ {t}
      PROVE  (HqHolds(u) => HqKnows(u, hq_old[u].ptr, c))'
  <2>1. HqHolds(u) => HqKnows(u, hq_old[u].ptr, c)
    BY <1>1 DEF HqThreadsInv
  <2>2. HqHolds(u) => HqSpares(hq_old[u].ptr, NodesOf(c), NodesOf(c))
    BY <2>1 DEF HqKnows, HqSpares
  <2>3. hq_pc[u] = "h_data" => hq_data'[hq_old[u].ptr] # Null
    BY <2>1 DEF HqHolds, HqHolding, HqKnows
  <2> QED
    BY <1>1, <1>2, <2>1, <2>2, <2>3, HqOthersKnow
<1>5. ASSUME NEW u \in Threads
      PROVE  HqLeaves(u, hq_old[u].ptr, c, H, T)'
  <2>1. /\ HqLeaves(u, hq_old[u].ptr, c, H, T)
        /\ HqLeaves(t, hq_old[t].ptr, c, H, T)
    BY <1>1 DEF HqThreadsInv
  <2>2. \A w \in Threads : /\ HqLeavesHead(w)' => HqLeavesHead(w) /\ hq_old'[w] = hq_old[w]
                           /\ HqLeavesTail(w)' => HqLeavesTail(w) /\ hq_old'[w] = hq_old[w]
                           /\ HqLast(w)' => HqLast(w) /\ hq_old'[w] = hq_old[w]
    BY DEF HqAlone, HqLeavesHead, HqLeavesTail, HqLast
  <2>3. hq_pc'[u] = "ends_cas" => (u = t /\ hq_old'[t].ptr = hq_old[t].ptr)
                                  \/ (hq_pc[u] = "ends_cas" /\ hq_old'[u] = hq_old[u] /\ hq_curr'[u] = hq_curr[u])
    BY DEF HqAlone, HqHolds, HqHolding
  <2> QED
    BY <2>1, <2>2, <2>3 DEF HqLeaves
<1>6. HqOwn(t, c, H, T)'
  <2>1. HqOwn(t, c, H, T)
    BY <1>1 DEF HqThreadsInv
  <2>2. \A u \in Threads : u # t => /\ hq_new'[u] = hq_new[u] /\ hq_old'[u] = hq_old[u]
                                    /\ (HqHolds(u)' <=> HqHolds(u))
    BY DEF HqAlone, HqHolds
  <2> QED
    BY <2>1, <2>2 DEF HqOwn
<1>7. HqCountInv(c, H, T)'
  <2>1. \A n \in HqKept : HqCounts(n, H[n], T[n])'
    <3>1. ASSUME NEW n
          PROVE  t \in HqUsers(n) <=> t \in HqUsers(n)'
      BY DEF HqUsers
    <3>2. ASSUME NEW n \in HqKept
          PROVE  HqCounts(n, H[n], T[n])'
      <4>1. HqCounts(n, H[n], T[n])
        BY <1>1 DEF HqCountInv
      <4> QED
        BY <3>1, <4>1, HqCountsKept
    <3> QED
      BY <3>2
  <2> QED
    BY <1>1, <2>1 DEF HqCountInv
<1> QED
  BY <1>1, <1>2, <1>3, <1>4, <1>5, <1>6, <1>7 DEF HqNodesInv, HqThreadsInv
(* The pointer of a node that has a successor, or has none.                *)
LEMMA HqNextIs ==
  ASSUME NEW c, HqTypeOK, HqListInv(c), NEW n \in Nodes
  PROVE  hq_next[n] = HqNull <=> hq_next[n].ptr = 0
<1>1. hq_next[n] \in HqPtrs /\ hq_next[n].count = 0
  BY DEF HqTypeOK, HqListInv
<1> QED
  BY <1>1 DEF HqPtrs, HqNull, HqPtr

(* An end that is to give up a count of node n has it.                     *)
LEMMA HqEndCounted ==
  ASSUME NEW c, NEW H, NEW T, HqTypeOK, HqNodesInv(c, H, T), NEW t \in Threads, NEW n, n = hq_old[t].ptr,
         HqLeavesHead(t) \/ HqLeavesTail(t)
  PROVE  /\ n \in HqKept \cap Nodes /\ hq_old[t].count \in Nat
         /\ HqLeavesHead(t) => Ends(H[n]) = 1 /\ AtEnd(H[n]) = hq_old[t].count
         /\ HqLeavesTail(t) => Ends(T[n]) = 1 /\ AtEnd(T[n]) = hq_old[t].count
         /\ hq_count[n].external \in {1, 2} /\ hq_count[n].internal \in Int
         /\ Ends(H[n]) \in {0, 1} /\ Ends(T[n]) \in {0, 1}
<1>1. HqHolds(t)
  BY DEF HqLeavesHead, HqLeavesTail, HqHolds, HqHolding
<1>2. n \in HqKept /\ n # 0 /\ hq_old[t] \in HqPtrs /\ HqLeaves(t, n, c, H, T)
  <2>1. HqKnows(t, n, c) /\ HqLeaves(t, n, c, H, T)
    BY <1>1 DEF HqNodesInv, HqThreadsInv
  <2>2. HqKept \subseteq Nodes
    <3>1. HqListInv(c)
      BY DEF HqNodesInv
    <3>2. hq_head.ptr \in Nodes
      BY <3>1, HqPointers
    <3> QED
      BY <3>2 DEF HqTypeOK, HqKept
  <2> QED
    BY <2>1, <2>2, NodesAssumption DEF HqKnows, HqTypeOK
<1>3. n \in Nodes /\ hq_old[t].count \in Nat
  BY <1>2 DEF HqPtrs
<1>4. HqCounts(n, H[n], T[n]) /\ hq_count[n] \in HqCounters
  BY <1>2, <1>3 DEF HqNodesInv, HqCountInv, HqTypeOK
<1>5. /\ HqLeavesHead(t) => H[n] = hq_old[t].count
      /\ HqLeavesTail(t) => T[n] = hq_old[t].count
  BY <1>2 DEF HqLeaves
<1>6. Ends(H[n]) \in {0, 1} /\ Ends(T[n]) \in {0, 1}
  BY DEF Ends
<1>7. /\ HqLeavesHead(t) => Ends(H[n]) = 1 /\ AtEnd(H[n]) = hq_old[t].count
      /\ HqLeavesTail(t) => Ends(T[n]) = 1 /\ AtEnd(T[n]) = hq_old[t].count
  BY <1>3, <1>5 DEF Ends, AtEnd
<1>8. hq_count[n].external \in {1, 2} /\ hq_count[n].internal \in Int
  <2>1. hq_count[n].external \in 0 .. 3 /\ hq_count[n].internal \in Int
    BY <1>4 DEF HqCounters
  <2> QED
    BY <1>4, <1>6, <1>7, <2>1 DEF HqCounts
<1> QED
  BY <1>2, <1>3, <1>6, <1>7, <1>8

(* What a step of thread t leaves of what thread u relies on: the node on  *)
(* which u is counted in, its count there, and the node that it has ready. *)
HqUndisturbed(t, u, c, d, H, T, G, K) ==
  LET n == hq_old[u].ptr
      k == hq_new[u]
  IN /\ HqHolds(u) => HqSpares(n, NodesOf(c), NodesOf(d))
     /\ hq_pc[u] = "h_data" => hq_data'[n] # Null
     /\ k # 0 => /\ k \in HqKept' /\ k \notin NodesOf(d) /\ hq_new'[t] # k
                 /\ HqHolds(t)' => hq_old'[t].ptr # k
                 /\ hq_next'[k] = hq_next[k] /\ hq_data'[k] = hq_data[k] /\ G[k] = H[k] /\ K[k] = T[k]
     /\ HqLeavesHead(u) => G[n] = H[n] /\ (HqLeavesHead(t)' => hq_old'[t].ptr # n)
     /\ HqLeavesTail(u) => /\ n # hq_tail'.ptr /\ n # hq_next'[hq_tail'.ptr].ptr /\ K[n] = T[n]
                           /\ HqLeavesTail(t)' => hq_old'[t].ptr # n
     /\ hq_pc[u] = "ends_cas" /\ hq_count[n].external = 1 =>
          hq_count'[n].external = 1 /\ hq_count'[n].internal <= hq_count[n].internal
     /\ HqLast(u) => n \in HqKept' /\ hq_count'[n] = hq_count[n] /\ (HqLast(t)' => hq_old'[t].ptr # n)

(* The other threads, when a step leaves what they rely on.                *)
LEMMA HqOthersKept ==
  ASSUME NEW c, NEW d, NEW H, NEW T, NEW G, NEW K, HqTypeOK, HqTypeOK', HqNodesInv(c, H, T),
         NEW t, HqAlone(t), NEW u \in Threads \ {t}, HqUndisturbed(t, u, c, d, H, T, G, K),
         hq_tail'.ptr # hq_tail.ptr => hq_next[hq_tail.ptr].ptr # 0 /\ hq_tail'.ptr # hq_head'.ptr,
         hq_head'.ptr # hq_head.ptr => hq_head.ptr \notin NodesOf(d),
         hq_head'.ptr \in NodesOf(d)
  PROVE  /\ HqOwn(u, d, G, K)'
         /\ (HqHolds(u) => HqKnows(u, hq_old[u].ptr, d))'
         /\ HqLeaves(u, hq_old[u].ptr, d, G, K)'
<1>1. /\ HqOwn(u, c, H, T) /\ HqLeaves(u, hq_old[u].ptr, c, H, T)
      /\ HqHolds(u) => HqKnows(u, hq_old[u].ptr, c)
      /\ HqListInv(c)
  BY DEF HqNodesInv, HqThreadsInv
<1>2. HqOwn(u, d, G, K)'
  <2>1. hq_new[u] # 0 =>
          /\ hq_new[u] \in HqKept' /\ hq_new[u] \notin NodesOf(d)
          /\ hq_new'[t] # hq_new[u]
          /\ HqHolds(t)' => hq_old'[t].ptr # hq_new[u]
          /\ hq_next'[hq_new[u]] = hq_next[hq_new[u]] /\ hq_data'[hq_new[u]] = hq_data[hq_new[u]]
          /\ G[hq_new[u]] = H[hq_new[u]] /\ K[hq_new[u]] = T[hq_new[u]]
    BY DEF HqUndisturbed
  <2> QED
    BY <1>1, <2>1, HqOthersOwn
<1>3. (HqHolds(u) => HqKnows(u, hq_old[u].ptr, d))'
  <2>1. /\ HqHolds(u) => HqSpares(hq_old[u].ptr, NodesOf(c), NodesOf(d))
        /\ hq_pc[u] = "h_data" => hq_data'[hq_old[u].ptr] # Null
    BY DEF HqUndisturbed
  <2> QED
    BY <1>1, <2>1, HqOthersKnow
<1>4. HqLeaves(u, hq_old[u].ptr, d, G, K)'
  <2>1. PICK n : n = hq_old[u].ptr
    OBVIOUS
  <2>2. HqLeaves(u, n, c, H, T)
    BY <1>1, <2>1
  <2>3. HqLeavesHead(u) => n \notin NodesOf(d) /\ G[n] = H[n] /\ (HqLeavesHead(t)' => hq_old'[t].ptr # n)
    <3>1. HqLeavesHead(u) => HqHolds(u)
      BY DEF HqLeavesHead, HqHolds, HqHolding
    <3> QED
      BY <2>1, <2>2, <3>1 DEF HqLeaves, HqUndisturbed, HqSpares
  <2>4. HqLeavesTail(u) => /\ n # hq_tail'.ptr /\ n # hq_next'[hq_tail'.ptr].ptr /\ K[n] = T[n]
                           /\ HqLeavesTail(t)' => hq_old'[t].ptr # n
    BY <2>1 DEF HqUndisturbed
  <2>5. hq_pc[u] = "ends_cas" => /\ hq_count[n].internal \in Int /\ hq_count'[n].internal \in Int
                                 /\ hq_curr[u].internal \in Int
    <3>1. hq_pc[u] = "ends_cas" => n \in Nodes
      BY <2>1, HqEndCounted DEF HqLeavesHead, HqLeavesTail
    <3> QED
      BY <3>1 DEF HqTypeOK, HqCounters
  <2>6. hq_pc[u] = "ends_cas" /\ hq_count[n].external = 1 =>
          hq_count'[n].external = 1 /\ hq_count'[n].internal <= hq_count[n].internal
    BY <2>1 DEF HqUndisturbed
  <2>7. HqLast(u) => n \in HqKept' /\ hq_count'[n] = hq_count[n] /\ (HqLast(t)' => hq_old'[t].ptr # n)
    BY <2>1 DEF HqUndisturbed
  <2>8. \A w \in Threads : w # t =>
          /\ hq_pc'[w] = hq_pc[w] /\ hq_old'[w] = hq_old[w] /\ hq_curr'[w] = hq_curr[w]
          /\ (HqLeavesHead(w)' <=> HqLeavesHead(w)) /\ (HqLeavesTail(w)' <=> HqLeavesTail(w))
          /\ (HqLast(w)' <=> HqLast(w))
    BY DEF HqAlone, HqLeavesHead, HqLeavesTail, HqLast
  <2>9. hq_pc[u] = "ends_cas" /\ hq_curr[u].external = 1 =>
          hq_count'[n].external = 1 /\ hq_count'[n].internal <= hq_curr[u].internal
    BY <2>2, <2>5, <2>6 DEF HqLeaves
  <2>10. HqLeaves(u, n, d, G, K)'
    BY <2>2, <2>3, <2>4, <2>7, <2>8, <2>9 DEF HqLeaves
  <2> QED
    BY <2>1, <2>8, <2>10 DEF HqLeaves
<1> QED
  BY <1>2, <1>3, <1>4

(* The node that a thread has ready, over a step of its own.               *)
LEMMA HqOwnKept ==
  ASSUME NEW c, NEW d, NEW H, NEW T, NEW G, NEW K, NEW t \in Threads, HqAlone(t), HqOwn(t, c, H, T),
         hq_new'[t] = hq_new[t],
         hq_new[t] # 0 =>
           /\ hq_new[t] \in HqKept' /\ hq_new[t] \notin NodesOf(d)
           /\ HqHolds(t)' => hq_old'[t].ptr # hq_new[t]
           /\ hq_next'[hq_new[t]] = hq_next[hq_new[t]] /\ hq_data'[hq_new[t]] = hq_data[hq_new[t]]
           /\ G[hq_new[t]] = H[hq_new[t]] /\ K[hq_new[t]] = T[hq_new[t]]
  PROVE  HqOwn(t, d, G, K)'
<1>1. \A u \in Threads : u # t =>
        /\ hq_new'[u] = hq_new[u] /\ hq_old'[u] = hq_old[u] /\ (HqHolds(u)' <=> HqHolds(u))
  BY DEF HqAlone, HqHolds
<1> QED
  BY <1>1 DEF HqOwn

(* All threads, when a step leaves what the others rely on.                *)
LEMMA HqThreadsKept ==
  ASSUME NEW c, NEW d, NEW H, NEW T, NEW G, NEW K, HqTypeOK, HqTypeOK', HqNodesInv(c, H, T),
         NEW t \in Threads, HqAlone(t),
         \A u \in Threads \ {t} : HqUndisturbed(t, u, c, d, H, T, G, K),
         hq_tail'.ptr # hq_tail.ptr => hq_next[hq_tail.ptr].ptr # 0 /\ hq_tail'.ptr # hq_head'.ptr,
         hq_head'.ptr # hq_head.ptr => hq_head.ptr \notin NodesOf(d),
         hq_head'.ptr \in NodesOf(d),
         HqOwn(t, d, G, K)', (HqHolds(t) => HqKnows(t, hq_old[t].ptr, d))',
         HqLeaves(t, hq_old[t].ptr, d, G, K)'
  PROVE  HqThreadsInv(d, G, K)'
<1>1. ASSUME NEW u \in Threads \ {t}
      PROVE  /\ HqOwn(u, d, G, K)'
             /\ (HqHolds(u) => HqKnows(u, hq_old[u].ptr, d))'
             /\ HqLeaves(u, hq_old[u].ptr, d, G, K)'
  <2>1. HqUndisturbed(t, u, c, d, H, T, G, K)
    OBVIOUS
  <2> QED
    BY <2>1, HqOthersKept
<1> QED
  BY <1>1 DEF HqThreadsInv

(* What the threads rely on, thread by thread.                             *)
LEMMA HqReliesOn ==
  ASSUME NEW c, NEW H, NEW T, HqTypeOK, HqNodesInv(c, H, T), NEW u \in Threads
  PROVE  /\ HqOwn(u, c, H, T) /\ HqLeaves(u, hq_old[u].ptr, c, H, T)
         /\ HqHolds(u) => HqKnows(u, hq_old[u].ptr, c) /\ hq_old[u].ptr \in Nodes
         /\ hq_new[u] # 0 => hq_new[u] \in Nodes
         /\ hq_pc[u] = "h_data" => HqHolds(u)
         /\ HqLeavesHead(u) => HqHolds(u)
         /\ HqLeavesTail(u) => HqHolds(u)
         /\ hq_pc[u] = "ends_cas" => HqHolds(u)
         /\ HqHolds(u) => hq_count[hq_old[u].ptr].internal \in Int
         /\ HqKept \subseteq Nodes /\ HqListInv(c)
<1>1. /\ HqOwn(u, c, H, T) /\ HqLeaves(u, hq_old[u].ptr, c, H, T)
      /\ HqHolds(u) => HqKnows(u, hq_old[u].ptr, c)
      /\ HqListInv(c)
  BY DEF HqNodesInv, HqThreadsInv
<1>2. HqKept \subseteq Nodes
  <2>1. hq_head.ptr \in Nodes
    BY <1>1, HqPointers
  <2> QED
    BY <2>1 DEF HqTypeOK, HqKept
<1>3. HqHolds(u) => hq_old[u].ptr \in Nodes
  BY <1>1, <1>2 DEF HqKnows
<1>4. HqHolds(u) => hq_count[hq_old[u].ptr].internal \in Int
  BY <1>3 DEF HqTypeOK, HqCounters
<1>5. hq_new[u] # 0 => hq_new[u] \in Nodes
  BY DEF HqTypeOK
<1>6. /\ hq_pc[u] = "h_data" => HqHolds(u)
      /\ HqLeavesHead(u) => HqHolds(u)
      /\ HqLeavesTail(u) => HqHolds(u)
      /\ hq_pc[u] = "ends_cas" => HqHolds(u)
  BY DEF HqHolds, HqHolding, HqLeavesHead, HqLeavesTail
<1> QED
  BY <1>1, <1>2, <1>3, <1>4, <1>5, <1>6

(* The steps that change nothing but the thread's own variables.           *)
LEMMA HqQuietSteps ==
  ASSUME NEW c, NEW H, NEW T, HqTypeOK, HqFlowInv, HqNodesInv(c, H, T), NEW t \in Threads, HqAlone(t),
         \/ HqCall(t) \/ HqDestroy(t) \/ HqDeleteHead(t)
         \/ /\ UNCHANGED hq_life
            /\ \/ HqPushReturns(t) \/ HqPullReturns(t) \/ HqPullTail(t) \/ HqPullNext(t) \/ HqEndsLoad(t)
               \/ HqClaim(t) /\ hq_data[hq_old[t].ptr] # Null
               \/ HqHelp(t) /\ hq_next[hq_old[t].ptr] # HqNull
               \/ HqSetTail(t) /\ hq_tail.ptr # hq_old[t].ptr
               \/ HqPullCas(t) /\ hq_head # hq_old[t]
  PROVE  HqNodesInv(c, H, T)'
<1> USE DEF Move
<1>1. /\ HqFlow(t) /\ hq_pc \in [Threads -> HqLabels] /\ hq_then \in [Threads -> HqLabels]
      /\ hq_pc[t] # "idle" => hq_life # "gone"
  BY DEF HqFlowInv
<1>2. (HqHolds(t) => HqKnows(t, hq_old[t].ptr, c)) /\ HqListInv(c)
  BY DEF HqNodesInv, HqThreadsInv
<1>3. HqHolds(t) => hq_old[t].ptr \in Nodes /\ hq_old[t].ptr \in HqKept
  BY <1>2, HqPointers DEF HqKnows, HqKept, HqTypeOK
<1>4. CASE HqCall(t) \/ HqDestroy(t) \/ HqDeleteHead(t)
           \/ (UNCHANGED hq_life /\ (HqPushReturns(t) \/ HqPullReturns(t)))
  <2>1. /\ UNCHANGED <<hq_head, hq_tail, hq_data, hq_next, hq_count>>
        /\ ~HqHolds(t) /\ ~HqHolds(t)' /\ ~HqLeavesHead(t)' /\ ~HqLeavesTail(t)'
        /\ hq_pc'[t] \notin {"ends_again", "ends_cas"}
    BY <1>1, <1>4
       DEF HqHolds, HqHolding, HqLeavesHead, HqLeavesTail, HqCall, HqPushCall, HqPullCall, HqDestroy, HqDeleteHead,
           HqPushReturns, HqPullReturns, hqHeap
  <2>2. hq_new'[t] = hq_new[t]
    BY <1>1, <1>4
       DEF HqFlow, HqReady, HqCall, HqPushCall, HqPullCall, HqDestroy, HqDeleteHead,
           HqPushReturns, HqPullReturns, HqReturn, hqLocals, HqTypeOK
  <2>3. HqKept' = HqKept
    <3>1. CASE HqDeleteHead(t)
      <4>1. hq_head.ptr \in HqKept /\ hq_head' = hq_head
        BY <1>2, <3>1, HqPointers DEF HqDeleteHead
      <4>2. hq_life # "gone" /\ hq_life' = "gone" /\ hq_live' = hq_live \ {hq_head.ptr}
        BY <1>1, <3>1 DEF HqDeleteHead
      <4> QED
        BY <4>1, <4>2 DEF HqKept
    <3>2. CASE ~HqDeleteHead(t)
      BY <1>4, <3>2 DEF HqKept, HqCall, HqPushCall, HqPullCall, HqDestroy, HqPushReturns, HqPullReturns, hqHeap
    <3> QED
      BY <3>1, <3>2
  <2> QED
    BY <2>1, <2>2, <2>3, HqQuietStep
<1>5. ASSUME UNCHANGED hq_life,
             \/ HqPullTail(t) \/ HqPullNext(t)
             \/ HqClaim(t) /\ hq_data[hq_old[t].ptr] # Null
             \/ HqHelp(t) /\ hq_next[hq_old[t].ptr] # HqNull
             \/ HqSetTail(t) /\ hq_tail.ptr # hq_old[t].ptr
             \/ HqPullCas(t) /\ hq_head # hq_old[t]
      PROVE  HqNodesInv(c, H, T)'
  <2>1. /\ UNCHANGED <<hq_head, hq_tail, hq_data, hq_next, hq_count, hq_live, hq_new, hq_old>>
        /\ HqHolds(t) /\ HqHolds(t)' /\ ~HqLeavesHead(t)' /\ ~HqLeavesTail(t)'
        /\ hq_pc'[t] \notin {"ends_again", "ends_cas"}
    BY <1>1, <1>5
       DEF HqHolds, HqHolding, HqLeavesHead, HqLeavesTail, HqPullTail, HqPullNext, HqClaim, HqHelp,
           HqSetTail, HqPullCas, hqHeap, hqLocals
  <2>2. HqKept' = HqKept
    BY <1>5, <2>1 DEF HqKept
  <2>3. PICK n \in Nodes : n = hq_old[t].ptr /\ HqKnows(t, n, c)
    BY <1>2, <1>3, <2>1
  <2>4. HqKnows(t, n, c)'
    <3>1. CASE HqPullTail(t)
      BY <1>1, <2>1, <2>2, <2>3, <3>1 DEF HqPullTail, HqKnows
    <3>2. CASE HqPullNext(t)
      BY <1>1, <2>1, <2>2, <2>3, <3>2 DEF HqPullNext, HqKnows, HqTypeOK
    <3>3. CASE HqClaim(t) /\ hq_data[hq_old[t].ptr] # Null
      BY <1>1, <2>1, <2>2, <2>3, <3>3 DEF HqClaim, HqKnows
    <3>4. CASE HqHelp(t) /\ hq_next[hq_old[t].ptr] # HqNull
      <4>1. hq_next[n].ptr # 0
        BY <1>2, <2>3, <3>4, HqNextIs
      <4> QED
        BY <1>1, <2>1, <2>2, <2>3, <3>4, <4>1 DEF HqHelp, HqKnows, HqTypeOK
    <3>5. CASE HqSetTail(t) /\ hq_tail.ptr # hq_old[t].ptr
      BY <1>1, <2>1, <2>2, <2>3, <3>5 DEF HqSetTail, HqKnows
    <3>6. CASE HqPullCas(t) /\ hq_head # hq_old[t]
      BY <1>1, <2>1, <2>2, <2>3, <3>6 DEF HqPullCas, HqKnows
    <3> QED
      BY <1>5, <3>1, <3>2, <3>3, <3>4, <3>5, <3>6
  <2>5. (HqHolds(t) => HqKnows(t, hq_old[t].ptr, c))'
    BY <2>1, <2>3, <2>4 DEF HqKnows
  <2> QED
    BY <2>1, <2>2, <2>5, HqQuietStep
<1>6. CASE UNCHANGED hq_life /\ HqEndsLoad(t)
  <2>1. /\ UNCHANGED <<hq_head, hq_tail, hq_data, hq_next, hq_count, hq_live, hq_new, hq_old, hq_then>>
        /\ hq_pc[t] = "ends_load" /\ hq_pc'[t] = "ends_cas" /\ hq_curr'[t] = hq_count[hq_old[t].ptr]
    BY <1>1, <1>6 DEF HqEndsLoad, hqHeap, HqTypeOK
  <2>2. /\ HqHolds(t) /\ HqHolds(t)' /\ (HqLeavesHead(t) \/ HqLeavesTail(t))
        /\ HqLeavesHead(t)' => HqLeavesHead(t)
        /\ HqLeavesTail(t)' => HqLeavesTail(t)
    BY <2>1 DEF HqHolds, HqHolding, HqLeavesHead, HqLeavesTail
  <2>3. HqKept' = HqKept
    BY <1>6, <2>1 DEF HqKept
  <2>4. hq_count[hq_old[t].ptr].external \in {1, 2} /\ hq_count[hq_old[t].ptr].internal \in Int
    BY <2>2, HqEndCounted
  <2>5. (HqHolds(t) => HqKnows(t, hq_old[t].ptr, c))'
    BY <1>2, <2>1, <2>2, <2>3 DEF HqKnows
  <2>6. /\ hq_curr'[t].external \in {1, 2}
        /\ hq_curr'[t].external = 1 =>
             /\ hq_count[hq_old[t].ptr].external = 1
             /\ hq_count[hq_old[t].ptr].internal <= hq_curr'[t].internal
    BY <2>1, <2>4
  <2> QED
    BY <2>1, <2>2, <2>3, <2>5, <2>6, HqQuietStep
<1> QED
  BY <1>4, <1>5, <1>6
(* A node that one more thread is counted in on, at the head or the tail.  *)
LEMMA HqCountsOneMore ==
  ASSUME NEW t \in Threads, HqAlone(t), NEW n, NEW x \in Int, NEW y \in Int, HqCounts(n, x, y),
         hq_count'[n] = hq_count[n], hq_count[n].internal \in Int, t \notin HqUsers(n), t \in HqUsers(n)'
  PROVE  /\ x \in Nat => HqCounts(n, x + 1, y)'
         /\ y \in Nat => HqCounts(n, x, y + 1)'
<1>1. /\ Cardinality(HqUsers(n)) \in Nat
      /\ Cardinality(HqUsers(n))' = Cardinality(HqUsers(n)) + 1
  BY HqUsersThen
<1>2. /\ x \in Nat => Ends(x + 1) = Ends(x) /\ AtEnd(x + 1) = AtEnd(x) + 1
      /\ y \in Nat => Ends(y + 1) = Ends(y) /\ AtEnd(y + 1) = AtEnd(y) + 1
      /\ AtEnd(x) \in Nat /\ AtEnd(y) \in Nat /\ Ends(x) \in {0, 1} /\ Ends(y) \in {0, 1}
  BY DEF Ends, AtEnd
<1>3. PICK k : k = Cardinality(HqUsers(n))
  OBVIOUS
<1>4. Cardinality(HqUsers(n)') = k + 1 /\ k \in Nat
  BY <1>1, <1>3
<1>5. x \in Nat => HqCounts(n, x + 1, y)'
  BY <1>2, <1>3, <1>4 DEF HqCounts
<1>6. y \in Nat => HqCounts(n, x, y + 1)'
  BY <1>2, <1>3, <1>4 DEF HqCounts
<1> QED
  BY <1>5, <1>6

(* A pull() counts itself in on the head.                                  *)
LEMMA HqPullCountStep ==
  ASSUME NEW c, NEW H, NEW T, HqTypeOK, HqTypeOK', HqFlowInv, HqNodesInv(c, H, T),
         NEW t \in Threads, HqAlone(t), HqPullCount(t), UNCHANGED hq_life
  PROVE  \E G : HqNodesInv(c, G, T)'
<1>1. /\ HqListInv(c) /\ HqThreadsInv(c, H, T) /\ HqCountInv(c, H, T)
      /\ H \in [Nodes -> Int] /\ T \in [Nodes -> Int]
  BY DEF HqNodesInv
<1>2. /\ UNCHANGED <<hq_tail, hq_data, hq_next, hq_count, hq_live, hq_new>>
      /\ hq_head'.ptr = hq_head.ptr /\ hq_head'.count = hq_head.count + 1 /\ hq_old'[t].ptr = hq_head.ptr
      /\ hq_pc[t] = "h_count" /\ hq_pc'[t] = "h_tail"
  BY DEF HqPullCount, Move, hqHeap, HqFlowInv, HqTypeOK, HqPtr
<1>3. HqKept' = HqKept
  BY <1>2 DEF HqKept
<1>4. PICK h : h = hq_head.ptr /\ h \in NodesOf(c) /\ h \in Nodes /\ h \in HqKept
  BY <1>1, HqPointers
<1>5. /\ hq_new[t] = 0 /\ ~HqHolds(t) /\ HqHolds(t)'
      /\ ~HqLeavesHead(t)' /\ ~HqLeavesTail(t)' /\ ~HqLast(t)' /\ hq_pc'[t] # "ends_cas"
  BY <1>2 DEF HqFlowInv, HqFlow, HqReady, HqHolds, HqHolding, HqLeavesHead, HqLeavesTail, HqLast
<1>6. PICK G : G = [H EXCEPT ![h] = @ + 1]
  OBVIOUS
<1>7. G \in [Nodes -> Int] /\ G[h] = H[h] + 1 /\ \A n \in Nodes : n # h => G[n] = H[n]
  BY <1>1, <1>4, <1>6
<1>8. HqListInv(c)'
  BY <1>1, <1>2, <1>3 DEF HqListInv, HqNextPtrs
<1>9. ASSUME NEW u \in Threads \ {t}
      PROVE  HqUndisturbed(t, u, c, c, H, T, G, T)
  <2>1. HqOwn(u, c, H, T) /\ HqLeaves(u, hq_old[u].ptr, c, H, T) /\ (HqHolds(u) => HqKnows(u, hq_old[u].ptr, c))
    BY <1>1 DEF HqThreadsInv
  <2>2. hq_new[u] # 0 => hq_new[u] # h /\ hq_new[u] \in Nodes
    BY <1>4, <2>1 DEF HqOwn, HqTypeOK
  <2>3. HqLeavesHead(u) => hq_old[u].ptr # h /\ hq_old[u].ptr \in Nodes
    BY <1>4, <2>1, HqEndCounted DEF HqLeaves
  <2>4. hq_pc[u] = "ends_cas" => hq_count[hq_old[u].ptr].internal \in Int
    BY HqEndCounted DEF HqLeavesHead, HqLeavesTail
  <2>5. hq_pc[u] = "h_data" => HqHolds(u)
    BY DEF HqHolds, HqHolding
  <2> QED
    BY <1>2, <1>3, <1>4, <1>5, <1>7, <2>1, <2>2, <2>3, <2>4, <2>5
       DEF HqUndisturbed, HqSpares, HqKnows, HqOwn, HqLeaves
<1>10. HqOwn(t, c, G, T)' /\ HqLeaves(t, hq_old[t].ptr, c, G, T)'
  BY <1>2, <1>5 DEF HqOwn, HqLeaves
<1>11. (HqHolds(t) => HqKnows(t, hq_old[t].ptr, c))'
  BY <1>2, <1>3, <1>4 DEF HqKnows
<1>12. HqThreadsInv(c, G, T)'
  <2>1. hq_head'.ptr \in NodesOf(c)
    BY <1>2, <1>4
  <2>2. ASSUME NEW u \in Threads \ {t}
        PROVE  /\ HqOwn(u, c, G, T)'
               /\ (HqHolds(u) => HqKnows(u, hq_old[u].ptr, c))'
               /\ HqLeaves(u, hq_old[u].ptr, c, G, T)'
    BY <1>2, <1>9, <2>1, HqOthersKept
  <2> QED
    BY <1>10, <1>11, <2>2 DEF HqThreadsInv
<1>13. ASSUME NEW n \in HqKept
       PROVE  HqCounts(n, G[n], T[n])'
  <2>1. HqCounts(n, H[n], T[n]) /\ n \in Nodes
    <3>1. HqKept \subseteq Nodes
      BY <1>4 DEF HqKept, HqTypeOK
    <3> QED
      BY <1>1, <3>1 DEF HqCountInv
  <2>2. CASE n # h
    <3>1. t \in HqUsers(n) <=> t \in HqUsers(n)'
      BY <1>2, <1>4, <1>5, <2>2 DEF HqUsers
    <3> QED
      BY <1>2, <1>7, <2>1, <2>2, <3>1, HqCountsKept
  <2>3. CASE n = h
    <3>1. t \notin HqUsers(n) /\ t \in HqUsers(n)'
      BY <1>2, <1>4, <1>5, <2>3 DEF HqUsers
    <3>2. H[n] \in Nat /\ T[n] \in Int /\ hq_count[n].internal \in Int
      BY <1>1, <1>4, <2>1, <2>3 DEF HqCountInv, HqTypeOK, HqPtrs, HqCounters
    <3>3. HqCounts(n, H[n] + 1, T[n])'
      BY <1>2, <2>1, <3>1, <3>2, HqCountsOneMore
    <3> QED
      BY <1>7, <2>3, <3>3
  <2> QED
    BY <2>2, <2>3
<1>14. HqCountInv(c, G, T)'
  <2>1. hq_head'.count = G[h] /\ \A n \in NodesOf(c) : n # h => G[n] = 0
    BY <1>1, <1>2, <1>4, <1>7, HqPointers DEF HqCountInv
  <2> QED
    BY <1>1, <1>2, <1>3, <1>4, <1>13, <2>1 DEF HqCountInv
<1> QED
  BY <1>1, <1>7, <1>8, <1>12, <1>14 DEF HqNodesInv
(* A push() counts itself in on the tail.                                  *)
LEMMA HqPushCountStep ==
  ASSUME NEW c, NEW H, NEW T, HqTypeOK, HqTypeOK', HqFlowInv, HqNodesInv(c, H, T),
         NEW t \in Threads, HqAlone(t), HqPushCount(t), UNCHANGED hq_life
  PROVE  \E K : HqNodesInv(c, H, K)'
<1>1. /\ HqListInv(c) /\ HqThreadsInv(c, H, T) /\ HqCountInv(c, H, T)
      /\ H \in [Nodes -> Int] /\ T \in [Nodes -> Int]
  BY DEF HqNodesInv
<1>2. /\ UNCHANGED <<hq_head, hq_data, hq_next, hq_count, hq_live, hq_new>>
      /\ hq_tail'.ptr = hq_tail.ptr /\ hq_tail'.count = hq_tail.count + 1 /\ hq_old'[t].ptr = hq_tail.ptr
      /\ hq_pc[t] = "p_count" /\ hq_pc'[t] = "p_data"
  BY DEF HqPushCount, Move, hqHeap, HqFlowInv, HqTypeOK, HqPtr
<1>3. HqKept' = HqKept
  BY <1>2 DEF HqKept
<1>4. PICK h : h = hq_tail.ptr /\ h \in NodesOf(c) /\ h \in Nodes /\ h \in HqKept
  BY <1>1, HqPointers
<1>5. /\ ~HqHolds(t) /\ HqHolds(t)'
      /\ ~HqLeavesHead(t)' /\ ~HqLeavesTail(t)' /\ ~HqLast(t)' /\ hq_pc'[t] # "ends_cas"
  BY <1>2 DEF HqHolds, HqHolding, HqLeavesHead, HqLeavesTail, HqLast
<1>6. PICK K : K = [T EXCEPT ![h] = @ + 1]
  OBVIOUS
<1>7. K \in [Nodes -> Int] /\ K[h] = T[h] + 1 /\ \A n \in Nodes : n # h => K[n] = T[n]
  BY <1>1, <1>4, <1>6
<1>8. HqListInv(c)'
  BY <1>1, <1>2, <1>3 DEF HqListInv, HqNextPtrs
<1>9. ASSUME NEW u \in Threads \ {t}
      PROVE  HqUndisturbed(t, u, c, c, H, T, H, K)
  <2>1. /\ HqOwn(u, c, H, T) /\ HqOwn(t, c, H, T) /\ HqLeaves(u, hq_old[u].ptr, c, H, T)
        /\ HqHolds(u) => HqKnows(u, hq_old[u].ptr, c) /\ hq_old[u].ptr \in Nodes
        /\ hq_new[u] # 0 => hq_new[u] \in Nodes
        /\ hq_pc[u] = "h_data" => HqHolds(u)
        /\ HqLeavesTail(u) => HqHolds(u)
        /\ hq_pc[u] = "ends_cas" => HqHolds(u)
        /\ HqHolds(u) => hq_count[hq_old[u].ptr].internal \in Int
    BY HqReliesOn
  <2>2. hq_new[u] # 0 => hq_new[u] # h
    BY <1>4, <2>1 DEF HqOwn
  <2>3. HqLeavesTail(u) => hq_old[u].ptr # h
    BY <1>4, <2>1 DEF HqLeaves
  <2> QED
    BY <1>2, <1>3, <1>4, <1>5, <1>7, <2>1, <2>2, <2>3 DEF HqUndisturbed, HqSpares, HqKnows, HqOwn, HqLeaves
<1>10. HqOwn(t, c, H, K)'
  <2>1. HqOwn(t, c, H, T) /\ (hq_new[t] # 0 => hq_new[t] \in Nodes)
    BY HqReliesOn
  <2>2. hq_new[t] # 0 => /\ hq_new[t] \in HqKept' /\ hq_new[t] \notin NodesOf(c)
                         /\ HqHolds(t)' => hq_old'[t].ptr # hq_new[t]
                         /\ H[hq_new[t]] = H[hq_new[t]] /\ K[hq_new[t]] = T[hq_new[t]]
    BY <1>2, <1>3, <1>4, <1>7, <2>1 DEF HqOwn
  <2> QED
    BY <1>2, <2>1, <2>2, HqOwnKept
<1>11. HqLeaves(t, hq_old[t].ptr, c, H, K)' /\ (HqHolds(t) => HqKnows(t, hq_old[t].ptr, c))'
  BY <1>2, <1>3, <1>4, <1>5 DEF HqKnows, HqLeaves
<1>12. HqThreadsInv(c, H, K)'
  <2>1. hq_head'.ptr \in NodesOf(c)
    BY <1>1, <1>2, HqPointers
  <2> QED
    BY <1>2, <1>9, <1>10, <1>11, <2>1, HqThreadsKept
<1>13. ASSUME NEW n \in HqKept
       PROVE  HqCounts(n, H[n], K[n])'
  <2>1. HqCounts(n, H[n], T[n]) /\ n \in Nodes
    <3>1. HqKept \subseteq Nodes
      BY HqReliesOn
    <3> QED
      BY <1>1, <3>1 DEF HqCountInv
  <2>2. CASE n # h
    <3>1. t \in HqUsers(n) <=> t \in HqUsers(n)'
      BY <1>2, <1>4, <1>5, <2>2 DEF HqUsers
    <3> QED
      BY <1>2, <1>7, <2>1, <2>2, <3>1, HqCountsKept
  <2>3. CASE n = h
    <3>1. t \notin HqUsers(n) /\ t \in HqUsers(n)'
      BY <1>2, <1>4, <1>5, <2>3 DEF HqUsers
    <3>2. T[n] \in Nat /\ H[n] \in Int /\ hq_count[n].internal \in Int /\ hq_count'[n] = hq_count[n]
      BY <1>1, <1>2, <1>4, <2>1, <2>3 DEF HqCountInv, HqTypeOK, HqPtrs, HqCounters
    <3>3. HqCounts(n, H[n], T[n] + 1)'
      BY <2>1, <3>1, <3>2, HqCountsOneMore
    <3> QED
      BY <1>7, <2>3, <3>3
  <2> QED
    BY <2>2, <2>3
<1>14. HqCountInv(c, H, K)'
  <2>1. hq_tail'.count = K[h] /\ \A m \in Nodes : hq_next[h].ptr = m => m # h
    <3>1. hq_next[h].ptr # h
      BY <1>1, <1>4, HqPointers
    <3> QED
      BY <1>1, <1>2, <1>4, <1>7, <3>1 DEF HqCountInv
  <2> QED
    BY <1>1, <1>2, <1>3, <1>4, <1>7, <1>13, <2>1 DEF HqCountInv
<1> QED
  BY <1>1, <1>7, <1>8, <1>12, <1>14 DEF HqNodesInv
(* The counts of all nodes when nobody joins or leaves one.                *)
LEMMA HqAllCountsKept ==
  ASSUME NEW H, NEW T, NEW t \in Threads, HqAlone(t), UNCHANGED hq_count, HqKept' \subseteq HqKept,
         \A n \in HqKept : HqCounts(n, H[n], T[n]),
         HqHolds(t)' <=> HqHolds(t), HqHolds(t) => hq_old'[t].ptr = hq_old[t].ptr
  PROVE  \A n \in HqKept' : HqCounts(n, H[n], T[n])'
<1>1. ASSUME NEW n \in HqKept'
      PROVE  HqCounts(n, H[n], T[n])'
  <2>1. t \in HqUsers(n) <=> t \in HqUsers(n)'
    BY DEF HqUsers
  <2>2. HqCounts(n, H[n], T[n]) /\ hq_count'[n] = hq_count[n]
    BY <1>1
  <2> QED
    BY <2>1, <2>2, HqCountsKept
<1> QED
  BY <1>1

(* A push() claims the node for its element.                               *)
LEMMA HqClaimStep ==
  ASSUME NEW c, NEW H, NEW T, HqTypeOK, HqTypeOK', HqFlowInv, HqNodesInv(c, H, T),
         NEW t \in Threads, HqAlone(t), HqClaim(t), hq_data[hq_old[t].ptr] = Null, hq_arg[t] # Null,
         UNCHANGED hq_life
  PROVE  HqNodesInv(c, H, T)'
<1>1. /\ HqListInv(c) /\ HqThreadsInv(c, H, T) /\ HqCountInv(c, H, T)
      /\ H \in [Nodes -> Int] /\ T \in [Nodes -> Int]
  BY DEF HqNodesInv
<1>2. HqHolds(t)
  BY DEF HqClaim, HqHolds, HqHolding
<1>3. PICK h : h = hq_old[t].ptr /\ h \in Nodes /\ HqKnows(t, h, c)
  BY <1>2, HqReliesOn
<1>4. /\ UNCHANGED <<hq_head, hq_tail, hq_next, hq_count, hq_live, hq_new, hq_old>>
      /\ hq_data'[h] # Null /\ \A n \in Nodes : n # h => hq_data'[n] = hq_data[n]
      /\ hq_pc[t] = "p_data" /\ hq_pc'[t] = "p_link"
  BY <1>3 DEF HqClaim, Move, hqLocals, HqFlowInv, HqTypeOK
<1>5. HqKept' = HqKept
  BY <1>4 DEF HqKept
<1>6. /\ HqHolds(t)' /\ ~HqLeavesHead(t)' /\ ~HqLeavesTail(t)' /\ ~HqLast(t)' /\ hq_pc'[t] # "ends_cas"
  BY <1>4 DEF HqHolds, HqHolding, HqLeavesHead, HqLeavesTail, HqLast
<1>7. NodesOf(c) \subseteq Nodes /\ hq_head'.ptr \in NodesOf(c)
  BY <1>1, <1>4, HqPointers
<1>8. HqListInv(c)'
  BY <1>1, <1>4, <1>5, <1>7 DEF HqListInv, HqNextPtrs
<1>9. ASSUME NEW u \in Threads \ {t}
      PROVE  HqUndisturbed(t, u, c, c, H, T, H, T)
  <2>1. /\ HqOwn(u, c, H, T) /\ HqLeaves(u, hq_old[u].ptr, c, H, T)
        /\ HqHolds(u) => HqKnows(u, hq_old[u].ptr, c) /\ hq_old[u].ptr \in Nodes
        /\ hq_new[u] # 0 => hq_new[u] \in Nodes
        /\ hq_pc[u] = "h_data" => HqHolds(u)
        /\ hq_pc[u] = "ends_cas" => HqHolds(u)
        /\ HqHolds(u) => hq_count[hq_old[u].ptr].internal \in Int
    BY HqReliesOn
  <2>2. hq_new[u] # 0 => hq_new[u] # h /\ hq_new[t] # hq_new[u]
    BY <1>2, <1>3, <2>1 DEF HqOwn
  <2> QED
    BY <1>2, <1>3, <1>4, <1>5, <1>6, <2>1, <2>2 DEF HqUndisturbed, HqSpares, HqKnows, HqOwn, HqLeaves
<1>10. HqOwn(t, c, H, T)'
  <2>1. HqOwn(t, c, H, T) /\ (hq_new[t] # 0 => hq_new[t] \in Nodes)
    BY HqReliesOn
  <2>2. hq_new[t] # 0 => /\ hq_new[t] \in HqKept' /\ hq_new[t] \notin NodesOf(c) /\ hq_new[t] # h
                         /\ HqHolds(t)' => hq_old'[t].ptr # hq_new[t]
                         /\ hq_data'[hq_new[t]] = hq_data[hq_new[t]]
    BY <1>2, <1>3, <1>4, <1>5, <2>1 DEF HqOwn
  <2> QED
    BY <1>4, <2>1, <2>2, HqOwnKept
<1>11. HqLeaves(t, hq_old[t].ptr, c, H, T)' /\ (HqHolds(t) => HqKnows(t, hq_old[t].ptr, c))'
  BY <1>3, <1>4, <1>5, <1>6 DEF HqKnows, HqLeaves
<1>12. HqThreadsInv(c, H, T)'
  BY <1>4, <1>7, <1>9, <1>10, <1>11, HqThreadsKept
<1>13. HqCountInv(c, H, T)'
  <2>1. \A n \in HqKept : HqCounts(n, H[n], T[n])
    BY <1>1 DEF HqCountInv
  <2>2. \A n \in HqKept' : HqCounts(n, H[n], T[n])'
    BY <1>2, <1>4, <1>5, <1>6, <2>1, HqAllCountsKept
  <2> QED
    BY <1>1, <1>4, <2>2 DEF HqCountInv
<1> QED
  BY <1>1, <1>8, <1>12, <1>13 DEF HqNodesInv

(* A push() moves the tail to the next node.                               *)
LEMMA HqSetTailStep ==
  ASSUME NEW c, NEW H, NEW T, HqTypeOK, HqTypeOK', HqFlowInv, HqNodesInv(c, H, T),
         NEW t \in Threads, HqAlone(t), HqSetTail(t), hq_tail.ptr = hq_old[t].ptr, UNCHANGED hq_life
  PROVE  HqNodesInv(c, H, T)'
<1>1. /\ HqListInv(c) /\ HqThreadsInv(c, H, T) /\ HqCountInv(c, H, T)
      /\ H \in [Nodes -> Int] /\ T \in [Nodes -> Int]
  BY DEF HqNodesInv
<1>2. HqHolds(t)
  BY DEF HqSetTail, HqHolds, HqHolding
<1>3. PICK h : h = hq_old[t].ptr /\ h = hq_tail.ptr /\ h \in NodesOf(c) /\ h \in Nodes /\ HqKnows(t, h, c)
  BY <1>1, <1>2, HqReliesOn, HqPointers
<1>4. /\ UNCHANGED <<hq_head, hq_data, hq_next, hq_count, hq_live, hq_new, hq_then>>
      /\ hq_tail' = hq_to[t] /\ hq_old'[t] = hq_tail
      /\ hq_pc[t] = "p_tail" /\ hq_pc'[t] = "ends_load" /\ hq_then[t] # "h_done"
  BY <1>3 DEF HqSetTail, Move, hqHeap, HqFlowInv, HqFlow, HqTypeOK
<1>5. HqKept' = HqKept
  BY <1>4 DEF HqKept
<1>6. /\ HqHolds(t)' /\ ~HqLeavesHead(t)' /\ HqLeavesTail(t)' /\ ~HqLast(t)' /\ hq_pc'[t] # "ends_cas"
  BY <1>4 DEF HqHolds, HqHolding, HqLeavesHead, HqLeavesTail, HqLast
<1>7. PICK m : /\ m = hq_next[h].ptr /\ m \in NodesOf(c) /\ m \in Nodes /\ m # hq_head.ptr /\ m # h
               /\ hq_tail'.ptr = m /\ hq_tail'.count = 0 /\ hq_next[m].ptr = 0 /\ T[m] = 0
  <2>1. hq_next[h].ptr # 0 /\ hq_to[t] = hq_next[h] /\ hq_next[h].count = 0
    BY <1>1, <1>3, <1>4 DEF HqKnows, HqListInv
  <2>2. /\ hq_next[h].ptr \in NodesOf(c) /\ hq_next[h].ptr \in Nodes /\ hq_next[h].ptr # hq_head.ptr
        /\ hq_next[h].ptr # h
    BY <1>1, <1>3, <2>1, HqPointers
  <2>3. hq_next[hq_next[h].ptr].ptr = 0 /\ T[hq_next[h].ptr] = 0
    BY <1>1, <1>3, <2>2 DEF HqListInv, HqCountInv
  <2> QED
    BY <1>4, <2>1, <2>2, <2>3
<1>8. 0 \notin Nodes /\ hq_head'.ptr \in NodesOf(c)
  BY <1>1, <1>4, HqPointers
<1>9. HqListInv(c)'
  BY <1>1, <1>4, <1>5, <1>7, <1>8 DEF HqListInv, HqNextPtrs
<1>10. ASSUME NEW u \in Threads \ {t}
       PROVE  HqUndisturbed(t, u, c, c, H, T, H, T)
  <2>1. /\ HqOwn(u, c, H, T) /\ HqLeaves(u, hq_old[u].ptr, c, H, T)
        /\ HqHolds(u) => HqKnows(u, hq_old[u].ptr, c) /\ hq_old[u].ptr \in Nodes
        /\ hq_pc[u] = "h_data" => HqHolds(u)
        /\ HqLeavesTail(u) => HqHolds(u)
        /\ hq_pc[u] = "ends_cas" => HqHolds(u)
        /\ HqHolds(u) => hq_count[hq_old[u].ptr].internal \in Int
    BY HqReliesOn
  <2>2. hq_new[u] # 0 => hq_new[u] # h /\ hq_new[t] # hq_new[u]
    BY <1>2, <1>3, <2>1 DEF HqOwn
  <2>3. HqLeavesTail(u) => hq_old[u].ptr # h /\ hq_old[u].ptr # m /\ hq_old[u].ptr # 0
    BY <1>3, <1>7, <1>8, <2>1 DEF HqLeaves
  <2> QED
    BY <1>2, <1>3, <1>4, <1>5, <1>6, <1>7, <2>1, <2>2, <2>3 DEF HqUndisturbed, HqSpares, HqKnows, HqOwn, HqLeaves
<1>11. HqOwn(t, c, H, T)'
  <2>1. HqOwn(t, c, H, T)
    BY HqReliesOn
  <2>2. hq_new[t] # 0 => /\ hq_new[t] \in HqKept' /\ hq_new[t] \notin NodesOf(c)
                         /\ HqHolds(t)' => hq_old'[t].ptr # hq_new[t]
    BY <1>2, <1>3, <1>4, <1>5, <2>1 DEF HqOwn
  <2> QED
    BY <1>4, <2>1, <2>2, HqOwnKept
<1>12. HqLeaves(t, hq_old[t].ptr, c, H, T)'
  <2>1. T[h] = hq_old'[t].count /\ hq_old'[t].ptr = h
    BY <1>1, <1>3, <1>4 DEF HqCountInv
  <2>2. \A u \in Threads : HqLeavesTail(u)' /\ hq_old'[u].ptr = h => u = t
    <3>1. ASSUME NEW u \in Threads \ {t}, HqLeavesTail(u)'
          PROVE  hq_old'[u].ptr # h
      <4>1. HqLeavesTail(u) /\ hq_old'[u] = hq_old[u]
        BY <3>1 DEF HqAlone, HqLeavesTail
      <4>2. HqLeaves(u, hq_old[u].ptr, c, H, T)
        BY HqReliesOn
      <4> QED
        BY <1>3, <4>1, <4>2 DEF HqLeaves
    <3> QED
      BY <3>1
  <2>3. HqLeaves(t, h, c, H, T)'
    BY <1>3, <1>4, <1>6, <1>7, <1>8, <2>1, <2>2 DEF HqLeaves
  <2> QED
    BY <2>1, <2>3 DEF HqLeaves
<1>13. (HqHolds(t) => HqKnows(t, hq_old[t].ptr, c))'
  BY <1>3, <1>4, <1>5, <1>6 DEF HqKnows
<1>14. HqThreadsInv(c, H, T)'
  BY <1>3, <1>4, <1>7, <1>8, <1>10, <1>11, <1>12, <1>13, HqThreadsKept
<1>15. HqCountInv(c, H, T)'
  <2>1. \A n \in HqKept : HqCounts(n, H[n], T[n])
    BY <1>1 DEF HqCountInv
  <2>2. \A n \in HqKept' : HqCounts(n, H[n], T[n])'
    BY <1>2, <1>3, <1>4, <1>5, <1>6, <2>1, HqAllCountsKept
  <2> QED
    BY <1>1, <1>4, <1>7, <1>8, <2>2 DEF HqCountInv
<1> QED
  BY <1>1, <1>9, <1>14, <1>15 DEF HqNodesInv

(* A pull() moves the head to the next node.                               *)
LEMMA HqPullCasStep ==
  ASSUME NEW c, NEW H, NEW T, HqTypeOK, HqTypeOK', HqFlowInv, HqNodesInv(c, H, T),
         NEW t \in Threads, HqAlone(t), HqPullCas(t), hq_head = hq_old[t], UNCHANGED hq_life
  PROVE  \E d : HqNodesInv(d, H, T)'
<1>1. /\ HqListInv(c) /\ HqThreadsInv(c, H, T) /\ HqCountInv(c, H, T)
      /\ H \in [Nodes -> Int] /\ T \in [Nodes -> Int]
  BY DEF HqNodesInv
<1>2. HqHolds(t)
  BY DEF HqPullCas, Move, HqHolds, HqHolding
<1>3. PICK h : h = hq_old[t].ptr /\ h = hq_head.ptr /\ h \in NodesOf(c) /\ h \in Nodes /\ HqKnows(t, h, c)
  BY <1>1, <1>2, HqReliesOn, HqPointers
<1>4. /\ UNCHANGED <<hq_tail, hq_data, hq_next, hq_count, hq_live, hq_new, hq_old>>
      /\ hq_head' = hq_to[t] /\ hq_new[t] = 0
      /\ hq_pc[t] = "h_cas" /\ hq_pc'[t] = "h_data" /\ hq_then'[t] = "h_done"
  BY <1>3 DEF HqPullCas, Move, hqHeap, HqFlowInv, HqFlow, HqReady, HqTypeOK
<1>5. HqKept' = HqKept
  BY <1>4, HqKeptNodes
<1>6. /\ HqHolds(t)' /\ HqLeavesHead(t)' /\ ~HqLeavesTail(t)' /\ ~HqLast(t)' /\ hq_pc'[t] # "ends_cas"
  BY <1>4 DEF HqHolds, HqHolding, HqLeavesHead, HqLeavesTail, HqLast
<1>7. PICK m : /\ m = hq_next[h].ptr /\ m \in NodesOf(c) /\ m # h /\ hq_tail.ptr # h
               /\ hq_head'.ptr = m /\ hq_head'.count = 0 /\ hq_data[h] # Null /\ H[m] = 0
  <2>1. h # hq_tail.ptr /\ hq_to[t] = hq_next[h] /\ hq_next[h].count = 0
    BY <1>1, <1>3, <1>4 DEF HqKnows, HqListInv
  <2>2. hq_next[h].ptr # 0 /\ hq_next[h].ptr \in NodesOf(c) /\ hq_next[h].ptr # h
    BY <1>1, <1>3, <2>1, HqPointers
  <2>3. hq_data[h] # Null /\ H[hq_next[h].ptr] = 0
    BY <1>1, <1>3, <2>2 DEF HqListInv, HqCountInv
  <2> QED
    BY <1>4, <2>1, <2>2, <2>3
<1>8. PICK d : d = Tail(c)
  OBVIOUS
<1>9. IsChain(d, m, HqNextPtrs) /\ NodesOf(d) = NodesOf(c) \ {h}
  <2>1. IsChain(c, h, HqNextPtrs) /\ h # 0 /\ HqNextPtrs[h] = m
    BY <1>1, <1>3, <1>7, NodesAssumption DEF HqListInv, HqNextPtrs
  <2> QED
    BY <1>8, <2>1, ChainTaken
<1>10. HqListInv(d)' /\ hq_head'.ptr \in NodesOf(d)
  BY <1>1, <1>4, <1>5, <1>7, <1>9 DEF HqListInv, HqNextPtrs
<1>11. ASSUME NEW u \in Threads \ {t}
       PROVE  HqUndisturbed(t, u, c, d, H, T, H, T)
  <2>1. /\ HqOwn(u, c, H, T) /\ HqLeaves(u, hq_old[u].ptr, c, H, T)
        /\ HqHolds(u) => HqKnows(u, hq_old[u].ptr, c) /\ hq_old[u].ptr \in Nodes
        /\ hq_pc[u] = "h_data" => HqHolds(u)
        /\ HqLeavesHead(u) => HqHolds(u)
        /\ HqLeavesTail(u) => HqHolds(u)
        /\ hq_pc[u] = "ends_cas" => HqHolds(u)
        /\ HqHolds(u) => hq_count[hq_old[u].ptr].internal \in Int
    BY HqReliesOn
  <2>2. hq_new[u] # 0 => hq_new[u] # h /\ hq_new[t] # hq_new[u]
    BY <1>2, <1>3, <2>1 DEF HqOwn
  <2>3. HqLeavesHead(u) => hq_old[u].ptr # h
    BY <1>3, <2>1 DEF HqLeaves
  <2> QED
    BY <1>2, <1>3, <1>4, <1>5, <1>6, <1>9, <2>1, <2>2, <2>3 DEF HqUndisturbed, HqSpares, HqKnows, HqOwn, HqLeaves
<1>12. HqOwn(t, d, H, T)'
  BY <1>4 DEF HqOwn
<1>13. HqLeaves(t, hq_old[t].ptr, d, H, T)'
  <2>1. H[h] = hq_old[t].count /\ hq_old'[t] = hq_old[t]
    BY <1>1, <1>3, <1>4 DEF HqCountInv
  <2>2. \A u \in Threads : HqLeavesHead(u)' /\ hq_old'[u].ptr = h => u = t
    <3>1. ASSUME NEW u \in Threads \ {t}, HqLeavesHead(u)'
          PROVE  hq_old'[u].ptr # h
      <4>1. HqLeavesHead(u) /\ hq_old'[u] = hq_old[u]
        BY <3>1 DEF HqAlone, HqLeavesHead
      <4>2. HqLeaves(u, hq_old[u].ptr, c, H, T)
        BY HqReliesOn
      <4> QED
        BY <1>3, <4>1, <4>2 DEF HqLeaves
    <3> QED
      BY <3>1
  <2>3. HqLeaves(t, h, d, H, T)'
    BY <1>3, <1>4, <1>6, <1>9, <2>1, <2>2 DEF HqLeaves
  <2> QED
    BY <1>3, <2>1, <2>3 DEF HqLeaves
<1>14. (HqHolds(t) => HqKnows(t, hq_old[t].ptr, d))'
  BY <1>3, <1>4, <1>5, <1>6, <1>7 DEF HqKnows
<1>15. HqThreadsInv(d, H, T)'
  <2>1. hq_head.ptr \notin NodesOf(d) /\ hq_tail'.ptr = hq_tail.ptr
    BY <1>3, <1>4, <1>9
  <2> QED
    BY <1>10, <1>11, <1>12, <1>13, <1>14, <2>1, HqThreadsKept
<1>16. HqCountInv(d, H, T)'
  <2>1. \A n \in HqKept : HqCounts(n, H[n], T[n])
    BY <1>1 DEF HqCountInv
  <2>2. \A n \in HqKept' : HqCounts(n, H[n], T[n])'
    BY <1>2, <1>4, <1>5, <1>6, <2>1, HqAllCountsKept
  <2> QED
    BY <1>1, <1>3, <1>4, <1>7, <1>9, <2>2 DEF HqCountInv
<1> QED
  BY <1>1, <1>10, <1>15, <1>16 DEF HqNodesInv

(* A pull() takes the element.                                             *)
LEMMA HqPullDataStep ==
  ASSUME NEW c, NEW H, NEW T, HqTypeOK, HqTypeOK', HqFlowInv, HqNodesInv(c, H, T),
         NEW t \in Threads, HqAlone(t), HqPullData(t), UNCHANGED hq_life
  PROVE  HqNodesInv(c, H, T)'
<1>1. /\ HqListInv(c) /\ HqThreadsInv(c, H, T) /\ HqCountInv(c, H, T)
      /\ H \in [Nodes -> Int] /\ T \in [Nodes -> Int]
  BY DEF HqNodesInv
<1>2. HqHolds(t) /\ HqLeavesHead(t)
  BY DEF HqPullData, Move, HqHolds, HqHolding, HqLeavesHead
<1>3. PICK h : h = hq_old[t].ptr /\ h \in Nodes /\ HqKnows(t, h, c) /\ HqLeaves(t, h, c, H, T) /\ h \notin NodesOf(c)
  BY <1>2, HqReliesOn DEF HqLeaves
<1>4. /\ UNCHANGED <<hq_head, hq_tail, hq_next, hq_count, hq_live, hq_new, hq_old>>
      /\ \A n \in Nodes : n # h => hq_data'[n] = hq_data[n]
      /\ hq_pc[t] = "h_data" /\ hq_pc'[t] = "ends_load" /\ hq_then'[t] = "h_done" /\ hq_new[t] = 0
  BY <1>3 DEF HqPullData, Move, hqLocals, HqFlowInv, HqFlow, HqReady, HqTypeOK
<1>5. HqKept' = HqKept
  BY <1>4 DEF HqKept
<1>6. /\ HqHolds(t)' /\ HqLeavesHead(t)' /\ ~HqLeavesTail(t)' /\ ~HqLast(t)' /\ hq_pc'[t] # "ends_cas"
  BY <1>4 DEF HqHolds, HqHolding, HqLeavesHead, HqLeavesTail, HqLast
<1>7. NodesOf(c) \subseteq Nodes /\ hq_head'.ptr \in NodesOf(c)
  BY <1>1, <1>4, HqPointers
<1>8. HqListInv(c)'
  BY <1>1, <1>3, <1>4, <1>5, <1>7 DEF HqListInv, HqNextPtrs
<1>9. ASSUME NEW u \in Threads \ {t}
      PROVE  HqUndisturbed(t, u, c, c, H, T, H, T)
  <2>1. /\ HqOwn(u, c, H, T) /\ HqLeaves(u, hq_old[u].ptr, c, H, T)
        /\ HqHolds(u) => HqKnows(u, hq_old[u].ptr, c) /\ hq_old[u].ptr \in Nodes
        /\ hq_new[u] # 0 => hq_new[u] \in Nodes
        /\ hq_pc[u] = "h_data" => HqHolds(u) /\ HqLeavesHead(u)
        /\ hq_pc[u] = "ends_cas" => HqHolds(u)
        /\ HqHolds(u) => hq_count[hq_old[u].ptr].internal \in Int
    BY HqReliesOn DEF HqLeavesHead
  <2>2. hq_new[u] # 0 => hq_new[u] # h /\ hq_new[t] # hq_new[u]
    BY <1>2, <1>3, <2>1 DEF HqOwn
  <2>3. HqLeavesHead(u) => hq_old[u].ptr # h
    BY <1>2, <1>3, <2>1 DEF HqLeaves
  <2> QED
    BY <1>2, <1>3, <1>4, <1>5, <1>6, <1>7, <2>1, <2>2, <2>3 DEF HqUndisturbed, HqSpares, HqKnows, HqOwn, HqLeaves
<1>10. HqOwn(t, c, H, T)'
  BY <1>4 DEF HqOwn
<1>11. HqLeaves(t, hq_old[t].ptr, c, H, T)'
  <2>1. \A u \in Threads : HqLeavesHead(u)' => HqLeavesHead(u) /\ hq_old'[u] = hq_old[u]
    BY <1>2, <1>4 DEF HqAlone, HqLeavesHead
  <2>2. HqLeaves(t, h, c, H, T)'
    BY <1>2, <1>3, <1>4, <1>6, <2>1 DEF HqLeaves
  <2> QED
    BY <1>3, <1>4, <2>2 DEF HqLeaves
<1>12. (HqHolds(t) => HqKnows(t, hq_old[t].ptr, c))'
  BY <1>3, <1>4, <1>5, <1>6 DEF HqKnows
<1>13. HqThreadsInv(c, H, T)'
  BY <1>4, <1>7, <1>9, <1>10, <1>11, <1>12, HqThreadsKept
<1>14. HqCountInv(c, H, T)'
  <2>1. \A n \in HqKept : HqCounts(n, H[n], T[n])
    BY <1>1 DEF HqCountInv
  <2>2. \A n \in HqKept' : HqCounts(n, H[n], T[n])'
    BY <1>2, <1>4, <1>5, <1>6, <2>1, HqAllCountsKept
  <2> QED
    BY <1>1, <1>4, <2>2 DEF HqCountInv
<1> QED
  BY <1>1, <1>8, <1>13, <1>14 DEF HqNodesInv
(* A push() links its node behind the last one.                            *)
LEMMA HqLinkStep ==
  ASSUME NEW c, NEW H, NEW T, HqTypeOK, HqTypeOK', HqFlowInv, HqNodesInv(c, H, T),
         NEW t \in Threads, HqAlone(t), HqLink(t) \/ HqHelp(t), hq_next[hq_old[t].ptr] = HqNull, UNCHANGED hq_life
  PROVE  \E d : HqNodesInv(d, H, T)'
<1>1. /\ HqListInv(c) /\ HqThreadsInv(c, H, T) /\ HqCountInv(c, H, T)
      /\ H \in [Nodes -> Int] /\ T \in [Nodes -> Int]
  BY DEF HqNodesInv
<1>2. HqHolds(t)
  BY DEF HqLink, HqHelp, HqHolds, HqHolding
<1>3. PICK h : h = hq_old[t].ptr /\ h \in Nodes /\ HqKnows(t, h, c)
  BY <1>2, HqReliesOn
<1>4. PICK k : /\ k = hq_new[t] /\ k \in Nodes /\ k # h /\ k \in HqKept /\ k \notin NodesOf(c)
               /\ hq_next[k].ptr = 0 /\ H[k] = 0 /\ T[k] = 0
               /\ \A u \in Threads : hq_new[u] = k => u = t
               /\ \A u \in Threads : HqHolds(u) => hq_old[u].ptr # k
  <2>1. hq_new[t] # 0
    BY DEF HqLink, HqHelp, HqFlowInv, HqFlow, HqReady
  <2>2. HqOwn(t, c, H, T) /\ hq_new[t] \in Nodes
    BY <2>1, HqReliesOn
  <2> QED
    BY <1>2, <1>3, <2>1, <2>2 DEF HqOwn
<1>5. /\ UNCHANGED <<hq_head, hq_tail, hq_data, hq_count, hq_live, hq_old>>
      /\ hq_next' = [hq_next EXCEPT ![h] = HqPtr(0, k)] /\ hq_to'[t] = HqPtr(0, k) /\ hq_new'[t] = 0
      /\ hq_pc[t] \in {"p_link", "p_help"} /\ hq_pc'[t] \in {"p_tail", "p_renew"}
  BY <1>3, <1>4 DEF HqLink, HqHelp, Move, HqFlowInv, HqTypeOK
<1>6. /\ hq_next'[h].ptr = k /\ hq_next'[h].count = 0 /\ hq_to'[t] = hq_next'[h]
      /\ \A n \in Nodes : n # h => hq_next'[n] = hq_next[n]
      /\ hq_next[h].ptr = 0
  BY <1>3, <1>5 DEF HqPtr, HqNull, HqTypeOK
<1>7. HqKept' = HqKept
  BY <1>5 DEF HqKept
<1>8. /\ HqHolds(t)' /\ ~HqLeavesHead(t)' /\ ~HqLeavesTail(t)' /\ ~HqLast(t)' /\ hq_pc'[t] # "ends_cas"
  BY <1>5 DEF HqHolds, HqHolding, HqLeavesHead, HqLeavesTail, HqLast
<1>9. /\ h = hq_tail.ptr /\ h \in NodesOf(c) /\ NodesOf(c) \subseteq Nodes /\ 0 \notin Nodes
      /\ hq_head.ptr \in NodesOf(c) /\ c \in Seq(Nodes) /\ c # << >>
  BY <1>1, <1>3, <1>5, <1>6, HqPointers DEF HqKnows
<1>10. PICK d : d = c \o <<k>>
  OBVIOUS
<1>11. IsChain(d, hq_head.ptr, HqNextPtrs') /\ NodesOf(d) = NodesOf(c) \cup {k}
  <2>1. PICK N \in Nat : N = Len(c) /\ N # 0 /\ DOMAIN c = 1 .. N /\ N \in 1 .. N
    BY <1>9
  <2>2. IsChain(c, hq_head.ptr, HqNextPtrs)
    BY <1>1 DEF HqListInv
  <2>3. c[N] = h
    <3>1. PICK i \in 1 .. N : c[i] = h
      BY <1>9, <2>1 DEF NodesOf
    <3>2. HqNextPtrs[c[i]] = IF i = N THEN 0 ELSE c[i + 1]
      BY <2>1, <2>2 DEF IsChain
    <3>3. HqNextPtrs[h] = 0
      BY <1>3, <1>6 DEF HqNextPtrs
    <3>4. i # N => c[i + 1] \in Nodes
      BY <1>9, <2>1
    <3> QED
      BY <1>9, <3>1, <3>2, <3>3, <3>4
  <2>4. PICK M : M = HqNextPtrs'
    OBVIOUS
  <2>5. \A n \in Nodes : M[n] = IF n = h THEN k ELSE HqNextPtrs[n]
    BY <1>3, <1>6, <2>4 DEF HqNextPtrs
  <2>6. IsPath(c, hq_head.ptr, M)
    <3>1. IsPath(c, hq_head.ptr, HqNextPtrs)
      BY <2>2, ChainIsPath
    <3>2. \A i \in 1 .. N : i # N => c[i] # h /\ c[i] \in Nodes
      BY <1>9, <2>1, <2>2, <2>3 DEF IsChain
    <3>3. \A i \in 1 .. Len(c) : i # Len(c) => M[c[i]] = HqNextPtrs[c[i]]
      BY <2>1, <2>5, <3>2
    <3> QED
      BY <3>1, <3>3, PathKept
  <2>7. IsChain(<<k>>, M[c[Len(c)]], M) /\ NodesOf(<<k>>) = {k}
    <3>1. M[c[Len(c)]] = k /\ M[k] = 0
      BY <1>3, <1>4, <2>1, <2>3, <2>5 DEF HqNextPtrs
    <3>2. NodesOf(<<k>>) = {k} /\ <<k>> \in Seq(Nodes) /\ Len(<<k>>) = 1 /\ <<k>>[1] = k
      BY <1>4, SinglePath
    <3> QED
      BY <3>1, <3>2 DEF IsChain
  <2>8. IsChain(d, hq_head.ptr, M) /\ NodesOf(d) = NodesOf(c) \cup NodesOf(<<k>>)
    <3>1. Len(c) # 0 /\ NodesOf(c) \cap NodesOf(<<k>>) = {}
      BY <1>4, <2>1, <2>7
    <3> QED
      BY <1>10, <2>6, <2>7, <3>1, ChainJoined
  <2> QED
    BY <2>4, <2>7, <2>8
<1>12. HqListInv(d)'
  <2>1. \A m \in Nodes : hq_next'[hq_tail'.ptr].ptr = m => hq_next'[m].ptr = 0
    BY <1>4, <1>5, <1>6, <1>9
  <2>2. \A n \in NodesOf(d) : hq_next'[n].ptr # 0 => hq_data'[n] # Null
    BY <1>1, <1>3, <1>4, <1>5, <1>6, <1>9, <1>11 DEF HqListInv, HqKnows
  <2>3. \A n \in Nodes : hq_next'[n].count = 0
    BY <1>1, <1>6 DEF HqListInv
  <2>4. NodesOf(d) \subseteq HqKept' /\ hq_tail'.ptr \in NodesOf(d) /\ hq_head' = hq_head
    BY <1>1, <1>4, <1>5, <1>7, <1>11 DEF HqListInv
  <2> QED
    BY <1>11, <2>1, <2>2, <2>3, <2>4 DEF HqListInv
<1>13. ASSUME NEW u \in Threads \ {t}
       PROVE  HqUndisturbed(t, u, c, d, H, T, H, T)
  <2>1. /\ HqOwn(u, c, H, T) /\ HqLeaves(u, hq_old[u].ptr, c, H, T)
        /\ HqHolds(u) => HqKnows(u, hq_old[u].ptr, c) /\ hq_old[u].ptr \in Nodes
        /\ hq_new[u] # 0 => hq_new[u] \in Nodes
        /\ hq_pc[u] = "h_data" => HqHolds(u)
        /\ HqLeavesHead(u) => HqHolds(u)
        /\ HqLeavesTail(u) => HqHolds(u)
        /\ hq_pc[u] = "ends_cas" => HqHolds(u)
        /\ HqHolds(u) => hq_count[hq_old[u].ptr].internal \in Int
    BY HqReliesOn
  <2>2. hq_new[u] # 0 => hq_new[u] # h /\ hq_new[u] # k
    BY <1>2, <1>3, <1>4, <2>1 DEF HqOwn
  <2>3. HqHolds(u) => hq_old[u].ptr # k /\ hq_old[u].ptr # 0
    BY <1>4, <1>9, <2>1
  <2>4. HqHolds(u) => HqSpares(hq_old[u].ptr, NodesOf(c), NodesOf(d))
    BY <1>5, <1>6, <1>7, <1>11, <2>1, <2>3 DEF HqSpares, HqKnows
  <2> QED
    BY <1>2, <1>3, <1>4, <1>5, <1>6, <1>7, <1>8, <1>9, <1>11, <2>1, <2>2, <2>3, <2>4
       DEF HqUndisturbed, HqKnows, HqOwn, HqLeaves
<1>14. HqOwn(t, d, H, T)' /\ HqLeaves(t, hq_old[t].ptr, d, H, T)'
  BY <1>5, <1>8 DEF HqOwn, HqLeaves
<1>15. (HqHolds(t) => HqKnows(t, hq_old[t].ptr, d))'
  BY <1>3, <1>4, <1>5, <1>6, <1>7, <1>8, <1>9 DEF HqKnows
<1>16. HqThreadsInv(d, H, T)'
  <2>1. hq_head'.ptr \in NodesOf(d)
    BY <1>5, <1>9, <1>11
  <2> QED
    BY <1>5, <1>13, <1>14, <1>15, <2>1, HqThreadsKept
<1>17. HqCountInv(d, H, T)'
  <2>1. \A n \in HqKept : HqCounts(n, H[n], T[n])
    BY <1>1 DEF HqCountInv
  <2>2. \A n \in HqKept' : HqCounts(n, H[n], T[n])'
    BY <1>2, <1>5, <1>7, <1>8, <2>1, HqAllCountsKept
  <2> QED
    BY <1>1, <1>4, <1>5, <1>6, <1>9, <1>11, <2>2 DEF HqCountInv
<1> QED
  BY <1>1, <1>12, <1>16, <1>17 DEF HqNodesInv

(* A push() whose node was linked for it deletes the one it has ready.     *)
LEMMA HqDropStep ==
  ASSUME NEW c, NEW H, NEW T, HqTypeOK, HqTypeOK', HqFlowInv, HqNodesInv(c, H, T),
         NEW t \in Threads, HqAlone(t), HqLink(t), hq_next[hq_old[t].ptr] # HqNull, UNCHANGED hq_life
  PROVE  HqNodesInv(c, H, T)'
<1>1. /\ HqListInv(c) /\ HqThreadsInv(c, H, T) /\ HqCountInv(c, H, T)
      /\ H \in [Nodes -> Int] /\ T \in [Nodes -> Int]
  BY DEF HqNodesInv
<1>2. HqHolds(t)
  BY DEF HqLink, HqHolds, HqHolding
<1>3. PICK h : h = hq_old[t].ptr /\ h \in Nodes /\ HqKnows(t, h, c)
  BY <1>2, HqReliesOn
<1>4. PICK k : /\ k = hq_new[t] /\ k \in Nodes /\ k # h /\ k \in HqKept /\ k \notin NodesOf(c)
               /\ \A u \in Threads : hq_new[u] = k => u = t
               /\ \A u \in Threads : HqHolds(u) => hq_old[u].ptr # k
               /\ hq_count[k] # Zero
  <2>1. hq_new[t] # 0
    BY DEF HqLink, HqFlowInv, HqFlow, HqReady
  <2>2. HqOwn(t, c, H, T) /\ hq_new[t] \in Nodes
    BY <2>1, HqReliesOn
  <2>3. hq_count[hq_new[t]] # Zero
    <3>1. HqCounts(hq_new[t], 0, 0)
      BY <1>1, <2>1, <2>2 DEF HqOwn, HqCountInv
    <3>2. hq_count[hq_new[t]].external \in 0 .. 3
      BY <2>2 DEF HqTypeOK, HqCounters
    <3> QED
      BY <3>1, <3>2 DEF HqCounts, Ends, Zero
  <2> QED
    BY <1>2, <1>3, <2>1, <2>2, <2>3 DEF HqOwn
<1>5. /\ UNCHANGED <<hq_head, hq_tail, hq_data, hq_count, hq_next, hq_old>>
      /\ hq_live' = hq_live \ {k} /\ hq_to'[t] = hq_next[h] /\ hq_new'[t] = 0
      /\ hq_pc[t] = "p_link" /\ hq_pc'[t] = "p_tail"
  BY <1>3, <1>4 DEF HqLink, Move, HqFlowInv, HqTypeOK
<1>6. HqKept' = HqKept \ {k}
  BY <1>5, HqKeptNodes
<1>7. /\ HqHolds(t)' /\ ~HqLeavesHead(t)' /\ ~HqLeavesTail(t)' /\ ~HqLast(t)' /\ hq_pc'[t] # "ends_cas"
  BY <1>5 DEF HqHolds, HqHolding, HqLeavesHead, HqLeavesTail, HqLast
<1>8. hq_next[h].ptr # 0
  BY <1>1, <1>3, HqNextIs
<1>9. HqListInv(c)' /\ hq_head'.ptr \in NodesOf(c)
  BY <1>1, <1>4, <1>5, <1>6, HqPointers DEF HqListInv, HqNextPtrs
<1>10. ASSUME NEW u \in Threads \ {t}
       PROVE  HqUndisturbed(t, u, c, c, H, T, H, T)
  <2>1. /\ HqOwn(u, c, H, T) /\ HqLeaves(u, hq_old[u].ptr, c, H, T)
        /\ HqHolds(u) => HqKnows(u, hq_old[u].ptr, c) /\ hq_old[u].ptr \in Nodes
        /\ hq_pc[u] = "h_data" => HqHolds(u)
        /\ HqLeavesHead(u) => HqHolds(u)
        /\ HqLeavesTail(u) => HqHolds(u)
        /\ hq_pc[u] = "ends_cas" => HqHolds(u)
        /\ HqHolds(u) => hq_count[hq_old[u].ptr].internal \in Int
    BY HqReliesOn
  <2>2. hq_new[u] # 0 => hq_new[u] # h /\ hq_new[u] # k
    BY <1>2, <1>3, <1>4, <2>1 DEF HqOwn
  <2>3. HqHolds(u) => HqSpares(hq_old[u].ptr, NodesOf(c), NodesOf(c))
    BY <1>4, <1>5, <1>6, <2>1 DEF HqSpares, HqKnows
  <2>4. HqLast(u) => hq_old[u].ptr # k
    BY <1>4, <2>1 DEF HqLeaves
  <2> QED
    BY <1>2, <1>3, <1>4, <1>5, <1>6, <1>7, <2>1, <2>2, <2>3, <2>4
       DEF HqUndisturbed, HqKnows, HqOwn, HqLeaves
<1>11. HqOwn(t, c, H, T)' /\ HqLeaves(t, hq_old[t].ptr, c, H, T)'
  BY <1>5, <1>7 DEF HqOwn, HqLeaves
<1>12. (HqHolds(t) => HqKnows(t, hq_old[t].ptr, c))'
  BY <1>3, <1>4, <1>5, <1>6, <1>7, <1>8 DEF HqKnows
<1>13. HqThreadsInv(c, H, T)'
  BY <1>5, <1>9, <1>10, <1>11, <1>12, HqThreadsKept
<1>14. HqCountInv(c, H, T)'
  <2>1. \A n \in HqKept : HqCounts(n, H[n], T[n])
    BY <1>1 DEF HqCountInv
  <2>2. \A n \in HqKept' : HqCounts(n, H[n], T[n])'
    BY <1>2, <1>5, <1>6, <1>7, <2>1, HqAllCountsKept
  <2> QED
    BY <1>1, <1>5, <2>2 DEF HqCountInv
<1> QED
  BY <1>1, <1>9, <1>13, <1>14 DEF HqNodesInv
(* A thread gives up a node n, or deletes it when it was the last to.  The *)
(* counts of n, and which ends have theirs there (G and K for H and T),    *)
(* may change.                                                             *)
LEMMA HqReleaseStep ==
  ASSUME NEW c, NEW H, NEW T, NEW G \in [Nodes -> Int], NEW K \in [Nodes -> Int],
         HqTypeOK, HqTypeOK', HqNodesInv(c, H, T), NEW t \in Threads, HqAlone(t), NEW n \in Nodes,
         UNCHANGED <<hq_head, hq_tail, hq_data, hq_next, hq_new, hq_old>>,
         ~HqHolds(t)', HqHolds(t) => hq_old[t].ptr = n,
         \A m \in Nodes : m # n => hq_count'[m] = hq_count[m] /\ G[m] = H[m] /\ K[m] = T[m],
         \A u \in Threads : hq_new[u] # n,
         n \in NodesOf(c) => G[n] = H[n],
         n = hq_tail.ptr \/ n = hq_next[hq_tail.ptr].ptr => K[n] = T[n],
         HqKept \ {n} \subseteq HqKept', HqKept' \subseteq HqKept,
         n \in HqKept' => HqCounts(n, G[n], K[n])',
         n \notin HqKept' => /\ n \notin NodesOf(c)
                             /\ \A u \in Threads \ {t} : HqHolds(u) => hq_old[u].ptr # n,
         \A u \in Threads \ {t} : hq_old[u].ptr = n =>
           /\ HqLeavesHead(u) => G[n] = H[n]
           /\ HqLeavesTail(u) => K[n] = T[n]
           /\ hq_pc[u] = "ends_cas" /\ hq_count[n].external = 1 =>
                hq_count'[n].external = 1 /\ hq_count'[n].internal <= hq_count[n].internal
           /\ ~HqLast(u),
         HqLast(t)' => hq_old[t].ptr = n /\ n \in HqKept' /\ hq_count'[n] = Zero
  PROVE  HqNodesInv(c, G, K)'
<1>1. /\ HqListInv(c) /\ HqThreadsInv(c, H, T) /\ HqCountInv(c, H, T)
      /\ H \in [Nodes -> Int] /\ T \in [Nodes -> Int]
  BY DEF HqNodesInv
<1>2. ~HqLeavesHead(t)' /\ ~HqLeavesTail(t)' /\ hq_pc'[t] # "ends_cas"
  BY DEF HqHolds, HqHolding, HqLeavesHead, HqLeavesTail
<1>3. /\ NodesOf(c) \subseteq Nodes /\ hq_head'.ptr \in NodesOf(c) /\ hq_tail.ptr \in NodesOf(c)
      /\ NodesOf(c) \subseteq HqKept /\ HqKept \subseteq Nodes
  BY <1>1, HqPointers, HqReliesOn
<1>4. NodesOf(c) \subseteq HqKept'
  BY <1>3
<1>5. HqListInv(c)'
  BY <1>1, <1>4 DEF HqListInv, HqNextPtrs
<1>6. ASSUME NEW u \in Threads \ {t}
      PROVE  HqUndisturbed(t, u, c, c, H, T, G, K)
  <2>1. /\ HqOwn(u, c, H, T) /\ HqLeaves(u, hq_old[u].ptr, c, H, T)
        /\ HqHolds(u) => HqKnows(u, hq_old[u].ptr, c) /\ hq_old[u].ptr \in Nodes
        /\ hq_new[u] # 0 => hq_new[u] \in Nodes
        /\ hq_pc[u] = "h_data" => HqHolds(u)
        /\ HqLeavesHead(u) => HqHolds(u)
        /\ HqLeavesTail(u) => HqHolds(u)
        /\ hq_pc[u] = "ends_cas" => HqHolds(u)
        /\ HqHolds(u) => hq_count[hq_old[u].ptr].internal \in Int
    BY HqReliesOn
  <2>2. HqHolds(u) => HqSpares(hq_old[u].ptr, NodesOf(c), NodesOf(c))
    BY <2>1 DEF HqSpares, HqKnows
  <2>3. hq_pc[u] = "h_data" => hq_data'[hq_old[u].ptr] # Null
    BY <2>1 DEF HqKnows
  <2>4. hq_new[u] # 0 =>
          /\ hq_new[u] \in HqKept' /\ hq_new[u] \notin NodesOf(c) /\ hq_new'[t] # hq_new[u]
          /\ G[hq_new[u]] = H[hq_new[u]] /\ K[hq_new[u]] = T[hq_new[u]]
    BY <2>1 DEF HqOwn
  <2>5. /\ HqLeavesHead(u) => G[hq_old[u].ptr] = H[hq_old[u].ptr]
        /\ HqLeavesTail(u) => /\ K[hq_old[u].ptr] = T[hq_old[u].ptr]
                              /\ hq_old[u].ptr # hq_tail.ptr /\ hq_old[u].ptr # hq_next[hq_tail.ptr].ptr
    BY <2>1 DEF HqLeaves
  <2>6. hq_pc[u] = "ends_cas" /\ hq_count[hq_old[u].ptr].external = 1 =>
          /\ hq_count'[hq_old[u].ptr].external = 1
          /\ hq_count'[hq_old[u].ptr].internal <= hq_count[hq_old[u].ptr].internal
    BY <2>1
  <2>7. HqLast(u) => /\ hq_old[u].ptr \in HqKept' /\ hq_count'[hq_old[u].ptr] = hq_count[hq_old[u].ptr]
                     /\ HqLast(t)' => hq_old'[t].ptr # hq_old[u].ptr
    BY <1>3, <2>1 DEF HqLeaves
  <2> QED
    BY <1>2, <2>2, <2>3, <2>4, <2>5, <2>6, <2>7 DEF HqUndisturbed
<1>7. HqOwn(t, c, G, K)'
  <2>1. HqOwn(t, c, H, T) /\ (hq_new[t] # 0 => hq_new[t] \in Nodes)
    BY HqReliesOn
  <2>2. hq_new[t] # 0 => /\ hq_new[t] \in HqKept' /\ hq_new[t] \notin NodesOf(c)
                         /\ G[hq_new[t]] = H[hq_new[t]] /\ K[hq_new[t]] = T[hq_new[t]]
    BY <2>1 DEF HqOwn
  <2> QED
    BY <2>1, <2>2, HqOwnKept
<1>8. HqLeaves(t, hq_old[t].ptr, c, G, K)'
  <2>1. \A u \in Threads : HqLast(u)' /\ hq_old'[u].ptr = n => u = t
    BY DEF HqAlone, HqLast
  <2> QED
    BY <1>2, <2>1 DEF HqLeaves
<1>9. (HqHolds(t) => HqKnows(t, hq_old[t].ptr, c))'
  OBVIOUS
<1>10. HqThreadsInv(c, G, K)'
  BY <1>3, <1>6, <1>7, <1>8, <1>9, HqThreadsKept
<1>11. ASSUME NEW m \in HqKept'
       PROVE  HqCounts(m, G[m], K[m])'
  <2>1. CASE m # n
    <3>1. t \in HqUsers(m) <=> t \in HqUsers(m)'
      BY <2>1 DEF HqUsers
    <3>2. HqCounts(m, H[m], T[m]) /\ G[m] = H[m] /\ K[m] = T[m] /\ hq_count'[m] = hq_count[m]
      BY <1>1, <1>3, <2>1 DEF HqCountInv
    <3> QED
      BY <3>1, <3>2, HqCountsKept
  <2> QED
    BY <2>1
<1>12. HqCountInv(c, G, K)'
  <2>1. \A m \in NodesOf(c) : G[m] = H[m]
    BY <1>3
  <2>2. K[hq_tail.ptr] = T[hq_tail.ptr] /\ \A m \in Nodes : hq_next[hq_tail.ptr].ptr = m => K[m] = T[m]
    BY <1>3
  <2> QED
    BY <1>1, <1>3, <1>11, <2>1, <2>2 DEF HqCountInv
<1> QED
  BY <1>5, <1>10, <1>12 DEF HqNodesInv
(* A node that one thread gives up by normal_release_ref.                  *)
LEMMA HqCountsOneLess ==
  ASSUME NEW t \in Threads, HqAlone(t), NEW n, NEW x \in Int, NEW y \in Int, HqCounts(n, x, y),
         hq_count[n].internal \in Int, t \in HqUsers(n), t \notin HqUsers(n)',
         hq_count'[n].external = hq_count[n].external, hq_count'[n].internal = hq_count[n].internal - 1
  PROVE  HqCounts(n, x, y)'
<1>1. PICK k : k = Cardinality(HqUsers(n)) /\ k \in Nat
  BY HqUsersThen
<1>2. Cardinality(HqUsers(n)') = k - 1
  BY <1>1, HqUsersThen
<1>3. AtEnd(x) \in Nat /\ AtEnd(y) \in Nat /\ Ends(x) \in {0, 1} /\ Ends(y) \in {0, 1}
  BY DEF Ends, AtEnd
<1> QED
  BY <1>1, <1>2, <1>3 DEF HqCounts

(* A node without a count from either end has as many users as it says.    *)
LEMMA HqNoEnds ==
  ASSUME NEW n, NEW x \in Int, NEW y \in Int, HqCounts(n, x, y), hq_count[n].external = 0,
         hq_count[n].internal \in Int
  PROVE  x \notin Nat /\ y \notin Nat /\ Cardinality(HqUsers(n)) = hq_count[n].internal
<1>1. Ends(x) + Ends(y) = 0 /\ x < 0 /\ y < 0
  <2>1. Ends(x) \in {0, 1} /\ Ends(y) \in {0, 1} /\ (x >= 0 => Ends(x) = 1) /\ (y >= 0 => Ends(y) = 1)
    BY DEF Ends
  <2>2. 0 >= Ends(x) + Ends(y)
    BY DEF HqCounts
  <2> QED
    BY <2>1, <2>2
<1>2. AtEnd(x) = 0 /\ AtEnd(y) = 0
  BY <1>1 DEF AtEnd
<1> QED
  BY <1>1, <1>2 DEF HqCounts

(* A node that no end counts, any more, is not in the queue, and is no     *)
(* push()'s.                                                               *)
LEMMA HqOutOfQueue ==
  ASSUME NEW c, NEW H, NEW T, HqTypeOK, HqNodesInv(c, H, T), NEW n \in Nodes, H[n] \notin Nat
  PROVE  /\ n \notin NodesOf(c) /\ \A u \in Threads : hq_new[u] # n
<1>1. HqListInv(c) /\ HqThreadsInv(c, H, T) /\ HqCountInv(c, H, T)
  BY DEF HqNodesInv
<1>2. n \notin NodesOf(c)
  <2>1. hq_head.count \in Nat
    BY DEF HqTypeOK, HqPtrs
  <2> QED
    BY <1>1, <2>1 DEF HqCountInv
<1>3. \A u \in Threads : hq_new[u] # n
  <2>1. 0 \notin Nodes
    BY NodesAssumption
  <2> QED
    BY <1>1, <2>1 DEF HqThreadsInv, HqOwn
<1> QED
  BY <1>2, <1>3

(* normal_release_ref: the thread gives up its node.                       *)
LEMMA HqNormalStep ==
  ASSUME NEW c, NEW H, NEW T, HqTypeOK, HqTypeOK', HqFlowInv, HqNodesInv(c, H, T),
         NEW t \in Threads, HqAlone(t), HqNormal(t), UNCHANGED hq_life
  PROVE  HqNodesInv(c, H, T)'
<1>1. /\ HqListInv(c) /\ HqThreadsInv(c, H, T) /\ HqCountInv(c, H, T)
      /\ H \in [Nodes -> Int] /\ T \in [Nodes -> Int]
  BY DEF HqNodesInv
<1>2. HqHolds(t)
  BY DEF HqNormal, Move, HqHolds, HqHolding
<1>3. PICK n : n = hq_old[t].ptr /\ n \in Nodes /\ n \in HqKept /\ hq_count[n].internal \in Int
  BY <1>2, HqReliesOn DEF HqKnows
<1>4. /\ UNCHANGED <<hq_head, hq_tail, hq_data, hq_next, hq_new, hq_old>>
      /\ ~HqHolds(t)' /\ ~HqLast(t)'
  BY DEF HqNormal, Move, hqLocals, HqFlowInv, HqFlow, HqHolds, HqHolding, HqLast
<1>5. /\ \A m \in Nodes : m # n => hq_count'[m] = hq_count[m]
      /\ hq_count'[n].external = hq_count[n].external /\ hq_count'[n].internal = hq_count[n].internal - 1
      /\ hq_live' = IF hq_count'[n].internal = 0 /\ hq_count'[n].external = 0 THEN hq_live \ {n} ELSE hq_live
  BY <1>3 DEF HqNormal, HqTypeOK, HqCounters
<1>6. HqKept = hq_live /\ HqKept' = hq_live'
  <2>1. hq_pc[t] # "idle"
    BY DEF HqNormal, Move
  <2> QED
    BY <2>1, HqKeptNodes
<1>7. t \in HqUsers(n) /\ t \notin HqUsers(n)' /\ HqCounts(n, H[n], T[n]) /\ H[n] \in Int /\ T[n] \in Int
  BY <1>1, <1>2, <1>3, <1>4 DEF HqUsers, HqCountInv
<1>8. HqCounts(n, H[n], T[n])'
  BY <1>3, <1>5, <1>7, HqCountsOneLess
<1>9. ASSUME n \notin HqKept'
      PROVE  n \notin NodesOf(c) /\ \A u \in Threads \ {t} : HqHolds(u) => hq_old[u].ptr # n
  <2>1. hq_count[n].external = 0 /\ hq_count[n].internal = 1
    BY <1>3, <1>5, <1>6, <1>9
  <2>2. H[n] \notin Nat /\ Cardinality(HqUsers(n)) = 1
    BY <1>7, <2>1, HqNoEnds
  <2>3. HqUsers(n) = {t}
    BY <1>7, <2>2, HqUsersThen
  <2> QED
    BY <1>3, <2>2, <2>3, HqOutOfQueue DEF HqUsers
<1>10. \A u \in Threads : hq_new[u] # n
  BY <1>2, <1>3, HqReliesOn, NodesAssumption DEF HqOwn
<1>11. ASSUME NEW u \in Threads \ {t}, hq_old[u].ptr = n
       PROVE  /\ hq_pc[u] = "ends_cas" /\ hq_count[n].external = 1 =>
                   hq_count'[n].external = 1 /\ hq_count'[n].internal <= hq_count[n].internal
              /\ ~HqLast(u)
  <2>1. ASSUME HqLast(u)
        PROVE  FALSE
    <3>1. hq_count[n] = Zero
      BY <1>11, <2>1, HqReliesOn DEF HqLeaves
    <3>2. Cardinality(HqUsers(n)) = 0
      BY <1>7, <3>1, HqNoEnds DEF Zero
    <3> QED
      BY <1>7, <3>2, HqUsersThen
  <2> QED
    BY <1>3, <1>5, <2>1
<1>12. HqKept \ {n} \subseteq HqKept' /\ HqKept' \subseteq HqKept
  BY <1>5, <1>6
<1> QED
  BY <1>1, <1>3, <1>4, <1>5, <1>8, <1>9, <1>10, <1>11, <1>12, HqReleaseStep
(* A node whose count at the head (x) or at the tail (y) one thread gives  *)
(* up.  When its compare-and-swap failed the node keeps that count, and    *)
(* with it a count too many for ever.                                      *)
LEMMA HqCountsEndGone ==
  ASSUME NEW t \in Threads, HqAlone(t), NEW n, NEW x \in Int, NEW y \in Int, HqCounts(n, x, y),
         hq_count[n].internal \in Int, hq_count[n].external \in {1, 2}, t \in HqUsers(n), t \notin HqUsers(n)',
         NEW mine \in Nat,
         \/ hq_count'[n] = hq_count[n]
         \/ /\ hq_count'[n].internal = hq_count[n].internal + mine - 1
            /\ hq_count'[n].external = hq_count[n].external - 1
  PROVE  /\ x = mine => HqCounts(n, -1, y)'
         /\ y = mine => HqCounts(n, x, -1)'
<1>1. PICK k : k = Cardinality(HqUsers(n)) /\ k \in Nat
  BY HqUsersThen
<1>2. Cardinality(HqUsers(n)') = k - 1
  BY <1>1, HqUsersThen
<1>3. /\ AtEnd(x) \in Nat /\ AtEnd(y) \in Nat /\ Ends(x) \in {0, 1} /\ Ends(y) \in {0, 1}
      /\ Ends(-1) = 0 /\ AtEnd(-1) = 0
      /\ x = mine => Ends(x) = 1 /\ AtEnd(x) = mine
      /\ y = mine => Ends(y) = 1 /\ AtEnd(y) = mine
  BY DEF Ends, AtEnd
<1>4. /\ hq_count[n].external >= Ends(x) + Ends(y)
      /\ hq_count[n].external = Ends(x) + Ends(y) => k = hq_count[n].internal + AtEnd(x) + AtEnd(y)
  BY <1>1 DEF HqCounts
<1>5. CASE hq_count'[n] = hq_count[n]
  BY <1>3, <1>4, <1>5 DEF HqCounts
<1>6. CASE /\ hq_count'[n].internal = hq_count[n].internal + mine - 1
           /\ hq_count'[n].external = hq_count[n].external - 1
  <2>1. x = mine => HqCounts(n, -1, y)'
    BY <1>2, <1>3, <1>4, <1>6 DEF HqCounts
  <2>2. y = mine => HqCounts(n, x, -1)'
    BY <1>2, <1>3, <1>4, <1>6 DEF HqCounts
  <2> QED
    BY <2>1, <2>2
<1> QED
  BY <1>5, <1>6

(* The last end that leaves a node, and finds that it is the last, finds   *)
(* the count that it loaded: its compare-and-swap succeeds.                *)
LEMMA HqLastSwaps ==
  ASSUME NEW c, NEW H, NEW T, HqTypeOK, HqNodesInv(c, H, T), NEW t \in Threads, hq_pc[t] = "ends_cas",
         EndLeft(hq_curr[t], hq_old[t].count) = Zero
  PROVE  hq_count[hq_old[t].ptr] = hq_curr[t]
<1>1. (HqLeavesHead(t) \/ HqLeavesTail(t)) /\ HqHolds(t)
  BY DEF HqLeavesHead, HqLeavesTail, HqHolds, HqHolding
<1>2. PICK n : n = hq_old[t].ptr
  OBVIOUS
<1>3. PICK mine : mine = hq_old[t].count
  OBVIOUS
<1>4. /\ n \in HqKept \cap Nodes /\ mine \in Nat
      /\ HqLeavesHead(t) => Ends(H[n]) = 1 /\ AtEnd(H[n]) = mine
      /\ HqLeavesTail(t) => Ends(T[n]) = 1 /\ AtEnd(T[n]) = mine
      /\ hq_count[n].internal \in Int /\ Ends(H[n]) \in {0, 1} /\ Ends(T[n]) \in {0, 1}
  BY <1>1, <1>2, <1>3, HqEndCounted
<1>5. /\ hq_curr[t] \in HqCounters /\ hq_count[n] \in HqCounters /\ H[n] \in Int /\ T[n] \in Int
      /\ hq_curr[t].internal \in Int
  BY <1>4 DEF HqTypeOK, HqNodesInv, HqCounters
<1>6. hq_curr[t].external = 1 /\ hq_curr[t].internal + mine = 1
  <2>1. hq_curr[t].external \in {1, 2}
    BY HqReliesOn DEF HqLeaves
  <2>2. PICK curr : curr = hq_curr[t]
    OBVIOUS
  <2>3. /\ EndLeft(curr, mine).internal = curr.internal + mine - 1
        /\ curr.external # 0 /\ curr.external # 1 => EndLeft(curr, mine) # Zero
    <3>1. curr \in HqCounters /\ mine \in Int
      BY <1>4, <1>5, <2>2
    <3> QED
      BY ONLY <3>1, EndLeftIs
  <2>4. EndLeft(curr, mine) = Zero /\ Zero.internal = 0
    BY <1>3, <2>2 DEF Zero
  <2> QED
    BY <1>4, <1>5, <2>1, <2>2, <2>3, <2>4
<1>7. hq_count[n].external = 1 /\ hq_count[n].internal <= hq_curr[t].internal
  BY <1>2, <1>6, HqReliesOn DEF HqLeaves
<1>8. HqCounts(n, H[n], T[n])
  BY <1>4 DEF HqNodesInv, HqCountInv
<1>9. Cardinality(HqUsers(n)) = hq_count[n].internal + mine
  <2>1. Ends(H[n]) + Ends(T[n]) <= 1
    BY <1>7, <1>8, <1>4 DEF HqCounts
  <2>2. (Ends(H[n]) = 0 => AtEnd(H[n]) = 0) /\ (Ends(T[n]) = 0 => AtEnd(T[n]) = 0)
    BY <1>5 DEF Ends, AtEnd
  <2>3. Ends(H[n]) + Ends(T[n]) = 1 /\ AtEnd(H[n]) + AtEnd(T[n]) = mine
    BY <1>1, <1>4, <2>1, <2>2
  <2>4. AtEnd(H[n]) \in Int /\ AtEnd(T[n]) \in Int
    BY <1>5 DEF AtEnd
  <2> QED
    BY <1>4, <1>7, <1>8, <2>3, <2>4 DEF HqCounts
<1>10. Cardinality(HqUsers(n)) \in Nat /\ Cardinality(HqUsers(n)) # 0
  <2>1. t \in HqUsers(n)
    BY <1>1, <1>2 DEF HqUsers
  <2>2. Cardinality(HqUsers(n)) \in Nat /\ (Cardinality(HqUsers(n)) = 0 <=> HqUsers(n) = {})
    BY ThreadSets DEF HqUsers
  <2> QED
    BY <2>1, <2>2
<1>11. hq_count[n].internal = hq_curr[t].internal
  BY <1>4, <1>5, <1>6, <1>7, <1>9, <1>10
<1> QED
  BY <1>2, <1>5, <1>6, <1>7, <1>11 DEF HqCounters

(* The first compare-and-swap of ends_release_ref.  Whether it succeeds or *)
(* not, the thread has given up its node.                                  *)
LEMMA HqEndsStep ==
  ASSUME NEW c, NEW H, NEW T, HqTypeOK, HqTypeOK', HqFlowInv, HqNodesInv(c, H, T),
         NEW t \in Threads, HqAlone(t), HqEndsCas(t), hq_pc[t] = "ends_cas", UNCHANGED hq_life
  PROVE  \E G, K : HqNodesInv(c, G, K)'
<1>1. /\ HqListInv(c) /\ HqThreadsInv(c, H, T) /\ HqCountInv(c, H, T)
      /\ H \in [Nodes -> Int] /\ T \in [Nodes -> Int]
  BY DEF HqNodesInv
<1>2. HqHolds(t) /\ (HqLeavesHead(t) \/ HqLeavesTail(t)) /\ (HqLeavesHead(t) => ~HqLeavesTail(t))
  BY DEF HqHolds, HqHolding, HqLeavesHead, HqLeavesTail
<1>3. PICK n, mine :
        /\ n = hq_old[t].ptr /\ mine = hq_old[t].count
        /\ n \in Nodes /\ n \in HqKept /\ mine \in Nat
        /\ hq_count[n].external \in {1, 2} /\ hq_count[n].internal \in Int
  <2>1. PICK n, mine : n = hq_old[t].ptr /\ mine = hq_old[t].count
    OBVIOUS
  <2> QED
    BY <1>2, <2>1, HqEndCounted
<1>4. /\ UNCHANGED <<hq_head, hq_tail, hq_data, hq_next, hq_new, hq_old, hq_curr>>
      /\ ~HqHolds(t)' /\ hq_pc'[t] = IF hq_count[n] = hq_curr[t] THEN "ends_again" ELSE hq_then[t]
  BY <1>3 DEF HqEndsCas, Move, hqLocals, HqFlowInv, HqFlow, HqHolds, HqHolding
<1>5. /\ \A m \in Nodes : m # n => hq_count'[m] = hq_count[m]
      /\ hq_count[n] # hq_curr[t] => hq_count'[n] = hq_count[n]
      /\ hq_count[n] = hq_curr[t] => hq_count'[n] = EndLeft(hq_curr[t], mine)
  BY <1>3 DEF HqEndsCas, HqTypeOK
<1>6. HqKept = hq_live /\ HqKept' = hq_live' /\ hq_live' = hq_live
  <2>1. HqKept = hq_live /\ HqKept' = hq_live'
    BY HqKeptNodes
  <2>2. EndLeft(hq_curr[t], mine) = Zero => hq_count[n] = hq_curr[t]
    BY <1>3, HqLastSwaps
  <2> QED
    BY <1>3, <2>1, <2>2 DEF HqEndsCas, Zero
<1>7. \/ hq_count'[n] = hq_count[n]
      \/ /\ hq_count'[n].internal = hq_count[n].internal + mine - 1
         /\ hq_count'[n].external = hq_count[n].external - 1
  <2>1. PICK curr \in HqCounters : curr = hq_curr[t]
    BY DEF HqTypeOK
  <2>2. /\ EndLeft(curr, mine).internal = curr.internal + mine - 1
        /\ curr.external # 0 => EndLeft(curr, mine).external = curr.external - 1
    <3>1. mine \in Int
      BY <1>3
    <3> QED
      BY ONLY <2>1, <3>1, EndLeftIs
  <2> QED
    BY <1>3, <1>5, <2>1, <2>2
<1>8. t \in HqUsers(n) /\ t \notin HqUsers(n)' /\ HqCounts(n, H[n], T[n]) /\ H[n] \in Int /\ T[n] \in Int
  BY <1>1, <1>2, <1>3, <1>4 DEF HqUsers, HqCountInv
<1>9. PICK G, K : /\ G = IF HqLeavesHead(t) THEN [H EXCEPT ![n] = -1] ELSE H
                  /\ K = IF HqLeavesTail(t) THEN [T EXCEPT ![n] = -1] ELSE T
  OBVIOUS
<1>10. /\ G \in [Nodes -> Int] /\ K \in [Nodes -> Int]
       /\ \A m \in Nodes : m # n => G[m] = H[m] /\ K[m] = T[m]
       /\ HqLeavesHead(t) => G[n] = -1 /\ K[n] = T[n]
       /\ HqLeavesTail(t) => G[n] = H[n] /\ K[n] = -1
  BY <1>1, <1>2, <1>3, <1>9
<1>11. /\ HqLeavesHead(t) => /\ H[n] = mine /\ n \notin NodesOf(c)
                             /\ \A u \in Threads : HqLeavesHead(u) /\ hq_old[u].ptr = n => u = t
       /\ HqLeavesTail(t) => /\ T[n] = mine /\ n # hq_tail.ptr /\ n # hq_next[hq_tail.ptr].ptr
                             /\ \A u \in Threads : HqLeavesTail(u) /\ hq_old[u].ptr = n => u = t
  BY <1>3, HqReliesOn DEF HqLeaves
<1>12. HqCounts(n, G[n], K[n])'
  <2>1. /\ H[n] = mine => HqCounts(n, -1, T[n])'
        /\ T[n] = mine => HqCounts(n, H[n], -1)'
    BY <1>3, <1>7, <1>8, HqCountsEndGone
  <2> QED
    BY <1>2, <1>10, <1>11, <2>1
<1>13. \A u \in Threads : hq_new[u] # n
  BY <1>2, <1>3, HqReliesOn, NodesAssumption DEF HqOwn
<1>14. ASSUME NEW u \in Threads \ {t}, hq_old[u].ptr = n
       PROVE  /\ HqLeavesHead(u) => G[n] = H[n]
              /\ HqLeavesTail(u) => K[n] = T[n]
              /\ hq_pc[u] = "ends_cas" /\ hq_count[n].external = 1 =>
                   hq_count'[n].external = 1 /\ hq_count'[n].internal <= hq_count[n].internal
              /\ ~HqLast(u)
  <2>1. HqLeavesHead(u) => HqLeavesTail(t)
    BY <1>2, <1>11, <1>14
  <2>2. HqLeavesTail(u) => HqLeavesHead(t)
    BY <1>2, <1>11, <1>14
  <2>3. hq_pc[u] # "ends_cas" \/ hq_count[n].external # 1
    <3>1. ASSUME hq_pc[u] = "ends_cas"
          PROVE  hq_count[n].external # 1
      <4>1. HqLeavesHead(u) \/ HqLeavesTail(u)
        BY <3>1 DEF HqLeavesHead, HqLeavesTail
      <4>2. Ends(H[n]) = 1 /\ Ends(T[n]) = 1
        <5>1. /\ HqLeavesHead(u) => Ends(H[n]) = 1
              /\ HqLeavesTail(u) => Ends(T[n]) = 1
          BY <1>14, <4>1, HqEndCounted
        <5>2. /\ HqLeavesHead(t) => Ends(H[n]) = 1
              /\ HqLeavesTail(t) => Ends(T[n]) = 1
          BY <1>2, <1>3, HqEndCounted
        <5> QED
          BY <2>1, <2>2, <4>1, <5>1, <5>2
      <4> QED
        BY <1>8, <4>2 DEF HqCounts
    <3> QED
      BY <3>1
  <2>4. ~HqLast(u)
    <3>1. HqLast(u) => hq_count[n] = Zero
      BY <1>14, HqReliesOn DEF HqLeaves
    <3> QED
      BY <1>3, <3>1 DEF Zero
  <2> QED
    BY <1>10, <2>1, <2>2, <2>3, <2>4
<1>15. HqLast(t)' => hq_old[t].ptr = n /\ n \in HqKept' /\ hq_count'[n] = Zero
  <2>1. hq_then[t] # "ends_again"
    BY DEF HqFlowInv, HqFlow
  <2>2. HqLast(t)' => hq_count[n] = hq_curr[t] /\ EndLeft(hq_curr[t], hq_old[t].count) = Zero
    BY <1>4, <2>1 DEF HqLast
  <2> QED
    BY <1>3, <1>5, <1>6, <2>2
<1>16. /\ n \in NodesOf(c) => G[n] = H[n]
       /\ n = hq_tail.ptr \/ n = hq_next[hq_tail.ptr].ptr => K[n] = T[n]
  BY <1>2, <1>10, <1>11
<1>17. HqKept' = HqKept
  BY <1>6
<1>18. HqNodesInv(c, G, K)'
  BY <1>3, <1>4, <1>5, <1>10, <1>12, <1>13, <1>14, <1>15, <1>16, <1>17, HqReleaseStep
<1> QED
  BY <1>18

(* The second: the last to have left the node deletes it.                  *)
LEMMA HqEndsAgainStep ==
  ASSUME NEW c, NEW H, NEW T, HqTypeOK, HqTypeOK', HqFlowInv, HqNodesInv(c, H, T), ~HqReused,
         NEW t \in Threads, HqAlone(t), HqEndsCas(t), hq_pc[t] = "ends_again", UNCHANGED hq_life
  PROVE  HqNodesInv(c, H, T)'
<1>1. /\ HqListInv(c) /\ HqThreadsInv(c, H, T) /\ HqCountInv(c, H, T)
      /\ H \in [Nodes -> Int] /\ T \in [Nodes -> Int]
  BY DEF HqNodesInv
<1>2. PICK n : n = hq_old[t].ptr
  OBVIOUS
<1>3. hq_count[n] # hq_curr[t]
  BY <1>2, HqAgainFails
<1>4. /\ UNCHANGED <<hq_head, hq_tail, hq_data, hq_next, hq_count, hq_new, hq_old>>
      /\ ~HqHolds(t) /\ ~HqHolds(t)' /\ ~HqLast(t)' /\ hq_pc'[t] \notin {"ends_again", "ends_cas"}
      /\ hq_live' = IF HqLast(t) THEN hq_live \ {n} ELSE hq_live
  BY <1>2, <1>3 DEF HqEndsCas, Move, hqLocals, HqFlowInv, HqFlow, HqHolds, HqHolding, HqLast, Zero
<1>5. HqKept = hq_live /\ HqKept' = hq_live'
  BY HqKeptNodes
<1>6. CASE ~HqLast(t)
  <2>1. ~HqLeavesHead(t)' /\ ~HqLeavesTail(t)'
    BY <1>4 DEF HqHolds, HqHolding, HqLeavesHead, HqLeavesTail
  <2>2. HqKept' = HqKept
    BY <1>4, <1>5, <1>6
  <2>3. /\ hq_new'[t] = hq_new[t] /\ (HqHolds(t)' <=> HqHolds(t)) /\ hq_pc'[t] # "ends_again"
        /\ hq_pc'[t] # "ends_cas" /\ (HqHolds(t) => hq_old'[t].ptr = hq_old[t].ptr)
        /\ (HqHolds(t) => HqKnows(t, hq_old[t].ptr, c))'
    BY <1>4
  <2> QED
    BY <1>4, <2>1, <2>2, <2>3, HqQuietStep
<1>7. CASE HqLast(t)
  <2>1. /\ n \in HqKept /\ hq_count[n] = Zero /\ n \in Nodes
        /\ \A u \in Threads : HqLast(u) /\ hq_old[u].ptr = n => u = t
    BY <1>2, <1>7, HqReliesOn DEF HqLeaves
  <2>2. HqCounts(n, H[n], T[n]) /\ H[n] \in Int /\ T[n] \in Int
    BY <1>1, <2>1 DEF HqCountInv
  <2>3. H[n] \notin Nat /\ Cardinality(HqUsers(n)) = 0
    BY <2>1, <2>2, HqNoEnds DEF Zero
  <2>4. \A u \in Threads : HqHolds(u) => hq_old[u].ptr # n
    <3>1. HqUsers(n) = {}
      BY <2>3, HqUsersThen
    <3> QED
      BY <3>1 DEF HqUsers
  <2>5. n \notin NodesOf(c) /\ \A u \in Threads : hq_new[u] # n
    BY <2>1, <2>3, HqOutOfQueue
  <2>6. HqKept' = HqKept \ {n}
    BY <1>4, <1>5, <1>7
  <2>7. \A u \in Threads \ {t} : hq_old[u].ptr = n => ~HqLast(u) /\ hq_pc[u] # "ends_cas"
    BY <2>1, <2>4 DEF HqHolds, HqHolding
  <2> QED
    BY <1>1, <1>4, <2>1, <2>4, <2>5, <2>6, <2>7, HqReleaseStep
<1> QED
  BY <1>6, <1>7
(* A push() allocates a node, which may have been another's before.        *)
LEMMA HqNewNodeStep ==
  ASSUME NEW c, NEW H, NEW T, HqTypeOK, HqTypeOK', HqFlowInv, HqNodesInv(c, H, T),
         NEW t \in Threads, HqAlone(t), HqNewNode(t), UNCHANGED hq_life
  PROVE  \E G, K : HqNodesInv(c, G, K)'
<1>1. /\ HqListInv(c) /\ HqThreadsInv(c, H, T) /\ HqCountInv(c, H, T)
      /\ H \in [Nodes -> Int] /\ T \in [Nodes -> Int]
  BY DEF HqNodesInv
<1>2. HqKept = hq_live /\ HqKept' = hq_live' /\ HqKept \subseteq Nodes
  <2>1. hq_pc[t] # "idle"
    BY DEF HqNewNode, Move
  <2> QED
    BY <2>1, HqKeptNodes
<1>3. PICK n \in Nodes :
        /\ n \notin HqKept /\ HqKept' = HqKept \cup {n}
        /\ hq_data' = [hq_data EXCEPT ![n] = Null]
        /\ hq_next' = [hq_next EXCEPT ![n] = HqNull]
        /\ hq_count' = [hq_count EXCEPT ![n] = Fresh]
        /\ hq_new' = [hq_new EXCEPT ![t] = n]
  BY <1>2 DEF HqNewNode, FirstFree
<1>4. /\ UNCHANGED <<hq_head, hq_tail, hq_old, hq_to, hq_then>>
      /\ \/ hq_pc[t] = "p_new" /\ hq_pc'[t] = "p_count"
         \/ hq_pc[t] = "p_renew" /\ hq_pc'[t] = "p_tail"
  BY DEF HqNewNode, Move, HqFlowInv
<1>5. /\ \A m \in Nodes : m # n => hq_data'[m] = hq_data[m] /\ hq_next'[m] = hq_next[m] /\ hq_count'[m] = hq_count[m]
      /\ hq_data'[n] = Null /\ hq_next'[n] = HqNull /\ hq_count'[n] = Fresh /\ hq_new'[t] = n
      /\ HqNull.ptr = 0 /\ HqNull.count = 0
  BY <1>3 DEF HqTypeOK, HqNull, HqPtr
<1>6. /\ HqHolds(t)' <=> HqHolds(t)
      /\ ~HqLeavesHead(t)' /\ ~HqLeavesTail(t)' /\ ~HqLast(t)' /\ hq_pc'[t] # "ends_cas"
  BY <1>4 DEF HqHolds, HqHolding, HqLeavesHead, HqLeavesTail, HqLast
<1>7. PICK G, K : G = [H EXCEPT ![n] = 0] /\ K = [T EXCEPT ![n] = 0]
  OBVIOUS
<1>8. /\ G \in [Nodes -> Int] /\ K \in [Nodes -> Int] /\ G[n] = 0 /\ K[n] = 0
      /\ \A m \in Nodes : m # n => G[m] = H[m] /\ K[m] = T[m]
  BY <1>1, <1>3, <1>7
<1>9. /\ NodesOf(c) \subseteq Nodes /\ NodesOf(c) \subseteq HqKept
      /\ hq_head.ptr \in NodesOf(c) /\ hq_tail.ptr \in NodesOf(c) /\ 0 \notin Nodes
      /\ hq_next[hq_tail.ptr].ptr \in NodesOf(c) \cup {0}
  BY <1>1, HqPointers
<1>10. HqListInv(c)'
  <2>1. IsChain(c, hq_head.ptr, HqNextPtrs')
    <3>1. PICK M, M2 : M = HqNextPtrs /\ M2 = HqNextPtrs'
      OBVIOUS
    <3>2. \A m \in NodesOf(c) : M2[m] = M[m]
      BY <1>3, <1>5, <1>9, <3>1 DEF HqNextPtrs
    <3>3. IsChain(c, hq_head.ptr, M)
      BY <1>1, <3>1 DEF HqListInv
    <3> QED
      BY <3>1, <3>2, <3>3, ChainKept
  <2>2. \A m \in Nodes : hq_next'[hq_tail'.ptr].ptr = m => hq_next'[m].ptr = 0
    BY <1>1, <1>3, <1>4, <1>5, <1>9 DEF HqListInv
  <2>3. \A m \in NodesOf(c) : hq_next'[m].ptr # 0 => hq_data'[m] # Null
    BY <1>1, <1>3, <1>5, <1>9 DEF HqListInv
  <2>4. \A m \in Nodes : hq_next'[m].count = 0
    BY <1>1, <1>5 DEF HqListInv
  <2>5. NodesOf(c) \subseteq HqKept' /\ hq_tail'.ptr \in NodesOf(c) /\ hq_head' = hq_head
    BY <1>3, <1>4, <1>9
  <2> QED
    BY <2>1, <2>2, <2>3, <2>4, <2>5 DEF HqListInv
<1>11. \A u \in Threads : HqHolds(u) => hq_old[u].ptr \in HqKept /\ hq_old[u].ptr \in Nodes
  BY HqReliesOn DEF HqKnows
<1>12. ASSUME NEW u \in Threads \ {t}
       PROVE  HqUndisturbed(t, u, c, c, H, T, G, K)
  <2>1. /\ HqOwn(u, c, H, T) /\ HqLeaves(u, hq_old[u].ptr, c, H, T)
        /\ HqHolds(u) => HqKnows(u, hq_old[u].ptr, c)
        /\ hq_new[u] # 0 => hq_new[u] \in Nodes
        /\ hq_pc[u] = "h_data" => HqHolds(u)
        /\ HqLeavesHead(u) => HqHolds(u)
        /\ HqLeavesTail(u) => HqHolds(u)
        /\ hq_pc[u] = "ends_cas" => HqHolds(u)
        /\ HqHolds(u) => hq_count[hq_old[u].ptr].internal \in Int
    BY HqReliesOn
  <2>2. HqHolds(u) => HqSpares(hq_old[u].ptr, NodesOf(c), NodesOf(c)) /\ hq_old[u].ptr # n
    BY <1>3, <1>5, <1>11 DEF HqSpares
  <2>3. hq_pc[u] = "h_data" => hq_data'[hq_old[u].ptr] # Null
    BY <1>3, <1>5, <1>11, <2>1, <2>2 DEF HqKnows
  <2>4. hq_new[u] # 0 =>
          /\ hq_new[u] \in HqKept' /\ hq_new[u] \notin NodesOf(c) /\ hq_new'[t] # hq_new[u]
          /\ HqHolds(t)' => hq_old'[t].ptr # hq_new[u]
          /\ hq_next'[hq_new[u]] = hq_next[hq_new[u]] /\ hq_data'[hq_new[u]] = hq_data[hq_new[u]]
          /\ G[hq_new[u]] = H[hq_new[u]] /\ K[hq_new[u]] = T[hq_new[u]]
    <3>1. hq_new[u] # 0 => hq_new[u] # n /\ hq_new[u] \in HqKept
      BY <1>3, <2>1 DEF HqOwn
    <3> QED
      BY <1>3, <1>4, <1>5, <1>6, <1>8, <2>1, <3>1 DEF HqOwn
  <2>5. /\ HqLeavesHead(u) => G[hq_old[u].ptr] = H[hq_old[u].ptr]
        /\ HqLeavesTail(u) => /\ K[hq_old[u].ptr] = T[hq_old[u].ptr]
                              /\ hq_old[u].ptr # hq_tail'.ptr /\ hq_old[u].ptr # hq_next'[hq_tail'.ptr].ptr
    BY <1>3, <1>4, <1>5, <1>8, <1>9, <1>11, <2>1, <2>2 DEF HqLeaves
  <2>6. hq_pc[u] = "ends_cas" => hq_count'[hq_old[u].ptr] = hq_count[hq_old[u].ptr]
    BY <1>5, <1>11, <2>1, <2>2
  <2>7. HqLast(u) => hq_old[u].ptr \in HqKept' /\ hq_count'[hq_old[u].ptr] = hq_count[hq_old[u].ptr]
    BY <1>2, <1>3, <1>5, <2>1 DEF HqLeaves
  <2> QED
    BY <1>6, <2>1, <2>2, <2>3, <2>4, <2>5, <2>6, <2>7 DEF HqUndisturbed
<1>13. HqOwn(t, c, G, K)'
  <2>1. \A u \in Threads : hq_new'[u] = n => u = t
    <3>1. ASSUME NEW u \in Threads \ {t}
          PROVE  hq_new'[u] # n
      <4>1. hq_new'[u] = hq_new[u]
        BY DEF HqAlone
      <4>2. hq_new[u] # 0 => hq_new[u] \in HqKept
        BY HqReliesOn DEF HqOwn
      <4> QED
        BY <1>3, <1>9, <4>1, <4>2
    <3> QED
      BY <3>1
  <2>2. \A u \in Threads : HqHolds(u)' => hq_old'[u].ptr # n
    BY <1>3, <1>4, <1>6, <1>11 DEF HqAlone, HqHolds
  <2>3. n \in HqKept' /\ n \notin NodesOf(c)
    BY <1>3, <1>9
  <2> QED
    BY <1>5, <1>8, <2>1, <2>2, <2>3 DEF HqOwn
<1>14. HqLeaves(t, hq_old[t].ptr, c, G, K)'
  BY <1>6 DEF HqLeaves
<1>15. (HqHolds(t) => HqKnows(t, hq_old[t].ptr, c))'
  <2>1. PICK k : k = hq_old[t].ptr
    OBVIOUS
  <2>2. ASSUME HqHolds(t)
        PROVE  HqKnows(t, k, c)'
    <3>1. hq_pc[t] = "p_renew" /\ hq_pc'[t] = "p_tail"
      BY <1>4, <2>2 DEF HqHolds, HqHolding
    <3>2. HqKnows(t, k, c) /\ k \in HqKept /\ k \in Nodes /\ k # n
      BY <1>3, <1>11, <2>1, <2>2, HqReliesOn
    <3> QED
      BY <1>3, <1>4, <1>5, <3>1, <3>2 DEF HqKnows
  <2> QED
    BY <1>4, <1>6, <2>1, <2>2 DEF HqKnows
<1>16. HqThreadsInv(c, G, K)'
  BY <1>4, <1>9, <1>12, <1>13, <1>14, <1>15, HqThreadsKept
<1>17. ASSUME NEW m \in HqKept'
       PROVE  HqCounts(m, G[m], K[m])'
  <2>1. t \in HqUsers(m) <=> t \in HqUsers(m)'
    BY <1>4, <1>6 DEF HqUsers
  <2>2. CASE m # n
    <3>1. HqCounts(m, H[m], T[m]) /\ G[m] = H[m] /\ K[m] = T[m] /\ hq_count'[m] = hq_count[m]
      BY <1>1, <1>2, <1>3, <1>5, <1>8, <2>2 DEF HqCountInv
    <3> QED
      BY <2>1, <3>1, HqCountsKept
  <2>3. CASE m = n
    <3>1. HqUsers(m) = {}
      BY <1>3, <1>11, <2>3 DEF HqUsers
    <3>2. PICK k : k = Cardinality(HqUsers(m)')
      OBVIOUS
    <3>3. k = 0
      BY <2>1, <3>1, <3>2, HqUsersThen
    <3>4. Ends(0) = 1 /\ AtEnd(0) = 0 /\ G[m] = 0 /\ K[m] = 0
      BY <1>8, <2>3 DEF Ends, AtEnd
    <3>5. hq_count'[m].external = 2 /\ hq_count'[m].internal = 0
      BY <1>5, <2>3 DEF Fresh
    <3> QED
      BY <3>2, <3>3, <3>4, <3>5 DEF HqCounts
  <2> QED
    BY <2>2, <2>3
<1>18. HqCountInv(c, G, K)'
  <2>1. \A m \in NodesOf(c) : G[m] = H[m] /\ K[m] = T[m]
    BY <1>3, <1>8, <1>9
  <2>2. hq_next'[hq_tail'.ptr].ptr = hq_next[hq_tail.ptr].ptr
    BY <1>3, <1>4, <1>5, <1>9
  <2>3. hq_next[hq_tail.ptr].ptr \in Nodes => hq_next[hq_tail.ptr].ptr \in NodesOf(c)
    BY <1>9
  <2> QED
    BY <1>1, <1>4, <1>9, <1>17, <2>1, <2>2, <2>3 DEF HqCountInv
<1>19. HqNodesInv(c, G, K)'
  BY <1>8, <1>10, <1>16, <1>18 DEF HqNodesInv
<1> QED
  BY <1>19
-----------------------------------------------------------------------------
(* hl_queue: where the elements are *)

(* The elements that a push() has put in a node, when thread t has or has  *)
(* not just put its own there.                                             *)
LEMMA HqKnownThen ==
  ASSUME NEW t \in Threads, HqAlone(t), UNCHANGED hq_pushed,
         HqClaimed(t)' <=> HqClaimed(t), HqClaimed(t) => hq_arg'[t] = hq_arg[t]
  PROVE  HqKnown' = HqKnown
<1>1. ASSUME NEW u \in Threads
      PROVE  (HqClaimed(u)' <=> HqClaimed(u)) /\ (HqClaimed(u) => hq_arg'[u] = hq_arg[u])
  BY DEF HqAlone, HqClaimed
<1>2. PICK S, S2 : S = {u \in Threads : HqClaimed(u)} /\ S2 = {u \in Threads : HqClaimed(u)'}
  OBVIOUS
<1>3. S2 = S /\ \A u \in S : hq_arg'[u] = hq_arg[u]
  BY <1>1, <1>2
<1>4. {hq_arg'[u] : u \in S2} = {hq_arg[u] : u \in S}
  BY <1>3
<1> QED
  BY <1>2, <1>4 DEF HqKnown

(* A step that moves no element.                                           *)
LEMMA HqElemQuiet ==
  ASSUME HqElemInv, NEW t \in Threads, HqAlone(t), UNCHANGED <<hq_pushed, hq_pulled>>, hq_arg'[t] = hq_arg[t],
         HqPushing(t)' <=> HqPushing(t), HqClaimed(t)' <=> HqClaimed(t),
         ~HqPushing(t) /\ (hq_then'[t] # "h_done" \/ hq_pc'[t] = "h_data") => hq_arg[t] = Null,
         hq_then'[t] = "h_done" /\ hq_then[t] # "h_done" => hq_arg[t] = Null,
         \A n \in HqKept' : hq_data'[n] = Null \/ (n \in HqKept /\ hq_data'[n] = hq_data[n])
  PROVE  HqElemInv'
<1>1. HqKnown' = HqKnown
  BY HqKnownThen
<1>2. \A u \in Threads :
        /\ hq_arg'[u] = hq_arg[u] /\ (HqPushing(u)' <=> HqPushing(u))
        /\ hq_then'[u] = "h_done" => hq_then[u] = "h_done" \/ hq_arg[u] = Null
        /\ u # t => hq_pc'[u] = hq_pc[u] /\ hq_then'[u] = hq_then[u]
  BY DEF HqAlone, HqPushing
<1>3. \A u \in Threads : HqPushing(u)' =>
        /\ hq_arg'[u] \in Values \ hq_pushed'
        /\ \A w \in Threads : HqPushing(w)' /\ hq_arg'[w] = hq_arg'[u] => w = u
  BY <1>2 DEF HqElemInv
<1>4. \A u \in Threads : ~HqPushing(u)' /\ (hq_then'[u] # "h_done" \/ hq_pc'[u] = "h_data") => hq_arg'[u] = Null
  BY <1>2 DEF HqElemInv
<1>5. \A n \in HqKept' : hq_data'[n] # Null =>
        /\ hq_data'[n] \in HqKnown' \ hq_pulled'
        /\ \A m \in HqKept' : hq_data'[m] = hq_data'[n] => m = n
        /\ \A u \in Threads : hq_then'[u] = "h_done" => hq_arg'[u] # hq_data'[n]
  BY <1>1, <1>2 DEF HqElemInv
<1>6. \A u \in Threads : hq_then'[u] = "h_done" /\ hq_arg'[u] # Null =>
        /\ hq_arg'[u] \in HqKnown' \ hq_pulled'
        /\ \A w \in Threads : hq_then'[w] = "h_done" /\ hq_arg'[w] = hq_arg'[u] => w = u
  BY <1>1, <1>2 DEF HqElemInv
<1>7. hq_pulled' \subseteq HqKnown'
  BY <1>1 DEF HqElemInv
<1> QED
  BY <1>3, <1>4, <1>5, <1>6, <1>7 DEF HqElemInv

(* push() begins, with an element of its own.                              *)
LEMMA HqElemPushCall ==
  ASSUME HqTypeOK, HqFlowInv, HqElemInv, NEW t \in Threads, HqAlone(t), HqPushCall(t), UNCHANGED hq_life
  PROVE  HqElemInv'
<1>1. PICK v : /\ v \in Values /\ v \notin hq_pushed /\ \A u \in Threads : hq_arg[u] # v
               /\ hq_arg'[t] = v
  BY DEF HqPushCall, HqTypeOK
<1>2. /\ UNCHANGED <<hq_head, hq_data, hq_live, hq_then, hq_pushed, hq_pulled>>
      /\ hq_pc[t] = "idle" /\ hq_pc'[t] = "p_new" /\ hq_then[t] = "idle"
  BY DEF HqPushCall, Move, hqHeap, hqLocals, HqFlowInv, HqFlow
<1>3. HqKept' = HqKept /\ ~HqPushing(t) /\ HqPushing(t)' /\ ~HqClaimed(t) /\ ~HqClaimed(t)'
  BY <1>2 DEF HqKept, HqPushing, HqClaimed
<1>4. HqKnown' = HqKnown
  BY <1>2, <1>3, HqKnownThen
<1>5. \A u \in Threads \ {t} :
        hq_arg'[u] = hq_arg[u] /\ (HqPushing(u)' <=> HqPushing(u)) /\ hq_pc'[u] = hq_pc[u]
  BY DEF HqAlone, HqPushing
<1>6. \A u \in Threads : HqPushing(u)' =>
        /\ hq_arg'[u] \in Values \ hq_pushed'
        /\ \A w \in Threads : HqPushing(w)' /\ hq_arg'[w] = hq_arg'[u] => w = u
  BY <1>1, <1>2, <1>5 DEF HqElemInv
<1>7. \A u \in Threads : ~HqPushing(u)' /\ (hq_then'[u] # "h_done" \/ hq_pc'[u] = "h_data") => hq_arg'[u] = Null
  BY <1>2, <1>3, <1>5 DEF HqElemInv
<1>8. \A n \in HqKept' : hq_data'[n] # Null =>
        /\ hq_data'[n] \in HqKnown' \ hq_pulled'
        /\ \A m \in HqKept' : hq_data'[m] = hq_data'[n] => m = n
        /\ \A u \in Threads : hq_then'[u] = "h_done" => hq_arg'[u] # hq_data'[n]
  BY <1>2, <1>3, <1>4, <1>5 DEF HqElemInv
<1>9. \A u \in Threads : hq_then'[u] = "h_done" /\ hq_arg'[u] # Null =>
        /\ hq_arg'[u] \in HqKnown' \ hq_pulled'
        /\ \A w \in Threads : hq_then'[w] = "h_done" /\ hq_arg'[w] = hq_arg'[u] => w = u
  BY <1>2, <1>4, <1>5 DEF HqElemInv
<1>10. hq_pulled' \subseteq HqKnown'
  BY <1>2, <1>4 DEF HqElemInv
<1> QED
  BY <1>6, <1>7, <1>8, <1>9, <1>10 DEF HqElemInv

(* push() puts its element in a node.                                      *)
LEMMA HqElemClaim ==
  ASSUME HqTypeOK, HqFlowInv, HqElemInv, NEW t \in Threads, HqAlone(t), HqClaim(t), UNCHANGED hq_life,
         hq_data[hq_old[t].ptr] = Null, hq_old[t].ptr \in Nodes
  PROVE  HqElemInv'
<1>1. PICK n \in Nodes : n = hq_old[t].ptr
  OBVIOUS
<1>2. PICK v : v = hq_arg[t]
  OBVIOUS
<1>3. /\ UNCHANGED <<hq_head, hq_live, hq_then, hq_pushed, hq_pulled, hq_arg>>
      /\ hq_data' = [hq_data EXCEPT ![n] = v]
      /\ hq_pc[t] = "p_data" /\ hq_pc'[t] = "p_link" /\ hq_then[t] \in {"idle", "p_count"}
  BY <1>1, <1>2 DEF HqClaim, Move, hqHistory, hqLocals, HqFlowInv, HqFlow
<1>4. hq_data'[n] = v /\ \A m \in Nodes : m # n => hq_data'[m] = hq_data[m]
  BY <1>3 DEF HqTypeOK
<1>5. HqKept' = HqKept /\ HqPushing(t) /\ HqPushing(t)' /\ ~HqClaimed(t) /\ HqClaimed(t)'
  BY <1>3 DEF HqKept, HqPushing, HqClaimed
<1>6. \A u \in Threads \ {t} :
        /\ (HqPushing(u)' <=> HqPushing(u)) /\ (HqClaimed(u)' <=> HqClaimed(u))
        /\ hq_pc'[u] = hq_pc[u]
  BY DEF HqAlone, HqPushing, HqClaimed
<1>7. HqKnown' = HqKnown \cup {v}
  <2>1. PICK S, S2 : S = {u \in Threads : HqClaimed(u)} /\ S2 = {u \in Threads : HqClaimed(u)'}
    OBVIOUS
  <2>2. S2 = S \cup {t}
    BY <1>5, <1>6, <2>1
  <2>3. HqKnown = hq_pushed \cup {hq_arg[u] : u \in S} /\ HqKnown' = hq_pushed \cup {hq_arg[u] : u \in S2}
    BY <1>3, <2>1 DEF HqKnown
  <2> QED
    BY <1>2, <2>2, <2>3
<1>8. v \in Values /\ v # Null /\ v \notin HqKnown
  <2>1. v \in Values /\ v \notin hq_pushed /\ \A u \in Threads : HqPushing(u) /\ hq_arg[u] = v => u = t
    BY <1>2, <1>5 DEF HqElemInv
  <2>2. \A u \in Threads : HqClaimed(u) => HqPushing(u)
    BY DEF HqClaimed, HqPushing
  <2>3. ASSUME v \in {hq_arg[u] : u \in {w \in Threads : HqClaimed(w)}}
        PROVE  FALSE
    BY <1>5, <2>1, <2>2, <2>3
  <2> QED
    BY <2>1, <2>3, ElementsAssumption DEF HqKnown
<1>9. HqKept \subseteq Nodes
  BY <1>3, HqKeptNodes
<1>10. \A u \in Threads : HqPushing(u)' =>
         /\ hq_arg'[u] \in Values \ hq_pushed'
         /\ \A w \in Threads : HqPushing(w)' /\ hq_arg'[w] = hq_arg'[u] => w = u
  BY <1>3, <1>5, <1>6 DEF HqElemInv
<1>11. \A u \in Threads : ~HqPushing(u)' /\ (hq_then'[u] # "h_done" \/ hq_pc'[u] = "h_data") => hq_arg'[u] = Null
  BY <1>3, <1>5, <1>6 DEF HqElemInv
<1>12. \A m \in HqKept' : hq_data'[m] # Null =>
         /\ hq_data'[m] \in HqKnown' \ hq_pulled'
         /\ \A k \in HqKept' : hq_data'[k] = hq_data'[m] => k = m
         /\ \A u \in Threads : hq_then'[u] = "h_done" => hq_arg'[u] # hq_data'[m]
  BY <1>3, <1>4, <1>5, <1>7, <1>8, <1>9 DEF HqElemInv
<1>13. \A u \in Threads : hq_then'[u] = "h_done" /\ hq_arg'[u] # Null =>
         /\ hq_arg'[u] \in HqKnown' \ hq_pulled'
         /\ \A w \in Threads : hq_then'[w] = "h_done" /\ hq_arg'[w] = hq_arg'[u] => w = u
  BY <1>3, <1>7 DEF HqElemInv
<1>14. hq_pulled' \subseteq HqKnown'
  BY <1>3, <1>7 DEF HqElemInv
<1> QED
  BY <1>10, <1>11, <1>12, <1>13, <1>14 DEF HqElemInv
(* push() returns.                                                         *)
LEMMA HqElemPushReturns ==
  ASSUME HqTypeOK, HqFlowInv, HqElemInv, NEW t \in Threads, HqAlone(t), HqPushReturns(t), UNCHANGED hq_life
  PROVE  HqElemInv'
<1>1. PICK v : v = hq_arg[t]
  OBVIOUS
<1>2. /\ UNCHANGED <<hq_head, hq_data, hq_live, hq_pulled>>
      /\ hq_pushed' = hq_pushed \cup {v} /\ hq_arg'[t] = Null
      /\ hq_pc'[t] = "idle" /\ hq_then[t] = "p_done" /\ hq_then'[t] = "idle"
  BY <1>1 DEF HqPushReturns, HqReturn, Move, hqHeap, HqFlowInv, HqFlow, HqTypeOK
<1>3. HqKept' = HqKept /\ HqPushing(t) /\ ~HqPushing(t)' /\ HqClaimed(t) /\ ~HqClaimed(t)'
  BY <1>2 DEF HqKept, HqPushing, HqClaimed
<1>4. \A u \in Threads \ {t} :
        /\ hq_arg'[u] = hq_arg[u] /\ hq_pc'[u] = hq_pc[u] /\ hq_then'[u] = hq_then[u]
        /\ (HqPushing(u)' <=> HqPushing(u)) /\ (HqClaimed(u)' <=> HqClaimed(u))
  BY DEF HqAlone, HqPushing, HqClaimed
<1>5. HqKnown' = HqKnown
  <2>1. PICK S, S2 : S = {u \in Threads : HqClaimed(u)} /\ S2 = {u \in Threads : HqClaimed(u)'}
    OBVIOUS
  <2>2. S = S2 \cup {t} /\ t \notin S2 /\ \A u \in S2 : hq_arg'[u] = hq_arg[u]
    BY <1>3, <1>4, <2>1
  <2>3. {hq_arg[u] : u \in S} = {hq_arg'[u] : u \in S2} \cup {v}
    BY <1>1, <2>2
  <2> QED
    BY <1>2, <2>1, <2>3 DEF HqKnown
<1>6. \A u \in Threads : HqPushing(u)' =>
        /\ hq_arg'[u] \in Values \ hq_pushed'
        /\ \A w \in Threads : HqPushing(w)' /\ hq_arg'[w] = hq_arg'[u] => w = u
  BY <1>1, <1>2, <1>3, <1>4 DEF HqElemInv
<1>7. \A u \in Threads : ~HqPushing(u)' /\ (hq_then'[u] # "h_done" \/ hq_pc'[u] = "h_data") => hq_arg'[u] = Null
  BY <1>2, <1>4 DEF HqElemInv
<1>8. \A n \in HqKept' : hq_data'[n] # Null =>
        /\ hq_data'[n] \in HqKnown' \ hq_pulled'
        /\ \A m \in HqKept' : hq_data'[m] = hq_data'[n] => m = n
        /\ \A u \in Threads : hq_then'[u] = "h_done" => hq_arg'[u] # hq_data'[n]
  BY <1>2, <1>3, <1>4, <1>5 DEF HqElemInv
<1>9. \A u \in Threads : hq_then'[u] = "h_done" /\ hq_arg'[u] # Null =>
        /\ hq_arg'[u] \in HqKnown' \ hq_pulled'
        /\ \A w \in Threads : hq_then'[w] = "h_done" /\ hq_arg'[w] = hq_arg'[u] => w = u
  BY <1>2, <1>4, <1>5 DEF HqElemInv
<1>10. hq_pulled' \subseteq HqKnown'
  BY <1>2, <1>5 DEF HqElemInv
<1> QED
  BY <1>6, <1>7, <1>8, <1>9, <1>10 DEF HqElemInv

(* pull() takes the element out of its node.                               *)
LEMMA HqElemPullData ==
  ASSUME HqTypeOK, HqFlowInv, HqElemInv, NEW t \in Threads, HqAlone(t), HqPullData(t), UNCHANGED hq_life,
         hq_old[t].ptr \in HqKept, hq_data[hq_old[t].ptr] # Null
  PROVE  HqElemInv'
<1>1. hq_pc[t] # "idle"
  BY DEF HqPullData, Move
<1>2. HqKept' = HqKept /\ HqKept \subseteq Nodes
  BY <1>1, HqKeptNodes DEF HqPullData
<1>3. PICK n, v : n \in Nodes /\ n = hq_old[t].ptr /\ n \in HqKept /\ v = hq_data[n] /\ v # Null
  BY <1>2
<1>4. /\ UNCHANGED <<hq_then, hq_pushed, hq_pulled>> /\ hq_arg'[t] = v
      /\ hq_data'[n] = Null /\ \A m \in Nodes : m # n => hq_data'[m] = hq_data[m]
      /\ hq_pc'[t] = "ends_load" /\ hq_then[t] = "h_done" /\ hq_then'[t] = "h_done"
  BY <1>3 DEF HqPullData, Move, hqLocals, HqFlowInv, HqFlow, HqTypeOK
<1>5. ~HqPushing(t) /\ ~HqPushing(t)' /\ ~HqClaimed(t) /\ ~HqClaimed(t)'
  BY <1>4 DEF HqPushing, HqClaimed, HqPullData, Move
<1>6. HqKnown' = HqKnown
  BY <1>4, <1>5, HqKnownThen
<1>7. \A u \in Threads \ {t} :
        hq_arg'[u] = hq_arg[u] /\ (HqPushing(u)' <=> HqPushing(u)) /\ hq_pc'[u] = hq_pc[u]
  BY DEF HqAlone, HqPushing
<1>8. \A u \in Threads : HqPushing(u)' =>
        /\ hq_arg'[u] \in Values \ hq_pushed'
        /\ \A w \in Threads : HqPushing(w)' /\ hq_arg'[w] = hq_arg'[u] => w = u
  BY <1>4, <1>5, <1>7 DEF HqElemInv
<1>9. \A u \in Threads : ~HqPushing(u)' /\ (hq_then'[u] # "h_done" \/ hq_pc'[u] = "h_data") => hq_arg'[u] = Null
  BY <1>4, <1>7 DEF HqElemInv
<1>10. /\ v \in HqKnown \ hq_pulled
       /\ \A m \in HqKept : hq_data[m] = v => m = n
       /\ \A u \in Threads : hq_then[u] = "h_done" => hq_arg[u] # v
  BY <1>3 DEF HqElemInv
<1>11. \A m \in HqKept' : hq_data'[m] # Null =>
         /\ hq_data'[m] \in HqKnown' \ hq_pulled'
         /\ \A k \in HqKept' : hq_data'[k] = hq_data'[m] => k = m
         /\ \A u \in Threads : hq_then'[u] = "h_done" => hq_arg'[u] # hq_data'[m]
  BY <1>2, <1>3, <1>4, <1>6, <1>7, <1>10 DEF HqElemInv
<1>12. \A u \in Threads : hq_then'[u] = "h_done" /\ hq_arg'[u] # Null =>
         /\ hq_arg'[u] \in HqKnown' \ hq_pulled'
         /\ \A w \in Threads : hq_then'[w] = "h_done" /\ hq_arg'[w] = hq_arg'[u] => w = u
  BY <1>4, <1>6, <1>7, <1>10 DEF HqElemInv
<1>13. hq_pulled' \subseteq HqKnown'
  BY <1>4, <1>6 DEF HqElemInv
<1> QED
  BY <1>8, <1>9, <1>11, <1>12, <1>13 DEF HqElemInv

(* pull() returns its element, or nothing.                                 *)
LEMMA HqElemPullReturns ==
  ASSUME HqTypeOK, HqFlowInv, HqElemInv, NEW t \in Threads, HqAlone(t), HqPullReturns(t), UNCHANGED hq_life
  PROVE  HqElemInv'
<1>1. PICK v : v = hq_arg[t]
  OBVIOUS
<1>2. /\ UNCHANGED <<hq_head, hq_data, hq_live, hq_pushed>>
      /\ hq_pulled' = hq_pulled \cup ({v} \ {Null}) /\ hq_arg'[t] = Null
      /\ hq_pc[t] = "h_done" /\ hq_pc'[t] \in {"idle", "d_head", "h_count"}
      /\ hq_then[t] = "h_done" /\ hq_then'[t] = "idle"
  BY <1>1 DEF HqPullReturns, HqReturn, Move, hqHeap, HqFlowInv, HqFlow, HqTypeOK
<1>3. HqKept' = HqKept /\ ~HqPushing(t) /\ ~HqPushing(t)' /\ ~HqClaimed(t) /\ ~HqClaimed(t)'
  BY <1>2 DEF HqKept, HqPushing, HqClaimed
<1>4. HqKnown' = HqKnown
  BY <1>2, <1>3, HqKnownThen
<1>5. \A u \in Threads \ {t} :
        /\ hq_arg'[u] = hq_arg[u] /\ hq_pc'[u] = hq_pc[u] /\ hq_then'[u] = hq_then[u]
        /\ (HqPushing(u)' <=> HqPushing(u))
  BY DEF HqAlone, HqPushing
<1>6. v # Null => v \in HqKnown /\ v \notin hq_pulled
                  /\ \A u \in Threads : hq_then[u] = "h_done" /\ hq_arg[u] = v => u = t
  BY <1>1, <1>2 DEF HqElemInv
<1>7. \A u \in Threads : HqPushing(u)' =>
        /\ hq_arg'[u] \in Values \ hq_pushed'
        /\ \A w \in Threads : HqPushing(w)' /\ hq_arg'[w] = hq_arg'[u] => w = u
  BY <1>2, <1>3, <1>5 DEF HqElemInv
<1>8. \A u \in Threads : ~HqPushing(u)' /\ (hq_then'[u] # "h_done" \/ hq_pc'[u] = "h_data") => hq_arg'[u] = Null
  BY <1>2, <1>5 DEF HqElemInv
<1>9. \A n \in HqKept' : hq_data'[n] # Null =>
        /\ hq_data'[n] \in HqKnown' \ hq_pulled'
        /\ \A m \in HqKept' : hq_data'[m] = hq_data'[n] => m = n
        /\ \A u \in Threads : hq_then'[u] = "h_done" => hq_arg'[u] # hq_data'[n]
  BY <1>1, <1>2, <1>3, <1>4, <1>5 DEF HqElemInv
<1>10. \A u \in Threads : hq_then'[u] = "h_done" /\ hq_arg'[u] # Null =>
         /\ hq_arg'[u] \in HqKnown' \ hq_pulled'
         /\ \A w \in Threads : hq_then'[w] = "h_done" /\ hq_arg'[w] = hq_arg'[u] => w = u
  BY <1>2, <1>4, <1>5, <1>6 DEF HqElemInv
<1>11. hq_pulled' \subseteq HqKnown'
  BY <1>2, <1>4, <1>6 DEF HqElemInv
<1> QED
  BY <1>7, <1>8, <1>9, <1>10, <1>11 DEF HqElemInv
(* Every element stays in one place.                                       *)
LEMMA HqElemKept ==
  ASSUME NEW c, NEW H, NEW T, HqTypeOK, HqFlowInv, HqElemInv, HqNodesInv(c, H, T), NEW t \in Threads,
         HqAlone(t), HqCall(t) \/ HqRun(t)
  PROVE  HqElemInv'
<1> USE DEF Move
<1>1. /\ hq_pc \in [Threads -> HqLabels] /\ hq_then \in [Threads -> HqLabels] /\ HqFlow(t)
      /\ hq_pc[t] # "idle" => hq_life # "gone"
  BY DEF HqFlowInv
<1>2. ~HqPushing(t) /\ (hq_then[t] # "h_done" \/ hq_pc[t] = "h_data") => hq_arg[t] = Null
  BY DEF HqElemInv
<1>3. HqHolds(t) => hq_old[t].ptr \in Nodes /\ hq_old[t].ptr \in HqKept
  BY HqReliesOn DEF HqKnows
<1>4. CASE HqCall(t)
  <2>1. CASE HqPushCall(t)
    BY <1>4, <2>1, HqElemPushCall DEF HqCall
  <2>2. CASE HqPullCall(t)
    <3>1. /\ UNCHANGED <<hq_head, hqHeap, hq_then, hq_arg, hq_pushed, hq_pulled, hq_life>>
          /\ hq_pc[t] = "idle" /\ hq_pc'[t] = "h_count"
      BY <1>1, <1>4, <2>2 DEF HqCall, HqPullCall, hqLocals, hqHistory
    <3>2. HqKept' = HqKept /\ hq_data' = hq_data
      BY <3>1 DEF HqKept, hqHeap
    <3>3. (HqPushing(t)' <=> HqPushing(t)) /\ (HqClaimed(t)' <=> HqClaimed(t))
      BY <3>1 DEF HqPushing, HqClaimed
    <3> QED
      BY <1>2, <3>1, <3>2, <3>3, HqElemQuiet
  <2> QED
    BY <1>4, <2>1, <2>2 DEF HqCall
<1>5. CASE HqDestroy(t) \/ HqDeleteHead(t)
  <2>1. /\ UNCHANGED <<hq_data, hq_then, hq_arg, hq_pushed, hq_pulled>>
        /\ hq_pc[t] \in {"idle", "d_head"} /\ hq_pc'[t] \in {"idle", "h_count"}
    BY <1>1, <1>5 DEF HqDestroy, HqDeleteHead, hqHeap, hqLocals, hqHistory
  <2>2. HqKept' = HqKept
    <3>1. CASE HqDestroy(t)
      BY <3>1 DEF HqDestroy, HqKept, hqHeap
    <3>2. CASE HqDeleteHead(t)
      <4>1. HqListInv(c) /\ hq_head' = hq_head
        BY <3>2 DEF HqNodesInv, HqDeleteHead
      <4>2. hq_head.ptr \in HqKept
        BY <4>1, HqPointers
      <4>3. hq_life # "gone" /\ hq_life' = "gone" /\ hq_live' = hq_live \ {hq_head.ptr}
        BY <1>1, <3>2 DEF HqDeleteHead
      <4> QED
        BY <4>1, <4>2, <4>3 DEF HqKept
    <3> QED
      BY <1>5, <3>1, <3>2
  <2>3. (HqPushing(t)' <=> HqPushing(t)) /\ (HqClaimed(t)' <=> HqClaimed(t))
    BY <2>1 DEF HqPushing, HqClaimed
  <2> QED
    BY <1>2, <2>1, <2>2, <2>3, HqElemQuiet
<1>6. CASE UNCHANGED hq_life /\ HqPushReturns(t)
  BY <1>6, HqElemPushReturns
<1>7. CASE UNCHANGED hq_life /\ HqPullReturns(t)
  BY <1>7, HqElemPullReturns
<1>8. CASE UNCHANGED hq_life /\ HqPullData(t)
  <2>1. hq_pc[t] = "h_data" /\ HqHolds(t)
    BY <1>8 DEF HqPullData, HqHolds, HqHolding
  <2>2. hq_data[hq_old[t].ptr] # Null
    BY <2>1, HqReliesOn DEF HqKnows
  <2> QED
    BY <1>3, <1>8, <2>1, <2>2, HqElemPullData
<1>9. CASE UNCHANGED hq_life /\ HqNewNode(t)
  <2>1. /\ UNCHANGED <<hq_then, hq_arg, hq_pushed, hq_pulled>>
        /\ \/ hq_pc[t] = "p_new" /\ hq_pc'[t] = "p_count"
           \/ hq_pc[t] = "p_renew" /\ hq_pc'[t] = "p_tail"
    BY <1>1, <1>9 DEF HqNewNode, hqHistory
  <2>2. HqKept = hq_live /\ HqKept' = hq_live'
    <3>1. hq_pc[t] # "idle"
      BY <2>1
    <3> QED
      BY <1>9, <3>1, HqKeptNodes
  <2>3. \A n \in HqKept' : hq_data'[n] = Null \/ (n \in HqKept /\ hq_data'[n] = hq_data[n])
    BY <1>9, <2>2 DEF HqNewNode, HqTypeOK
  <2>4. (HqPushing(t)' <=> HqPushing(t)) /\ (HqClaimed(t)' <=> HqClaimed(t))
    BY <1>1, <2>1 DEF HqPushing, HqClaimed, HqFlow
  <2> QED
    BY <1>2, <2>1, <2>3, <2>4, HqElemQuiet
<1>10. CASE UNCHANGED hq_life /\ HqClaim(t) /\ hq_data[hq_old[t].ptr] = Null
  <2>1. hq_old[t].ptr \in Nodes
    BY <1>3, <1>10 DEF HqClaim, HqHolds, HqHolding
  <2> QED
    BY <1>10, <2>1, HqElemClaim
<1>11. ASSUME /\ UNCHANGED <<hq_life, hq_data, hq_arg, hq_pushed, hq_pulled>> /\ hq_live' \subseteq hq_live
              /\ hq_pc[t] # "idle"
              /\ HqPushing(t)' <=> HqPushing(t)
              /\ HqClaimed(t)' <=> HqClaimed(t)
              /\ hq_then[t] = "h_done" => hq_then'[t] = "h_done" /\ (hq_pc'[t] = "h_data" => hq_pc[t] = "h_data")
              /\ hq_then'[t] = "h_done" /\ hq_then[t] # "h_done" => ~HqPushing(t)
       PROVE  HqElemInv'
  <2>1. HqKept = hq_live /\ HqKept' = hq_live'
    BY <1>11, HqKeptNodes
  <2>2. \A n \in HqKept' : hq_data'[n] = Null \/ (n \in HqKept /\ hq_data'[n] = hq_data[n])
    BY <1>11, <2>1
  <2> QED
    BY <1>2, <1>11, <2>2, HqElemQuiet
<1>12. CASE UNCHANGED hq_life /\ (\/ HqPushCount(t) \/ HqSetTail(t) \/ HqPullCount(t) \/ HqPullNext(t)
                                  \/ (HqClaim(t) /\ hq_data[hq_old[t].ptr] # Null))
  BY <1>1, <1>11, <1>12 DEF HqPushCount, HqSetTail, HqPullCount, HqPullNext, HqClaim, HqFlow, HqPushing, HqClaimed,
     hqHeap, hqLocals, hqHistory
<1>13. CASE UNCHANGED hq_life /\ (HqLink(t) \/ HqHelp(t))
  BY <1>1, <1>11, <1>13 DEF HqLink, HqHelp, HqFlow, HqPushing, HqClaimed, hqHistory
<1>14. CASE UNCHANGED hq_life /\ (HqPullTail(t) \/ HqPullCas(t))
  BY <1>1, <1>11, <1>14 DEF HqPullTail, HqPullCas, HqFlow, HqPushing, HqClaimed, hqHeap, hqHistory
<1>15. CASE UNCHANGED hq_life /\ (HqNormal(t) \/ HqEndsLoad(t) \/ HqEndsCas(t))
  BY <1>1, <1>11, <1>15 DEF HqNormal, HqEndsLoad, HqEndsCas, HqFlow, HqPushing, HqClaimed, hqHeap, hqLocals, hqHistory
<1> QED
  BY <1>4, <1>5, <1>6, <1>7, <1>8, <1>9, <1>10, <1>12, <1>13, <1>14, <1>15 DEF HqRun, HqAccess
(* Every step of the queue keeps the invariant.                            *)
LEMMA HqStepKept ==
  ASSUME NEW c, NEW H, NEW T, HqInv(c, H, T), ~HqReused, NEW t \in Threads, HqCall(t) \/ HqRun(t)
  PROVE  \E d, G, K : HqInv(d, G, K)'
<1>1. HqTypeOK /\ HqFlowInv /\ HqElemInv /\ HqNodesInv(c, H, T)
  BY DEF HqInv, HqNodesInv
<1>2. HqAlone(t)
  BY <1>1, HqStepAlone
<1>3. HqTypeOK'
  <2>1. HqHolds(t) => hq_old[t].ptr \in Nodes
    BY <1>1, HqReliesOn
  <2> QED
    BY <1>1, <2>1, HqTypesKept
<1>4. HqFlowInv' /\ HqElemInv'
  BY <1>1, <1>2, HqFlowKept, HqElemKept
<1>5. \E d, G, K : HqNodesInv(d, G, K)'
  <2>1. CASE HqCall(t) \/ HqDestroy(t) \/ HqDeleteHead(t)
    BY <1>1, <1>2, <2>1, HqQuietSteps
  <2>2. CASE UNCHANGED hq_life /\ (HqPushReturns(t) \/ HqPullReturns(t) \/ HqPullTail(t) \/ HqPullNext(t)
                                   \/ HqEndsLoad(t))
    BY <1>1, <1>2, <2>2, HqQuietSteps
  <2>3. CASE UNCHANGED hq_life /\ HqNewNode(t)
    BY <1>1, <1>2, <1>3, <2>3, HqNewNodeStep
  <2>4. CASE UNCHANGED hq_life /\ HqPushCount(t)
    BY <1>1, <1>2, <1>3, <2>4, HqPushCountStep
  <2>5. CASE UNCHANGED hq_life /\ HqClaim(t)
    <3>1. hq_arg[t] # Null
      BY <1>1, <2>5, ElementsAssumption DEF HqElemInv, HqPushing, HqClaim
    <3>2. CASE hq_data[hq_old[t].ptr] = Null
      BY <1>1, <1>2, <1>3, <2>5, <3>1, <3>2, HqClaimStep
    <3>3. CASE hq_data[hq_old[t].ptr] # Null
      BY <1>1, <1>2, <2>5, <3>3, HqQuietSteps
    <3> QED
      BY <3>2, <3>3
  <2>6. CASE UNCHANGED hq_life /\ (HqLink(t) \/ HqHelp(t))
    <3>1. CASE hq_next[hq_old[t].ptr] = HqNull
      BY <1>1, <1>2, <1>3, <2>6, <3>1, HqLinkStep
    <3>2. CASE hq_next[hq_old[t].ptr] # HqNull /\ HqLink(t)
      BY <1>1, <1>2, <1>3, <2>6, <3>2, HqDropStep
    <3>3. CASE hq_next[hq_old[t].ptr] # HqNull /\ HqHelp(t)
      BY <1>1, <1>2, <2>6, <3>3, HqQuietSteps
    <3> QED
      BY <2>6, <3>1, <3>2, <3>3
  <2>7. CASE UNCHANGED hq_life /\ HqSetTail(t)
    <3>1. CASE hq_tail.ptr = hq_old[t].ptr
      BY <1>1, <1>2, <1>3, <2>7, <3>1, HqSetTailStep
    <3>2. CASE hq_tail.ptr # hq_old[t].ptr
      BY <1>1, <1>2, <2>7, <3>2, HqQuietSteps
    <3> QED
      BY <3>1, <3>2
  <2>8. CASE UNCHANGED hq_life /\ HqPullCount(t)
    BY <1>1, <1>2, <1>3, <2>8, HqPullCountStep
  <2>9. CASE UNCHANGED hq_life /\ HqPullCas(t)
    <3>1. CASE hq_head = hq_old[t]
      BY <1>1, <1>2, <1>3, <2>9, <3>1, HqPullCasStep
    <3>2. CASE hq_head # hq_old[t]
      BY <1>1, <1>2, <2>9, <3>2, HqQuietSteps
    <3> QED
      BY <3>1, <3>2
  <2>10. CASE UNCHANGED hq_life /\ HqPullData(t)
    BY <1>1, <1>2, <1>3, <2>10, HqPullDataStep
  <2>11. CASE UNCHANGED hq_life /\ HqNormal(t)
    BY <1>1, <1>2, <1>3, <2>11, HqNormalStep
  <2>12. CASE UNCHANGED hq_life /\ HqEndsCas(t)
    <3>1. CASE hq_pc[t] = "ends_cas"
      BY <1>1, <1>2, <1>3, <2>12, <3>1, HqEndsStep
    <3>2. CASE hq_pc[t] = "ends_again"
      BY <1>1, <1>2, <1>3, <2>12, <3>2, HqEndsAgainStep
    <3> QED
      BY <2>12, <3>1, <3>2 DEF HqEndsCas
  <2> QED
    BY <2>1, <2>2, <2>3, <2>4, <2>5, <2>6, <2>7, <2>8, <2>9, <2>10, <2>11, <2>12 DEF HqRun, HqAccess
<1>6. PICK d, G, K : HqNodesInv(d, G, K)'
  BY <1>5
<1>7. HqInv(d, G, K)'
  BY <1>3, <1>4, <1>6 DEF HqInv, HqNodesInv
<1> QED
  BY <1>7

(* The constructor makes a queue of one node, its dummy.                   *)
LEMMA HqInitInv == HqInit => \E c, H, T : HqInv(c, H, T)
<1> SUFFICES ASSUME HqInit
             PROVE  \E c, H, T : HqInv(c, H, T)
  OBVIOUS
<1>1. PICK c, H, T : c = <<1>> /\ H = [n \in Nodes |-> 0] /\ T = [n \in Nodes |-> 0]
  OBVIOUS
<1>2. 1 \in Nodes /\ 0 \notin Nodes
  BY DummyAssumption, NodesAssumption
<1>3. /\ hq_head.ptr = 1 /\ hq_head.count = 0 /\ hq_tail.ptr = 1 /\ hq_tail.count = 0
      /\ HqNull.ptr = 0 /\ HqNull.count = 0
      /\ HqPtr(0, 1) \in HqPtrs /\ HqNull \in HqPtrs /\ Fresh \in HqCounters
      /\ \A n \in Nodes : hq_next[n] = HqNull /\ hq_data[n] = Null /\ hq_count[n] = Fresh
      /\ HqKept = {1} /\ hq_life = "alive"
      /\ \A t \in Threads : /\ hq_pc[t] = "idle" /\ hq_then[t] = "idle" /\ hq_new[t] = 0
                            /\ hq_arg[t] = Null
  BY <1>2 DEF HqInit, HqPtr, HqPtrs, HqNull, Fresh, HqCounters, HqKept
<1>4. HqTypeOK
  BY <1>2, <1>3 DEF HqInit, HqTypeOK
<1>5. HqFlowInv
  BY <1>3 DEF HqInit, HqFlowInv, HqLabels, HqFlow, HqReady
<1>6. IsChain(c, 1, HqNextPtrs) /\ NodesOf(c) = {1}
  <2>1. c \in Seq(Nodes) /\ Len(c) = 1 /\ c[1] = 1 /\ NodesOf(c) = {1}
    BY <1>1, <1>2, SinglePath
  <2>2. HqNextPtrs[1] = 0
    BY <1>2, <1>3 DEF HqNextPtrs
  <2> QED
    BY <2>1, <2>2 DEF IsChain
<1>7. HqListInv(c)
  BY <1>2, <1>3, <1>6 DEF HqListInv
<1>8. ASSUME NEW u \in Threads
      PROVE  /\ hq_pc[u] = "idle" /\ hq_then[u] = "idle" /\ hq_new[u] = 0 /\ hq_arg[u] = Null
             /\ ~HqHolds(u) /\ ~HqLeavesHead(u) /\ ~HqLeavesTail(u) /\ ~HqLast(u) /\ ~HqPushing(u)
  <2>1. hq_pc[u] = "idle" /\ hq_then[u] = "idle" /\ hq_new[u] = 0 /\ hq_arg[u] = Null
    BY <1>3
  <2> QED
    BY ONLY <2>1 DEF HqHolds, HqHolding, HqLeavesHead, HqLeavesTail, HqLast, HqPushing
<1>9. HqThreadsInv(c, H, T)
  <2>1. ASSUME NEW u \in Threads
        PROVE  /\ HqOwn(u, c, H, T) /\ HqLeaves(u, hq_old[u].ptr, c, H, T) /\ ~HqHolds(u)
    <3>1. /\ hq_pc[u] = "idle" /\ hq_new[u] = 0 /\ ~HqLeavesHead(u) /\ ~HqLeavesTail(u)
          /\ ~HqLast(u) /\ ~HqHolds(u)
      BY <1>8
    <3> QED
      BY ONLY <3>1 DEF HqOwn, HqLeaves
  <2> QED
    BY <2>1, Zenon DEF HqThreadsInv
<1>10. HqCounts(1, 0, 0)
  <2>1. HqUsers(1) = {}
    BY <1>8 DEF HqUsers
  <2>2. Cardinality(HqUsers(1)) = 0
    BY <2>1, FS_EmptySet
  <2>3. Ends(0) = 1 /\ AtEnd(0) = 0 /\ hq_count[1].external = 2 /\ hq_count[1].internal = 0
    BY <1>2, <1>3 DEF Ends, AtEnd, Fresh
  <2> QED
    BY <2>2, <2>3 DEF HqCounts
<1>11. HqCountInv(c, H, T)
  BY <1>1, <1>2, <1>3, <1>6, <1>10 DEF HqCountInv
<1>12. HqElemInv
  <2>1. \A t \in Threads : ~HqPushing(t) /\ hq_then[t] = "idle" /\ hq_arg[t] = Null
    BY <1>8, Zenon
  <2>2. hq_pulled = {} /\ \A n \in HqKept : hq_data[n] = Null
    BY <1>2, <1>3 DEF HqInit
  <2> QED
    BY ONLY <2>1, <2>2 DEF HqElemInv
<1>13. H \in [Nodes -> Int] /\ T \in [Nodes -> Int]
  BY <1>1
<1> QED
  BY <1>4, <1>5, <1>7, <1>9, <1>11, <1>12, <1>13 DEF HqInv

(* The inductive invariant of hl_queue: the queue is a chain from the head *)
(* whose last node, or the one before it, is the tail; what a thread knows *)
(* of the node that it is counted in on; how the counts of a node add up;  *)
(* and where each element is.                                              *)
THEOREM HqInvariance == HqSpec => [](\E c, H, T : HqInv(c, H, T))
<1>1. (\E c, H, T : HqInv(c, H, T)) /\ [HqNext]_hqVars => (\E c, H, T : HqInv(c, H, T))'
  <2> SUFFICES ASSUME NEW c, NEW H, NEW T, HqInv(c, H, T), [HqNext]_hqVars
               PROVE  (\E d, G, K : HqInv(d, G, K))'
    OBVIOUS
  <2>1. ASSUME ~HqReused, NEW t \in Threads, HqCall(t) \/ HqRun(t)
        PROVE  (\E d, G, K : HqInv(d, G, K))'
    BY <2>1, HqStepKept
  <2>2. CASE UNCHANGED hqVars
    <3> USE <2>2 DEF hqVars, hqHeap, hqLocals, hqHistory
    <3>1. HqTypeOK' /\ HqFlowInv'
      BY DEF HqInv, HqTypeOK, HqFlowInv, HqFlow, HqReady
    <3>2. HqListInv(c)'
      BY DEF HqInv, HqListInv, HqNextPtrs, HqKept
    <3>3. HqThreadsInv(c, H, T)'
      BY DEF HqInv, HqThreadsInv, HqOwn, HqKnows, HqLeaves, HqLeavesHead, HqLeavesTail, HqLast, HqHolds, HqKept
    <3>4. HqCountInv(c, H, T)'
      BY DEF HqInv, HqCountInv, HqCounts, HqUsers, HqHolds, HqKept
    <3>5. HqElemInv'
      BY DEF HqInv, HqElemInv, HqKnown, HqPushing, HqClaimed, HqKept
    <3>6. HqInv(c, H, T)'
      BY <3>1, <3>2, <3>3, <3>4, <3>5 DEF HqInv
    <3> QED
      BY <3>6
  <2> QED
    BY <2>1, <2>2 DEF HqNext
<1> QED
  BY <1>1, HqInitInv, PTL DEF HqSpec

(* Every variable of hl_queue keeps its type.                              *)
THEOREM HqTypeCorrect == HqSpec => []HqTypeOK
<1>1. (\E c, H, T : HqInv(c, H, T)) => HqTypeOK
  BY DEF HqInv
<1> QED
  BY <1>1, HqInvariance, PTL

(* What the invariant says of the model's own list of the queue.           *)
LEMMA HqChainIs ==
  ASSUME NEW c, HqListInv(c)
  PROVE  HqChain = c /\ HqInQueue = NodesOf(c)
<1>1. HqChain = c
  BY ChainComputed DEF HqListInv, HqChain, HqNextPtrs
<1> QED
  BY <1>1 DEF HqInQueue

(* Reclamation is safe: no node of the queue, no node that a thread has    *)
(* counted itself in on, and no node that a push() has ready is deleted.   *)
THEOREM HqReclaims == HqSpec => []HqNoDeadNode
<1>1. ASSUME NEW c, NEW H, NEW T, HqInv(c, H, T)
      PROVE  HqNoDeadNode
  <2>1. HqListInv(c) /\ HqNodesInv(c, H, T) /\ HqTypeOK /\ HqFlowInv
    BY <1>1 DEF HqInv, HqNodesInv
  <2>2. HqInQueue \subseteq HqKept
    BY <2>1, HqChainIs, HqPointers
  <2>3. \A t \in Threads : /\ HqHolds(t) => hq_old[t].ptr \in HqKept
                           /\ hq_new[t] # 0 => hq_new[t] \in HqKept
    BY <2>1, HqReliesOn DEF HqKnows, HqOwn
  <2>4. HqUsed \subseteq HqKept
    <3>1. \A t \in Threads : hq_pc[t] \notin {"idle", "p_new", "p_count", "p_done", "h_count", "h_done",
                                              "ends_again", "d_head"} => HqHolds(t)
      BY <2>1 DEF HqFlowInv, HqLabels, HqHolds, HqHolding
    <3> QED
      BY <2>3, <3>1 DEF HqUsed
  <2>5. {hq_new[t] : t \in Threads} \ {0} \subseteq HqKept
    BY <2>3
  <2> QED
    BY <2>2, <2>4, <2>5 DEF HqNoDeadNode, HqKept
<1>2. (\E c, H, T : HqInv(c, H, T)) => HqNoDeadNode
  BY <1>1
<1> QED
  BY <1>2, HqInvariance, PTL
(* A thread that has taken a node, or holds an element of one, is the only *)
(* one that has that element.                                              *)
LEMMA HqTakenOnce ==
  ASSUME NEW c, NEW H, NEW T, HqInv(c, H, T), NEW t \in Threads, NEW v \in HqTaken(t)
  PROVE  /\ v # Null /\ v \notin hq_pulled
         /\ \A n \in NodesOf(c) : hq_data[n] # v
         /\ \A u \in Threads : v \in HqTaken(u) => u = t
<1>1. HqListInv(c) /\ HqNodesInv(c, H, T) /\ HqTypeOK /\ HqElemInv /\ HqFlowInv
  BY DEF HqInv, HqNodesInv
<1>2. v \in Values /\ v # Null /\ NodesOf(c) \subseteq HqKept
  BY <1>1, ElementsAssumption, HqPointers DEF HqTaken
<1>3. ASSUME NEW u \in Threads, hq_pc[u] = "h_data"
      PROVE  /\ hq_old[u].ptr \in HqKept /\ hq_old[u].ptr \notin NodesOf(c) /\ hq_then[u] = "h_done"
             /\ hq_arg[u] = Null
             /\ \A w \in Threads : hq_pc[w] = "h_data" /\ hq_old[w].ptr = hq_old[u].ptr => w = u
  <2>1. HqHolds(u) /\ HqLeavesHead(u) /\ \A w \in Threads : hq_pc[w] = "h_data" => HqLeavesHead(w)
    BY <1>3 DEF HqHolds, HqHolding, HqLeavesHead
  <2>2. HqKnows(u, hq_old[u].ptr, c) /\ HqLeaves(u, hq_old[u].ptr, c, H, T)
    BY <1>1, <2>1, HqReliesOn
  <2>3. hq_then[u] = "h_done" /\ ~HqPushing(u)
    BY <1>1, <1>3 DEF HqFlowInv, HqFlow, HqPushing
  <2> QED
    BY <1>1, <1>3, <2>1, <2>2, <2>3 DEF HqKnows, HqLeaves, HqElemInv
<1>4. CASE hq_pc[t] = "h_data" /\ hq_data[hq_old[t].ptr] = v
  <2>1. PICK n \in HqKept : n = hq_old[t].ptr /\ n \notin NodesOf(c) /\ hq_data[n] = v
    BY <1>3, <1>4
  <2>2. /\ v \notin hq_pulled /\ \A m \in HqKept : hq_data[m] = v => m = n
        /\ \A u \in Threads : hq_then[u] = "h_done" => hq_arg[u] # v
    BY <1>1, <1>2, <2>1 DEF HqElemInv
  <2>3. \A u \in Threads : v \in HqTaken(u) => u = t
    BY <1>3, <1>4, <2>1, <2>2 DEF HqTaken
  <2> QED
    BY <1>2, <2>1, <2>2, <2>3
<1>5. CASE hq_then[t] = "h_done" /\ hq_arg[t] = v
  <2>1. /\ v \notin hq_pulled
        /\ \A u \in Threads : hq_then[u] = "h_done" /\ hq_arg[u] = v => u = t
        /\ \A m \in HqKept : hq_data[m] # v
    BY <1>1, <1>2, <1>5 DEF HqElemInv
  <2>2. \A u \in Threads : v \in HqTaken(u) => u = t
    BY <1>3, <2>1 DEF HqTaken
  <2> QED
    BY <1>2, <2>1, <2>2
<1> QED
  BY <1>4, <1>5 DEF HqTaken

(* The list leads from the head to the tail, every node before the last    *)
(* has its element, and no element is in two places at once.               *)
THEOREM HqDelivers == HqSpec => [](HqListIsWhole /\ HqNothingTwice)
<1>1. ASSUME NEW c, NEW H, NEW T, HqInv(c, H, T)
      PROVE  HqListIsWhole /\ HqNothingTwice
  <2>1. HqListInv(c) /\ HqNodesInv(c, H, T) /\ HqTypeOK /\ HqElemInv
    BY <1>1 DEF HqInv, HqNodesInv
  <2>2. HqChain = c /\ NodesOf(c) \subseteq HqKept /\ NodesOf(c) \subseteq Nodes /\ 0 \notin Nodes
    BY <2>1, HqChainIs, HqPointers
  <2>3. PICK N \in Nat : N = Len(c) /\ DOMAIN c = 1 .. N
    BY <2>1 DEF HqListInv, IsChain
  <2>4. /\ \A i \in 1 .. N : /\ c[i] \in NodesOf(c) /\ c[i] \in Nodes
                             /\ hq_next[c[i]].ptr = IF i = N THEN 0 ELSE c[i + 1]
        /\ \A i, j \in 1 .. N : c[i] = c[j] => i = j
        /\ NodesOf(c) = {c[i] : i \in 1 .. N}
    <3>1. \A i \in 1 .. N : c[i] \in NodesOf(c) /\ c[i] \in Nodes
      BY <2>2, <2>3 DEF NodesOf
    <3> QED
      BY <2>1, <2>3, <3>1 DEF HqListInv, IsChain, HqNextPtrs, NodesOf
  <2>5. \A k \in 1 .. N - 1 : hq_data[c[k]] # Null
    <3>1. ASSUME NEW k \in 1 .. N - 1
          PROVE  hq_data[c[k]] # Null
      <4>1. k \in 1 .. N /\ k # N /\ k + 1 \in 1 .. N
        BY <2>3
      <4>2. hq_next[c[k]].ptr # 0
        BY <2>2, <2>4, <4>1
      <4> QED
        BY <2>1, <2>4, <4>1, <4>2 DEF HqListInv
    <3> QED
      BY <3>1
  <2>6. PICK i \in 1 .. N : c[i] = hq_tail.ptr
    BY <2>1, <2>4 DEF HqListInv
  <2>7. N <= i + 1
    <3>1. CASE i = N
      BY <2>3, <3>1
    <3>2. CASE i # N
      <4>1. i + 1 \in 1 .. N
        BY <2>3, <3>2
      <4>2. hq_next[hq_tail.ptr].ptr = c[i + 1] /\ c[i + 1] \in Nodes
        BY <2>4, <2>6, <3>2, <4>1
      <4>3. hq_next[c[i + 1]].ptr = 0
        BY <2>1, <4>2 DEF HqListInv
      <4>4. i + 1 # N => i + 2 \in 1 .. N /\ hq_next[c[i + 1]].ptr = c[i + 2]
        BY <2>3, <2>4, <4>1
      <4>5. i + 1 = N
        BY <2>2, <2>4, <4>3, <4>4
      <4> QED
        BY <2>3, <4>5
    <3> QED
      BY <3>1, <3>2
  <2>8. \A t \in Threads : hq_pc[t] = "h_data" => hq_data[hq_old[t].ptr] # Null
    BY <2>1, HqReliesOn DEF HqKnows
  <2>9. HqListIsWhole
    BY <2>2, <2>3, <2>5, <2>6, <2>7, <2>8 DEF HqListIsWhole
  <2>10. PICK d : d = DataOf(c, hq_data)
    OBVIOUS
  <2>11. DOMAIN d = 1 .. N /\ \A k \in 1 .. N : d[k] = hq_data[c[k]]
    BY <2>3, <2>10 DEF DataOf
  <2>12. ASSUME NEW k \in DOMAIN d, NEW j \in DOMAIN d, k # j, d[k] = d[j]
         PROVE  d[k] = Null
    <3>1. c[k] \in HqKept /\ c[j] \in HqKept /\ c[k] # c[j]
      BY <2>2, <2>4, <2>11, <2>12
    <3>2. hq_data[c[j]] = hq_data[c[k]]
      BY <2>11, <2>12
    <3>3. hq_data[c[k]] = Null
      BY <2>1, <3>1, <3>2 DEF HqElemInv
    <3> QED
      BY <2>11, <3>3
  <2>13. HqQueued = {hq_data[n] : n \in NodesOf(c)} \ {Null}
    <3>1. NodesOf(d) = {hq_data[c[k]] : k \in 1 .. N}
      BY <2>11 DEF NodesOf
    <3>2. {hq_data[n] : n \in NodesOf(c)} = {hq_data[c[k]] : k \in 1 .. N}
      BY <2>4
    <3> QED
      BY <2>2, <2>10, <3>1, <3>2 DEF HqQueued
  <2>14. ASSUME NEW t \in Threads, NEW v \in HqTaken(t)
         PROVE  v \notin HqQueued \cup hq_pulled /\ \A u \in Threads : v \in HqTaken(u) => u = t
    BY <1>1, <2>13, HqTakenOnce
  <2>15. HqQueued \cap hq_pulled = {}
    BY <2>1, <2>2, <2>13 DEF HqElemInv
  <2>16. ASSUME NEW t \in Threads
         PROVE  HqTaken(t) \cap (HqQueued \cup hq_pulled) = {}
    BY <2>14
  <2>17. ASSUME NEW t \in Threads, NEW u \in Threads, t # u
         PROVE  HqTaken(t) \cap HqTaken(u) = {}
    BY <2>14, <2>17
  <2>18. HqNothingTwice
    BY <2>2, <2>10, <2>12, <2>15, <2>16, <2>17 DEF HqNothingTwice
  <2> QED
    BY <2>9, <2>18
<1>2. (\E c, H, T : HqInv(c, H, T)) => HqListIsWhole /\ HqNothingTwice
  BY <1>1
<1> QED
  BY <1>2, HqInvariance, PTL

-----------------------------------------------------------------------------
(* variant and any: an object lives exactly as long as one holder names it.*)

(* A holder that does not exist names nothing. *)
NamedInv == \A h \in HolderIds : anchor[h] # union_npos => h \in built

HoldersInv == HoldersTypeOK /\ NamedInv /\ OneHolderPerObject

-----------------------------------------------------------------------------
(* Before anything is built nothing lives. *)
LEMMA HoldersInitInv == HoldersInit => HoldersInv
<1> USE AlternativesAssumption DEF AlternativesAssumption, union_npos, Positions
<1> SUFFICES ASSUME HoldersInit PROVE HoldersInv
  OBVIOUS
<1>1. HoldersTypeOK
  <2>1. anchor \in [HolderIds -> Positions \cup {union_npos}] /\ bits \in [HolderIds -> 0 .. MaxObjects]
    BY DEF HoldersInit
  <2>2. made \in 0 .. MaxObjects /\ living \subseteq 1 .. made /\ built \subseteq HolderIds
    BY DEF HoldersInit
  <2>3. twice \in BOOLEAN /\ bitwise \in BOOLEAN /\ ended \in BOOLEAN
    BY DEF HoldersInit
  <2> QED
    BY <2>1, <2>2, <2>3 DEF HoldersTypeOK
<1>2. NamedInv /\ OneHolderPerObject
  BY DEF HoldersInit, NamedInv, OneHolderPerObject, Held
<1> QED
  BY <1>1, <1>2 DEF HoldersInv

(* A new object is made in a holder, in place of the one it had, if any.   *)
LEMMA MakesInv ==
  ASSUME HoldersInv, NEW h \in HolderIds, NEW a \in Positions, Makes(h, a),
         living' = (living \ Dies(h)) \cup {made + 1}, built' = built \cup {h},
         twice' = (twice \/ ~ Dies(h) \subseteq living), UNCHANGED <<bitwise, ended>>
  PROVE  HoldersInv'
<1> USE AlternativesAssumption
    DEF AlternativesAssumption, union_npos, Positions, HoldersInv,
        HoldersTypeOK, NamedInv, Held, Dies, Makes
<1>1. HoldersTypeOK' /\ NamedInv'
  <2>1. anchor' \in [HolderIds -> Positions \cup {union_npos}] /\ NamedInv'
    OBVIOUS
  <2>2. made' \in 0 .. MaxObjects /\ bits' \in [HolderIds -> 0 .. MaxObjects]
    OBVIOUS
  <2>3. living' \subseteq 1 .. made'
    <3> SUFFICES ASSUME NEW i \in living' PROVE i \in 1 .. made'
      OBVIOUS
    <3>1. made \in Nat /\ made' = made + 1 /\ (i = made + 1 \/ i \in 1 .. made)
      OBVIOUS
    <3> QED
      BY <3>1
  <2>4. built' \subseteq HolderIds /\ bitwise' \in BOOLEAN /\ ended' \in BOOLEAN
    OBVIOUS
  <2>5. twice' \in BOOLEAN
    OBVIOUS
  <2> QED
    BY <2>1, <2>2, <2>3, <2>4, <2>5
<1>2. ASSUME ~bitwise' PROVE OneHolderPerObject'
  <2>1. /\ ~twice /\ living = {bits[g] : g \in {f \in HolderIds : Held(f)}}
        /\ \A f, g \in HolderIds : Held(f) /\ Held(g) /\ bits[f] = bits[g] => f = g
    BY <1>2 DEF OneHolderPerObject
  <2>2. ~twice' /\ Held(h)' /\ bits'[h] = made + 1
    BY <2>1
  <2>3. ASSUME NEW g \in HolderIds, g # h
        PROVE  /\ Held(g)' <=> Held(g)
               /\ bits'[g] = bits[g]
               /\ Held(g) => bits[g] \in living /\ bits[g] # made + 1 /\ bits[g] \notin Dies(h)
    BY <2>1, <2>3
  <2>4. living' = {bits'[g] : g \in {f \in HolderIds : Held(f)'}}
    <3>1. \A i \in living' : \E g \in HolderIds : Held(g)' /\ i = bits'[g]
      BY <2>1, <2>2, <2>3
    <3>2. \A g \in HolderIds : Held(g)' => bits'[g] \in living'
      BY <2>1, <2>2, <2>3
    <3> HIDE DEF HoldersInv, HoldersTypeOK, NamedInv, Held, Dies
    <3> QED
      BY ONLY <3>1, <3>2
  <2>5. \A f, g \in HolderIds : Held(f)' /\ Held(g)' /\ bits'[f] = bits'[g] => f = g
    BY <2>1, <2>2, <2>3
  <2> QED
    BY <2>2, <2>4, <2>5 DEF OneHolderPerObject
<1>3. bitwise' => OneHolderPerObject'
  BY DEF OneHolderPerObject
<1> QED
  BY <1>1, <1>2, <1>3

(* A holder is left empty, and its object is destroyed. *)
LEMMA EmptiesInv ==
  ASSUME HoldersInv, NEW h \in HolderIds, Destroys(h),
         anchor' = [anchor EXCEPT ![h] = union_npos],
         built' \in {built, built \cup {h}, built \ {h}},
         UNCHANGED <<bits, made, bitwise>>, ended' \in BOOLEAN
  PROVE  HoldersInv'
<1> USE AlternativesAssumption
    DEF AlternativesAssumption, union_npos, Positions, HoldersInv,
        HoldersTypeOK, NamedInv, Held, Dies, Destroys
<1>1. HoldersTypeOK' /\ NamedInv'
  OBVIOUS
<1>2. ASSUME ~bitwise' PROVE OneHolderPerObject'
  <2>1. /\ ~twice /\ living = {bits[g] : g \in {f \in HolderIds : Held(f)}}
        /\ \A f, g \in HolderIds : Held(f) /\ Held(g) /\ bits[f] = bits[g] => f = g
    BY <1>2 DEF OneHolderPerObject
  <2>2. ~twice' /\ ~Held(h)'
    BY <2>1
  <2>3. ASSUME NEW g \in HolderIds, g # h
        PROVE  /\ Held(g)' <=> Held(g)
               /\ Held(g) => bits[g] \in living /\ bits[g] \notin Dies(h)
    BY <2>1, <2>3
  <2>4. living' = {bits'[g] : g \in {f \in HolderIds : Held(f)'}}
    <3>1. \A i \in living' : \E g \in HolderIds : Held(g)' /\ i = bits'[g]
      BY <2>1, <2>2, <2>3
    <3>2. \A g \in HolderIds : Held(g)' => bits'[g] \in living'
      BY <2>1, <2>2, <2>3
    <3> HIDE DEF HoldersInv, HoldersTypeOK, NamedInv, Held, Dies
    <3> QED
      BY ONLY <3>1, <3>2
  <2>5. \A f, g \in HolderIds : Held(f)' /\ Held(g)' /\ bits'[f] = bits'[g] => f = g
    BY <2>1, <2>2, <2>3
  <2> QED
    BY <2>2, <2>4, <2>5 DEF OneHolderPerObject
<1>3. bitwise' => OneHolderPerObject'
  BY DEF OneHolderPerObject
<1> QED
  BY <1>1, <1>2, <1>3

(* A holder that is not there has no object. *)
LEMMA NothingDies ==
  ASSUME HoldersInv, NEW h \in HolderIds \ built
  PROVE  anchor[h] = union_npos /\ Dies(h) = {}
  BY DEF HoldersInv, NamedInv, Dies

-----------------------------------------------------------------------------
(* Every step keeps each object with its one holder. *)
LEMMA HoldersStepInv == HoldersInv /\ [HoldersNext]_holderVars => HoldersInv'
<1> SUFFICES ASSUME HoldersInv, [HoldersNext]_holderVars PROVE HoldersInv'
  OBVIOUS
<1> USE AlternativesAssumption DEF AlternativesAssumption, union_npos, Positions, HolderIds
<1>0. CASE UNCHANGED holderVars
  BY <1>0 DEF holderVars, HoldersInv, HoldersTypeOK, NamedInv, OneHolderPerObject, Held
<1>1. ASSUME NEW h \in HolderIds, DefaultConstruct(h) PROVE HoldersInv'
  BY <1>1, NothingDies, EmptiesInv DEF DefaultConstruct, Destroys, HoldersInv, HoldersTypeOK
<1>2. ASSUME NEW v \in HolderIds, NEW a \in Positions, Construct(v, a) PROVE HoldersInv'
  BY <1>2, NothingDies, MakesInv DEF Construct, HoldersInv, HoldersTypeOK
<1>3. ASSUME NEW v \in HolderIds, NEW a \in Positions, Assign(v, a) PROVE HoldersInv'
  BY <1>3, MakesInv, EmptiesInv DEF Assign, Destroys, HoldersInv, HoldersTypeOK
<1>4. ASSUME NEW v \in HolderIds, NEW w \in Variants, AssignVariant(v, w) PROVE HoldersInv'
  BY <1>4 DEF AssignVariant, HoldersInv, HoldersTypeOK, NamedInv, OneHolderPerObject
<1>5. ASSUME NEW h \in HolderIds, NEW a \in Positions, AnyConstruct(h, a) PROVE HoldersInv'
  BY <1>5, NothingDies, MakesInv
     DEF AnyConstruct, HoldersInv, HoldersTypeOK, NamedInv, OneHolderPerObject, Held
<1>6. ASSUME NEW h \in HolderIds, AnyReset(h) \/ Destruct(h) PROVE HoldersInv'
  BY <1>6, EmptiesInv DEF AnyReset, Destruct, HoldersInv, HoldersTypeOK
<1>7. ASSUME NEW v \in HolderIds, NEW w \in Variants, ConvertFrom(v, w) PROVE HoldersInv'
  BY <1>7, <1>2 DEF ConvertFrom, HoldersInv, HoldersTypeOK
<1> QED
  BY <1>0, <1>1, <1>2, <1>3, <1>4, <1>5, <1>6, <1>7 DEF HoldersNext

-----------------------------------------------------------------------------
(* The variables of variant and any keep their types, and a variant or an  *)
(* any that is gone names no object (_M_anchor, _M_m).                     *)
THEOREM HoldersInvariance == HoldersSpec => []HoldersInv
<1> QED
  BY HoldersInitInv, HoldersStepInv, PTL DEF HoldersSpec

(* No object in a variant or an any is leaked, shared or destroyed twice,  *)
(* if one variant is never assigned to another.                            *)
THEOREM OneHolder == HoldersSpec => []OneHolderPerObject
<1>1. HoldersInv => OneHolderPerObject
  BY DEF HoldersInv
<1> QED
  BY <1>1, HoldersInvariance, PTL

-----------------------------------------------------------------------------
(* The parts, in the system that the run explores *)

(* The system does what each part does, or leaves it alone.                *)
LEMMA PartsRun == MCSpec => HsSpec /\ LlSpec /\ HqSpec /\ HoldersSpec
<1>1. MCInit => HsInit /\ LlInit /\ HqInit /\ HoldersInit
  BY DEF MCInit
<1>2. [MCNext]_mcvars => [HsNext]_hsVars
  BY DEF MCNext, MCHlStack, MCLlStack, MCHlQueue, MCHolders, mcvars, HsNext
<1>3. [MCNext]_mcvars => [LlNext]_llVars
  BY DEF MCNext, MCHlStack, MCLlStack, MCHlQueue, MCHolders, mcvars, LlNext
<1>4. [MCNext]_mcvars => [HqNext]_hqVars
  BY DEF MCNext, MCHlStack, MCLlStack, MCHlQueue, MCHolders, mcvars, HqNext
<1>5. [MCNext]_mcvars => [HoldersNext]_holderVars
  BY DEF MCNext, MCHlStack, MCLlStack, MCHlQueue, MCHolders, mcvars
<1> QED
  BY <1>1, <1>2, <1>3, <1>4, <1>5, PTL DEF MCSpec, HsSpec, LlSpec, HqSpec, HoldersSpec

(* Every variable of the stacks, of hl_queue, of variant and of any keeps  *)
(* its type: what a thread reads through a pointer is a node's.            *)
THEOREM TypesKept == MCSpec => []TypesOK
<1>1. HoldersInv => HoldersTypeOK
  BY DEF HoldersInv
<1>2. HsTypeOK /\ LlTypeOK /\ HqTypeOK /\ HoldersTypeOK => TypesOK
  BY DEF TypesOK
<1> QED
  BY <1>1, <1>2, PartsRun, HsTypeCorrect, LlTypeCorrect, HqTypeCorrect, HoldersInvariance, PTL

(* No node of the stacks or of hl_queue is touched after its deletion, but *)
(* by the last compare-and-swap of ends_release_ref.                       *)
THEOREM ReclamationIsSafe == MCSpec => []NoDeadNode
<1>1. (HsNoDeadNode /\ HsNoLeak) /\ (LlNoDeadNode /\ LlOneOwner) /\ HqNoDeadNode => NoDeadNode
  BY DEF NoDeadNode
<1> QED
  BY <1>1, PartsRun, HsReclaims, LlReclaims, HqReclaims, PTL

(* Every node of a stack is in the list, with a thread or deleted, and the *)
(* list of nodes that ll_stack will delete belongs to one thread.          *)
THEOREM StackNodesOwnedOnce == MCSpec => []NodesOwnedOnce
<1>1. (HsNoDeadNode /\ HsNoLeak) /\ (LlNoDeadNode /\ LlOneOwner) => NodesOwnedOnce
  BY DEF NodesOwnedOnce
<1> QED
  BY <1>1, PartsRun, HsReclaims, LlReclaims, PTL

(* hl_queue leads from its head to its tail, and delivers no element twice,*)
(* whatever the number of threads, nodes and elements.                     *)
THEOREM QueueDeliversOnce == MCSpec => []HqDeliversOnce
<1>1. HqListIsWhole /\ HqNothingTwice => HqDeliversOnce
  BY DEF HqDeliversOnce
<1> QED
  BY <1>1, PartsRun, HqDelivers, PTL

(* Both stacks are linearizable stacks, for any number of threads, nodes   *)
(* and elements.                                                           *)
THEOREM StacksAreLinearizable == MCSpec => ImplementsLifo
  BY PartsRun, HsIsLifo, LlIsLifo, PTL DEF ImplementsLifo
=============================================================================
