------------------------------ MODULE AlgoProofs ------------------------------
(***************************************************************************)
(* The two parallel algorithms, for any number of workers and any way they *)
(* interleave.  parallel_for_each, for any range: no element is visited    *)
(* twice, and none is left out.  parallel_sort, for any list, any choice   *)
(* of the dividing values, and whichever thread runs which call on top of  *)
(* which other: what it returns is the list it was given, in order.        *)
(***************************************************************************)
EXTENDS ParallelForEach, ParallelSort, SequenceTheorems, FiniteSetTheorems, WellFoundedInduction, TLAPS

-----------------------------------------------------------------------------
(* parallel_for_each: the inductive invariant, part by part. *)

(* The tasks are submitted in the order of the chunks and pulled in the    *)
(* order of their submission: so many were submitted, so many pulled.      *)
Submitted == IF phase = "none" THEN 0 ELSE IF phase = "submit" THEN idx - 1 ELSE chunks
Taken == Submitted - Len(jobs)

EachShapeInv ==
  /\ phase \in {"none", "submit", "get", "visited", "visit_threw"}
  /\ phase = "none" => idx = 1
  /\ phase \in {"submit", "get", "visit_threw"} => idx \in 1 .. chunks
  /\ idx \in 1 .. chunks + 1 /\ callable \in {"same", "throws", "hollow"}
  /\ visits \in [ToVisit -> Nat]
  /\ promised \in [Jobs -> {"none", "value", "exception"}]
  /\ dozing \in [PoolWorkers -> {"awake", "window", "asleep"}]
  /\ running = [t \in AlgoThreads |-> running[t]] /\ running[Caller] = << >>

QueueInv ==
  /\ jobs \in Seq(1 .. chunks) /\ Taken \in Nat
  /\ \A n \in 1 .. Len(jobs) : jobs[n] = Taken + n

(* The j-th element of chunk i; moving from f left nothing to call for it. *)
ChunkElem(i, j) == (i - 1) * min_elements_in_chunk + j
Hollow(i) == i > 1 /\ callable = "hollow"

(* Worker w is at element a of chunk i, and the elements up to it were     *)
(* visited, those behind it not.                                           *)
Works(w, i, a) == running[w] = <<[job |-> i, at |-> a]>>

Reached(i, a) ==
  \A j \in 1 .. min_elements_in_chunk : ChunkElem(i, j) <= Length =>
    IF j > a THEN visits[ChunkElem(i, j)] = 0 ELSE Hollow(i) \/ visits[ChunkElem(i, j)] = 1

WorkInv ==
  /\ \A w \in PoolWorkers :
       \/ running[w] = << >>
       \/ \E i \in 1 .. Taken, a \in 0 .. min_elements_in_chunk :
            Works(w, i, a) /\ promised[i] = "none" /\ Reached(i, a)
  /\ \A v, w \in PoolWorkers, i \in 1 .. Taken, a, b \in 0 .. min_elements_in_chunk :
       Works(v, i, a) /\ Works(w, i, b) => v = w

(* A chunk that no worker pulled is untouched; one that is done is whole.  *)
ChunkInv ==
  \A i \in 1 .. chunks :
    /\ i > Taken => promised[i] = "none" /\ Reached(i, 0)
    /\ promised[i] = "value" => Reached(i, min_elements_in_chunk)
    /\ \A j \in 1 .. min_elements_in_chunk : ChunkElem(i, j) <= Length => visits[ChunkElem(i, j)] <= 1

(* The futures the caller has got. *)
GotInv ==
  /\ phase \in {"get", "visit_threw"} => \A i \in 1 .. idx - 1 : promised[i] = "value"
  /\ phase = "visit_threw" => promised[idx] = "exception"
  /\ phase = "visited" => \A i \in 1 .. chunks : promised[i] = "value"

EachInv == EachShapeInv /\ QueueInv /\ WorkInv /\ ChunkInv /\ GotInv

-----------------------------------------------------------------------------
(* The chunks cut the range: there are enough of them, and not one too     *)
(* many; each has two elements, but for the last, which may have one.      *)
LEMMA Sizes ==
  /\ Length \in Nat /\ chunks \in Nat /\ MaxJobs \in Nat /\ chunks <= MaxJobs
  /\ Length <= 2 * chunks /\ 2 * chunks <= Length + 1
  /\ Caller \notin PoolWorkers
  BY LengthAssumption, AlgoAssumption
     DEF LengthAssumption, AlgoAssumption, chunks, min_elements_in_chunk

(* The elements of the chunks are elements of the range, and no element is *)
(* in two chunks.                                                          *)
LEMMA ChunksCut ==
  /\ \A i \in 1 .. chunks, j \in 1 .. 3 : /\ ChunkElem(i, j) = 2 * i - 2 + j /\ ChunkElem(i, j) \in Nat
                                          /\ ChunkElem(i, j) <= ChunkEnd(i) <=> j <= 2 /\ ChunkElem(i, j) <= Length
  /\ \A i \in 1 .. chunks, j \in 1 .. 2 : ChunkElem(i, j) <= Length => ChunkElem(i, j) \in ToVisit
  /\ \A i, k \in 1 .. chunks, j, l \in 1 .. 2 : ChunkElem(i, j) = ChunkElem(k, l) => i = k /\ j = l
<1>1. ASSUME NEW i \in 1 .. chunks, NEW j \in 1 .. 3
      PROVE  /\ ChunkElem(i, j) = 2 * i - 2 + j /\ ChunkElem(i, j) \in Nat
             /\ ChunkElem(i, j) <= ChunkEnd(i) <=> j <= 2 /\ ChunkElem(i, j) <= Length
  <2>1. ChunkElem(i, j) = 2 * i - 2 + j /\ ChunkElem(i, j) \in Nat
    BY Sizes DEF ChunkElem, min_elements_in_chunk
  <2>2. ChunkEnd(i) = IF i = chunks THEN Length ELSE 2 * i
    BY Sizes DEF ChunkEnd, min_elements_in_chunk
  <2> QED
    BY <2>1, <2>2, Sizes
<1>2. ASSUME NEW i \in 1 .. chunks, NEW j \in 1 .. 2, ChunkElem(i, j) <= Length
      PROVE  ChunkElem(i, j) \in ToVisit
  BY <1>1, <1>2, Sizes DEF ToVisit
<1>3. ASSUME NEW i \in 1 .. chunks, NEW k \in 1 .. chunks, NEW j \in 1 .. 2, NEW l \in 1 .. 2,
             ChunkElem(i, j) = ChunkElem(k, l)
      PROVE  i = k /\ j = l
  BY <1>1, <1>3, Sizes
<1> QED
  BY <1>1, <1>2, <1>3

(* Every element of the range is in some chunk. *)
LEMMA EveryElement ==
  ASSUME NEW e \in ToVisit
  PROVE  \E i \in 1 .. chunks, j \in 1 .. 2 : e = ChunkElem(i, j)
<1>1. e \in 1 .. Length
  BY DEF ToVisit
<1>2. PICK i \in Nat : e = 2 * i - 1 \/ e = 2 * i
  <2>1. e = 2 * ((e + 1) \div 2) - 1 \/ e = 2 * ((e + 1) \div 2)
    BY <1>1, Sizes
  <2>2. (e + 1) \div 2 \in Nat
    BY <1>1, Sizes
  <2> QED
    BY <2>1, <2>2
<1>3. i \in 1 .. chunks
  BY <1>1, <1>2, Sizes
<1>4. ChunkElem(i, 1) = 2 * i - 1 /\ ChunkElem(i, 2) = 2 * i
  BY <1>3, Sizes DEF ChunkElem, min_elements_in_chunk
<1> QED
  BY <1>2, <1>3, <1>4

-----------------------------------------------------------------------------
(* Before the call. *)
LEMMA EachInitInv == EachInit => EachInv
<1> SUFFICES ASSUME EachInit
             PROVE  EachInv
  OBVIOUS
<1> USE Sizes
<1>1. /\ phase = "none" /\ jobs = << >> /\ idx = 1 /\ callable = "same"
      /\ dozing = [w \in PoolWorkers |-> "awake"] /\ running = [t \in AlgoThreads |-> << >>]
      /\ promised = [j \in Jobs |-> "none"] /\ visits = [e \in ToVisit |-> 0]
  BY DEF EachInit, AlgoPoolInit
<1>2. EachShapeInv
  BY <1>1 DEF EachShapeInv, AlgoThreads
<1>3. Len(jobs) = 0 /\ jobs \in Seq(1 .. chunks)
  BY <1>1, EmptySeq
<1>4. Taken = 0
  <2>1. Submitted = 0
    BY <1>1 DEF Submitted
  <2> QED
    BY <1>3, <2>1 DEF Taken
<1>5. QueueInv
  BY <1>3, <1>4 DEF QueueInv
<1>6. WorkInv
  BY <1>1, <1>4 DEF WorkInv, AlgoThreads
<1>7. ChunkInv
  <2> SUFFICES ASSUME NEW i \in 1 .. chunks
               PROVE  /\ promised[i] = "none" /\ Reached(i, 0)
                      /\ \A j \in 1 .. min_elements_in_chunk : ChunkElem(i, j) <= Length => visits[ChunkElem(i, j)] <= 1
    BY DEF ChunkInv
  <2>1. promised[i] = "none"
    BY <1>1 DEF Jobs
  <2>2. \A j \in 1 .. 2 : ChunkElem(i, j) <= Length => visits[ChunkElem(i, j)] = 0
    BY <1>1, ChunksCut
  <2> QED
    BY <2>1, <2>2 DEF Reached, min_elements_in_chunk
<1> QED
  BY <1>1, <1>2, <1>5, <1>6, <1>7 DEF EachInv, GotInv

(* What the caller does leaves the workers and the chunks alone, as long   *)
(* as no chunk counts as pulled that was not.                              *)
LEMMA CallerKeeps ==
  ASSUME EachInv, UNCHANGED <<running, promised, visits, callable>>, Taken' = Taken
  PROVE  WorkInv' /\ ChunkInv'
<1>1. \A w, i, a : Works(w, i, a)' <=> Works(w, i, a)
  BY DEF Works
<1>2. \A i, a : Reached(i, a)' <=> Reached(i, a)
  BY DEF Reached, Hollow
<1>3. WorkInv'
  BY <1>1, <1>2 DEF EachInv, WorkInv
<1>4. ChunkInv'
  BY <1>2 DEF EachInv, ChunkInv
<1> QED
  BY <1>3, <1>4

(* The call begins: nothing was submitted or visited. *)
LEMMA ForEachCallInv ==
  ASSUME EachInv, ForEachCall
  PROVE  EachInv'
<1> USE Sizes DEF EachInv
<1>1. /\ phase = "none" /\ idx = 1 /\ UNCHANGED <<jobs, dozing, running, promised, idx, visits>>
      /\ phase' = IF Length = 0 THEN "visited" ELSE "submit"
      /\ callable' \in {"same", "throws", "hollow"}
  BY DEF ForEachCall, EachShapeInv
<1>2. Len(jobs) \in Nat /\ Submitted = 0 /\ Submitted' = 0
  BY <1>1, LenProperties DEF Submitted, QueueInv
<1>3. Taken = 0 /\ Taken' = 0 /\ Len(jobs) = 0
  BY <1>1, <1>2 DEF Taken, QueueInv
<1>4. EachShapeInv'
  BY <1>1 DEF EachShapeInv
<1>5. QueueInv'
  BY <1>1, <1>3 DEF QueueInv
<1>6. WorkInv'
  BY <1>1, <1>3 DEF WorkInv
<1>7. ASSUME NEW i \in 1 .. chunks
      PROVE  /\ promised'[i] = "none" /\ Reached(i, 0)'
             /\ \A j \in 1 .. min_elements_in_chunk : ChunkElem(i, j) <= Length => visits'[ChunkElem(i, j)] <= 1
  <2>1. i > Taken
    BY <1>3
  <2>2. promised[i] = "none" /\ Reached(i, 0)
    BY <2>1 DEF ChunkInv
  <2>3. \A j \in 1 .. 2 : ChunkElem(i, j) <= Length => visits[ChunkElem(i, j)] = 0
    BY <2>2 DEF Reached, min_elements_in_chunk
  <2> QED
    BY <1>1, <2>2, <2>3 DEF Reached, min_elements_in_chunk
<1>8. ChunkInv'
  BY <1>7 DEF ChunkInv
<1>9. GotInv'
  BY <1>1 DEF GotInv
<1> QED
  BY <1>4, <1>5, <1>6, <1>8, <1>9

(* The next chunk goes to the end of the queue, or the call goes on to wait. *)
LEMMA SubmitsInv ==
  ASSUME EachInv, ForEachSubmits
  PROVE  EachInv'
<1> USE Sizes DEF EachInv
<1>1. /\ phase = "submit" /\ idx \in 1 .. chunks /\ jobs' = Append(jobs, idx)
      /\ dozing' \in [PoolWorkers -> {"awake", "window", "asleep"}]
      /\ UNCHANGED <<running, promised, callable, visits>>
      /\ \/ idx = chunks /\ phase' = "get" /\ idx' = 1
         \/ idx < chunks /\ idx' = idx + 1 /\ phase' = phase
  BY DEF ForEachSubmits, SubmitJob, EachShapeInv
<1>2. jobs \in Seq(1 .. chunks)
  BY DEF QueueInv
<1>3. /\ jobs' \in Seq(1 .. chunks) /\ Len(jobs') = Len(jobs) + 1 /\ Len(jobs) \in Nat
      /\ \A n \in 1 .. Len(jobs) : jobs'[n] = jobs[n]
      /\ jobs'[Len(jobs) + 1] = idx
  BY <1>1, <1>2, AppendProperties, LenProperties
<1>4. Submitted = idx - 1 /\ Submitted' = idx
  BY <1>1 DEF Submitted
<1>5. Taken' = Taken /\ Taken \in Nat /\ idx = Taken + Len(jobs) + 1
  <2>1. Taken = Submitted - Len(jobs) /\ Taken' = Submitted' - Len(jobs') /\ Taken \in Nat
    BY DEF Taken, QueueInv
  <2>2. idx \in Int
    BY <1>1, Sizes
  <2> HIDE DEF EachInv
  <2> QED
    BY <1>3, <1>4, <2>1, <2>2
<1>6. QueueInv'
  <2> SUFFICES ASSUME NEW n \in 1 .. Len(jobs')
               PROVE  jobs'[n] = Taken + n
    BY <1>3, <1>5 DEF QueueInv
  <2>1. CASE n \in 1 .. Len(jobs)
    BY <1>3, <2>1 DEF QueueInv
  <2>2. CASE n = Len(jobs) + 1
    BY <1>3, <1>5, <2>2
  <2> QED
    BY <1>3, <2>1, <2>2
<1>7. EachShapeInv'
  BY <1>1 DEF EachShapeInv
<1>8. GotInv'
  BY <1>1 DEF GotInv
<1> QED
  BY <1>1, <1>5, <1>6, <1>7, <1>8, CallerKeeps

(* The caller gets the next future, which is ready, or throws what is in it. *)
LEMMA GetsInv ==
  ASSUME EachInv, ForEachGets
  PROVE  EachInv'
<1> USE Sizes DEF EachInv
<1>1. /\ phase = "get" /\ idx \in 1 .. chunks
      /\ UNCHANGED <<jobs, dozing, running, promised, callable, visits>>
      /\ \/ promised[idx] = "exception" /\ phase' = "visit_threw" /\ idx' = idx
         \/ promised[idx] = "value" /\ idx = chunks /\ phase' = "visited" /\ idx' = idx
         \/ promised[idx] = "value" /\ idx < chunks /\ idx' = idx + 1 /\ phase' = phase
  BY DEF ForEachGets, EachShapeInv
<1>2. Taken' = Taken
  BY <1>1 DEF Taken, Submitted
<1>3. QueueInv'
  BY <1>1, <1>2 DEF QueueInv
<1>4. EachShapeInv'
  BY <1>1 DEF EachShapeInv
<1>5. GotInv'
  BY <1>1 DEF GotInv
<1> QED
  BY <1>1, <1>2, <1>3, <1>4, <1>5, CallerKeeps

-----------------------------------------------------------------------------
(* A list of one element: the task of a worker. *)
LEMMA OneTask ==
  ASSUME NEW i, NEW a, NEW b
  PROVE  LET s == <<[job |-> i, at |-> a]>> IN
         /\ s # << >> /\ Last(s) = [job |-> i, at |-> a]
         /\ Moves(s, b) = <<[job |-> i, at |-> b]>> /\ Begins(<< >>, i) = <<[job |-> i, at |-> 0]>>
<1> DEFINE s == <<[job |-> i, at |-> a]>>
<1>1. Len(s) = 1 /\ s # << >> /\ s[1] = [job |-> i, at |-> a]
  OBVIOUS
<1>2. Last(s) = [job |-> i, at |-> a]
  BY <1>1 DEF Last
<1>3. Front(s) = << >>
  BY <1>1, SubSeqEmpty DEF Front
<1>4. Moves(s, b) = <<[job |-> i, at |-> b]>>
  BY <1>2, <1>3 DEF Moves
<1> QED
  BY <1>1, <1>2, <1>4 DEF Begins

(* A worker is at one element of one chunk. *)
LEMMA OneJob ==
  ASSUME NEW w, NEW i, NEW a, NEW k, NEW b, Works(w, i, a), Works(w, k, b)
  PROVE  i = k /\ a = b
<1>1. [job |-> i, at |-> a] = [job |-> k, at |-> b]
  BY DEF Works
<1> QED
  BY <1>1

(* A worker pulls the first chunk of the queue, which nobody has touched. *)
LEMMA TakesInv ==
  ASSUME EachInv, NEW w \in PoolWorkers, WorkerTakes(w), Visiting, UNCHANGED eachVars
  PROVE  EachInv'
<1> USE Sizes DEF EachInv
<1> DEFINE i == Taken + 1
<1>1. /\ jobs # << >> /\ jobs' = Tail(jobs) /\ running[w] = << >>
      /\ running' = [running EXCEPT ![w] = Begins(running[w], Head(jobs))]
      /\ UNCHANGED <<phase, dozing, promised, idx, callable, visits>>
  BY DEF WorkerTakes, Pulls, OutOfWork, eachVars
<1>2. /\ Len(jobs) \in Nat \ {0} /\ jobs \in Seq(1 .. chunks) /\ Taken \in Nat
      /\ \A n \in 1 .. Len(jobs) : jobs[n] = Taken + n
  BY <1>1, LenProperties, EmptySeq DEF QueueInv
<1>3. Head(jobs) = i /\ i \in 1 .. chunks
  <2>1. Head(jobs) = jobs[1] /\ Head(jobs) \in 1 .. chunks
    BY <1>1, <1>2, HeadTailProperties
  <2> QED
    BY <1>2, <2>1
<1>4. /\ jobs' \in Seq(1 .. chunks) /\ Len(jobs') = Len(jobs) - 1
      /\ \A n \in 1 .. Len(jobs') : jobs'[n] = jobs[n + 1]
  BY <1>1, <1>2, HeadTailProperties
<1>5. Submitted' = Submitted /\ Submitted \in Int
  BY <1>1 DEF Submitted, EachShapeInv
<1>6. Taken' = i /\ i > Taken
  BY <1>2, <1>4, <1>5 DEF Taken
<1> HIDE DEF i
<1>7. QueueInv'
  <2> SUFFICES ASSUME NEW n \in 1 .. Len(jobs')
               PROVE  jobs'[n] = Taken' + n
    BY <1>2, <1>4, <1>6, <1>3 DEF QueueInv
  <2>1. jobs[n + 1] = Taken + (n + 1)
    BY <1>2, <1>4
  <2> QED
    BY <1>2, <1>4, <1>6, <2>1 DEF i
<1>8. EachShapeInv'
  BY <1>1 DEF EachShapeInv, AlgoThreads
<1>9. /\ \A v \in PoolWorkers \ {w} : \A k, a : Works(v, k, a)' <=> Works(v, k, a)
      /\ \A k, a : Works(w, k, a)' <=> k = i /\ a = 0
  <2>1. running'[w] = <<[job |-> i, at |-> 0]>>
    BY <1>1, <1>3, OneTask DEF EachShapeInv, AlgoThreads
  <2>2. \A v \in PoolWorkers \ {w} : running'[v] = running[v]
    BY <1>1 DEF EachShapeInv, AlgoThreads
  <2> QED
    BY <2>1, <2>2 DEF Works
<1>10. \A k, a : Reached(k, a)' <=> Reached(k, a)
  BY <1>1 DEF Reached, Hollow
<1>11. promised[i] = "none" /\ Reached(i, 0)
  BY <1>3, <1>6 DEF ChunkInv
<1>12. WorkInv'
  <2>1. ASSUME NEW v \in PoolWorkers
        PROVE  \/ running'[v] = << >>
               \/ \E k \in 1 .. Taken', a \in 0 .. min_elements_in_chunk :
                    Works(v, k, a)' /\ promised'[k] = "none" /\ Reached(k, a)'
    <3>1. CASE v = w
      BY <1>1, <1>2, <1>3, <1>6, <1>9, <1>10, <1>11, <3>1 DEF min_elements_in_chunk
    <3>2. CASE v # w
      <4>1. running'[v] = running[v]
        BY <1>1, <3>2 DEF EachShapeInv, AlgoThreads
      <4>2. 1 .. Taken \subseteq 1 .. Taken'
        BY <1>2, <1>3, <1>6
      <4> QED
        BY <1>1, <1>9, <1>10, <3>2, <4>1, <4>2 DEF WorkInv
    <3> QED
      BY <3>1, <3>2
  <2>2. ASSUME NEW u \in PoolWorkers, NEW v \in PoolWorkers, NEW k \in 1 .. Taken',
               NEW a \in 0 .. min_elements_in_chunk, NEW b \in 0 .. min_elements_in_chunk,
               Works(u, k, a)', Works(v, k, b)'
        PROVE  u = v
    <3>1. ASSUME NEW x \in PoolWorkers \ {w}, NEW y, NEW z, Works(x, y, z)
          PROVE  y \in 1 .. Taken
      <4>1. running[x] # << >>
        BY <3>1 DEF Works
      <4>2. PICK k2 \in 1 .. Taken, a2 \in 0 .. min_elements_in_chunk : Works(x, k2, a2)
        BY <4>1 DEF WorkInv
      <4> QED
        BY <3>1, <4>2, OneJob
    <3>2. CASE k = i
      BY <1>2, <1>6, <1>9, <2>2, <3>1, <3>2
    <3>3. CASE k # i
      <4>1. u # w /\ v # w /\ Works(u, k, a) /\ Works(v, k, b)
        BY <1>9, <2>2, <3>3
      <4> QED
        BY <3>1, <4>1 DEF WorkInv
    <3> QED
      BY <3>2, <3>3
  <2> QED
    BY <2>1, <2>2 DEF WorkInv
<1>13. ChunkInv'
  <2> SUFFICES ASSUME NEW k \in 1 .. chunks
               PROVE  /\ k > Taken' => promised'[k] = "none" /\ Reached(k, 0)'
                      /\ promised'[k] = "value" => Reached(k, min_elements_in_chunk)'
                      /\ \A j \in 1 .. min_elements_in_chunk :
                           ChunkElem(k, j) <= Length => visits'[ChunkElem(k, j)] <= 1
    BY DEF ChunkInv
  <2>1. k > Taken' => k > Taken
    BY <1>2, <1>3, <1>6
  <2> QED
    BY <1>1, <1>10, <2>1 DEF ChunkInv
<1>14. GotInv'
  BY <1>1 DEF GotInv
<1> QED
  BY <1>7, <1>8, <1>12, <1>13, <1>14

(* Falling asleep and waking up changes nothing of the chunks. *)
LEMMA DozesInv ==
  ASSUME EachInv, NEW w \in PoolWorkers, WorkerDozes(w), UNCHANGED eachVars
  PROVE  EachInv'
<1> USE DEF EachInv
<1>1. UNCHANGED <<phase, jobs, running, promised, idx, callable, visits>>
  BY DEF WorkerDozes, eachVars
<1>2. dozing' \in [PoolWorkers -> {"awake", "window", "asleep"}]
  BY DEF WorkerDozes, EachShapeInv
<1>3. Taken' = Taken
  BY <1>1 DEF Taken, Submitted
<1>4. EachShapeInv' /\ QueueInv' /\ GotInv'
  BY <1>1, <1>2, <1>3 DEF EachShapeInv, QueueInv, GotInv
<1> QED
  BY <1>1, <1>3, <1>4, CallerKeeps

(* The worker at element a of chunk i: the chunk was pulled, by no other   *)
(* worker, and its future is not ready.                                    *)
LEMMA AtWork ==
  ASSUME EachInv, NEW w \in PoolWorkers, NEW i, NEW a, At(w, i, a)
  PROVE  /\ i \in 1 .. Taken /\ a \in 0 .. min_elements_in_chunk /\ Works(w, i, a)
         /\ promised[i] = "none" /\ Reached(i, a)
         /\ \A v \in PoolWorkers \ {w} : \A k, b : Works(v, k, b) => k # i
<1>1. PICK k \in 1 .. Taken, b \in 0 .. min_elements_in_chunk :
        Works(w, k, b) /\ promised[k] = "none" /\ Reached(k, b)
  BY DEF EachInv, WorkInv, At
<1>2. Last(running[w]) = [job |-> k, at |-> b]
  BY <1>1, OneTask DEF Works
<1>3. [job |-> i, at |-> a] = [job |-> k, at |-> b]
  BY <1>2 DEF At
<1>4. i = k /\ a = b
  BY <1>3
<1>5. ASSUME NEW v \in PoolWorkers \ {w}, NEW c, Works(v, i, c)
      PROVE  FALSE
  <2>1. PICK m \in 1 .. Taken, d \in 0 .. min_elements_in_chunk : Works(v, m, d)
    BY <1>5 DEF EachInv, WorkInv, Works
  <2>2. Works(v, i, d)
    BY <1>5, <2>1, OneJob
  <2> QED
    BY <1>1, <1>4, <2>2 DEF EachInv, WorkInv
<1> QED
  BY <1>1, <1>4, <1>5

(* A step of the worker w in chunk i, which leaves the other chunks alone. *)
LEMMA VisitKeeps ==
  ASSUME EachInv, NEW w \in PoolWorkers, NEW i \in 1 .. chunks, NEW a, At(w, i, a),
         UNCHANGED <<phase, jobs, dozing, idx, callable>>,
         visits' \in [ToVisit -> Nat], promised' \in [Jobs -> {"none", "value", "exception"}],
         running' = [running EXCEPT ![w] = running'[w]],
         \A k \in Jobs \ {i} : promised'[k] = promised[k],
         \A k \in 1 .. chunks \ {i} : \A j \in 1 .. min_elements_in_chunk :
           ChunkElem(k, j) <= Length => visits'[ChunkElem(k, j)] = visits[ChunkElem(k, j)],
         \/ running'[w] = << >>
         \/ \E b \in 0 .. min_elements_in_chunk :
              Works(w, i, b)' /\ promised'[i] = "none" /\ Reached(i, b)',
         promised'[i] = "value" => Reached(i, min_elements_in_chunk)',
         \A j \in 1 .. min_elements_in_chunk : ChunkElem(i, j) <= Length => visits'[ChunkElem(i, j)] <= 1
  PROVE  EachInv'
<1> USE Sizes DEF EachInv
<1>1. /\ i \in 1 .. Taken /\ promised[i] = "none" /\ Taken \in Nat
      /\ \A v \in PoolWorkers \ {w} : \A k, b : Works(v, k, b) => k # i
  BY AtWork DEF QueueInv
<1>2. Taken' = Taken
  BY DEF Taken, Submitted
<1>3. 1 .. chunks \subseteq Jobs
  BY DEF Jobs
<1>4. \A v \in PoolWorkers \ {w} : running'[v] = running[v]
  BY DEF EachShapeInv, AlgoThreads
<1>5. \A v \in PoolWorkers \ {w} : \A k, b : Works(v, k, b)' <=> Works(v, k, b)
  BY <1>4 DEF Works
<1>6. ASSUME NEW k \in 1 .. chunks, k # i, NEW b
      PROVE  Reached(k, b)' <=> Reached(k, b)
  BY <1>6 DEF Reached, Hollow
<1>7. EachShapeInv' /\ QueueInv'
  <2>1. running' = [t \in AlgoThreads |-> running'[t]] /\ running'[Caller] = << >>
    BY DEF EachShapeInv, AlgoThreads
  <2>2. EachShapeInv'
    BY <2>1 DEF EachShapeInv
  <2> QED
    BY <1>2, <2>2 DEF QueueInv
<1>8. GotInv'
  <2>1. ASSUME NEW k \in 1 .. chunks, promised[k] # "none"
        PROVE  promised'[k] = promised[k]
    BY <1>1, <1>3, <2>1
  <2>2. phase \in {"get", "visit_threw"} => idx \in 1 .. chunks
    BY DEF EachShapeInv
  <2>3. phase \in {"get", "visit_threw"} => \A k \in 1 .. idx - 1 : promised'[k] = "value"
    <3> SUFFICES ASSUME phase \in {"get", "visit_threw"}, NEW k \in 1 .. idx - 1
                 PROVE  promised'[k] = "value"
      OBVIOUS
    <3>1. k \in 1 .. chunks /\ promised[k] = "value"
      BY <2>2 DEF GotInv
    <3> QED
      BY <2>1, <3>1
  <2>4. phase = "visit_threw" => promised'[idx] = "exception"
    BY <2>1, <2>2 DEF GotInv
  <2>5. phase = "visited" => \A k \in 1 .. chunks : promised'[k] = "value"
    BY <2>1 DEF GotInv
  <2> QED
    BY <2>3, <2>4, <2>5 DEF GotInv
<1>9. Taken <= chunks
  BY <1>1 DEF QueueInv, Taken, Submitted, EachShapeInv
<1>10. WorkInv'
  <2>1. ASSUME NEW v \in PoolWorkers
        PROVE  \/ running'[v] = << >>
               \/ \E k \in 1 .. Taken, b \in 0 .. min_elements_in_chunk :
                    Works(v, k, b)' /\ promised'[k] = "none" /\ Reached(k, b)'
    <3>1. CASE v = w
      BY <1>1, <3>1
    <3>2. CASE v # w /\ running[v] # << >>
      <4>1. PICK k \in 1 .. Taken, b \in 0 .. min_elements_in_chunk :
              Works(v, k, b) /\ promised[k] = "none" /\ Reached(k, b)
        BY <3>2 DEF WorkInv
      <4>2. k # i /\ k \in 1 .. chunks
        BY <1>1, <1>9, <3>2, <4>1
      <4> QED
        BY <1>3, <1>5, <1>6, <3>2, <4>1, <4>2
    <3> QED
      BY <1>4, <3>1, <3>2
  <2>2. ASSUME NEW u \in PoolWorkers, NEW v \in PoolWorkers, NEW k \in 1 .. Taken,
               NEW b \in 0 .. min_elements_in_chunk, NEW c \in 0 .. min_elements_in_chunk,
               Works(u, k, b)', Works(v, k, c)'
        PROVE  u = v
    <3>1. \A m, d : Works(w, m, d)' => m = i
      <4>1. ASSUME NEW m, NEW d, Works(w, m, d)'
            PROVE  m = i
        <5>0. running'[w] # << >>
          BY <4>1 DEF Works
        <5>1. PICK e : running'[w] = <<[job |-> i, at |-> e]>>
          BY <5>0 DEF Works
        <5>2. [job |-> m, at |-> d] = [job |-> i, at |-> e]
          BY <4>1, <5>1 DEF Works
        <5> QED
          BY <5>2
      <4> QED
        BY <4>1
    <3>2. CASE u # w /\ v # w
      BY <1>5, <2>2, <3>2 DEF WorkInv
    <3> QED
      BY <1>1, <1>5, <2>2, <3>1, <3>2
  <2> QED
    BY <1>2, <2>1, <2>2 DEF WorkInv
<1>11. ChunkInv'
  <2> SUFFICES ASSUME NEW k \in 1 .. chunks
               PROVE  /\ k > Taken => promised'[k] = "none" /\ Reached(k, 0)'
                      /\ promised'[k] = "value" => Reached(k, min_elements_in_chunk)'
                      /\ \A j \in 1 .. min_elements_in_chunk :
                           ChunkElem(k, j) <= Length => visits'[ChunkElem(k, j)] <= 1
    BY <1>2 DEF ChunkInv
  <2>1. CASE k = i
    BY <1>1, <2>1
  <2>2. CASE k # i
    BY <1>3, <1>6, <2>2 DEF ChunkInv
  <2> QED
    BY <2>1, <2>2
<1> QED
  BY <1>7, <1>8, <1>10, <1>11

(* A worker calls the callable with its next element, or ends its chunk. *)
LEMMA VisitInv ==
  ASSUME EachInv, NEW w \in PoolWorkers, NEW i \in 1 .. chunks, NEW a \in 0 .. min_elements_in_chunk,
         Visit(w, i, a)
  PROVE  EachInv'
<1> USE Sizes DEF EachInv
<1>1. /\ At(w, i, a) /\ UNCHANGED <<phase, jobs, dozing, idx, callable>>
      /\ a \in 0 .. 2 /\ i \in Jobs
  BY DEF Visit, min_elements_in_chunk, Jobs
<1>2. Works(w, i, a) /\ promised[i] = "none" /\ Reached(i, a)
  BY <1>1, AtWork
<1>3. /\ visits \in [ToVisit -> Nat] /\ promised \in [Jobs -> {"none", "value", "exception"}]
      /\ running = [t \in AlgoThreads |-> running[t]] /\ w \in AlgoThreads
  BY DEF EachShapeInv, AlgoThreads
<1>4. (i - 1) * min_elements_in_chunk + a + 1 = ChunkElem(i, a + 1) /\ a + 1 \in 1 .. 3
  BY <1>1 DEF ChunkElem, min_elements_in_chunk
<1>5. \A j \in 1 .. 2 : ChunkElem(i, j) <= Length => visits[ChunkElem(i, j)] <= 1 /\ ChunkElem(i, j) \in ToVisit
  BY ChunksCut DEF ChunkInv, min_elements_in_chunk
<1>6. ASSUME NEW r \in {"value", "exception"}, Fulfils(w, i, r), visits' = visits,
             r = "value" => ChunkElem(i, a + 1) > ChunkEnd(i)
      PROVE  EachInv'
  <2>1. promised' = [promised EXCEPT ![i] = r] /\ running' = [running EXCEPT ![w] = << >>]
    BY <1>6 DEF Fulfils
  <2>2. running'[w] = << >> /\ running' = [running EXCEPT ![w] = running'[w]]
    BY <1>3, <2>1
  <2>3. /\ promised'[i] = r /\ promised' \in [Jobs -> {"none", "value", "exception"}]
        /\ \A k \in Jobs \ {i} : promised'[k] = promised[k]
    BY <1>1, <1>3, <2>1
  <2>4. r = "value" => Reached(i, min_elements_in_chunk)'
    <3> SUFFICES ASSUME r = "value", NEW j \in 1 .. 2, ChunkElem(i, j) <= Length
                 PROVE  Hollow(i) \/ visits[ChunkElem(i, j)] = 1
      BY <1>1, <1>6 DEF Reached, Hollow, min_elements_in_chunk
    <3>1. ChunkElem(i, j) <= ChunkEnd(i) /\ ChunkEnd(i) \in Int
      BY ChunksCut DEF ChunkEnd, min_elements_in_chunk
    <3>2. ChunkElem(i, a + 1) = 2 * i - 1 + a /\ ChunkElem(i, j) = 2 * i - 2 + j
      <4>1. i \in Int /\ a \in Int /\ min_elements_in_chunk = 2
        BY <1>1, ChunksCut DEF min_elements_in_chunk
      <4> QED
        BY ONLY <4>1, j \in 1 .. 2 DEF ChunkElem
    <3>3. ~(j > a)
      BY <1>1, <1>6, <3>1, <3>2
    <3> QED
      BY <1>2, <3>3 DEF Reached, min_elements_in_chunk
  <2> QED
    BY <1>1, <1>3, <1>5, <1>6, <2>2, <2>3, <2>4, VisitKeeps DEF min_elements_in_chunk
<1>7. ASSUME ChunkElem(i, a + 1) <= ChunkEnd(i), promised' = promised,
             running' = [running EXCEPT ![w] = Moves(running[w], a + 1)],
             visits' = IF i > 1 /\ callable = "hollow" THEN visits
                       ELSE [visits EXCEPT ![ChunkElem(i, a + 1)] = @ + 1]
      PROVE  EachInv'
  <2>1. a + 1 \in 0 .. 2 /\ ChunkElem(i, a + 1) <= Length
    BY <1>1, <1>4, <1>7, ChunksCut
  <2>2. visits[ChunkElem(i, a + 1)] = 0 /\ ChunkElem(i, a + 1) \in ToVisit
    BY <1>1, <1>2, <1>5, <2>1 DEF Reached, min_elements_in_chunk
  <2>3. visits' \in [ToVisit -> Nat]
    BY <1>3, <1>7, <2>2
  <2>4. running'[w] = <<[job |-> i, at |-> a + 1]>> /\ running' = [running EXCEPT ![w] = running'[w]]
    BY <1>2, <1>3, <1>7, OneTask DEF Works
  <2>5. \A k \in 1 .. chunks, j \in 1 .. 2 :
          ChunkElem(k, j) <= Length /\ (k # i \/ j # a + 1) => visits'[ChunkElem(k, j)] = visits[ChunkElem(k, j)]
    BY <1>1, <1>3, <1>7, <2>1, ChunksCut
  <2>6. Hollow(i) \/ visits'[ChunkElem(i, a + 1)] = 1
    BY <1>3, <1>7, <2>2 DEF Hollow
  <2>7. visits'[ChunkElem(i, a + 1)] <= 1
    BY <1>3, <1>7, <2>2
  <2>8. Reached(i, a + 1)'
    <3> SUFFICES ASSUME NEW j \in 1 .. 2, ChunkElem(i, j) <= Length
                 PROVE  IF j > a + 1 THEN visits'[ChunkElem(i, j)] = 0
                        ELSE Hollow(i) \/ visits'[ChunkElem(i, j)] = 1
      BY <1>1 DEF Reached, Hollow, min_elements_in_chunk
    <3>1. CASE j = a + 1
      BY <1>1, <2>6, <3>1
    <3>2. CASE j # a + 1
      <4>1. visits'[ChunkElem(i, j)] = visits[ChunkElem(i, j)]
        BY <2>5, <3>2
      <4>2. IF j > a THEN visits[ChunkElem(i, j)] = 0 ELSE Hollow(i) \/ visits[ChunkElem(i, j)] = 1
        BY <1>2 DEF Reached, min_elements_in_chunk
      <4> QED
        BY <1>1, <3>2, <4>1, <4>2
    <3> QED
      BY <3>1, <3>2
  <2>9. Works(w, i, a + 1)' /\ promised'[i] = "none"
    BY <1>2, <1>7, <2>4 DEF Works
  <2>10. \A j \in 1 .. 2 : ChunkElem(i, j) <= Length => visits'[ChunkElem(i, j)] <= 1
    BY <1>5, <2>5, <2>7
  <2> QED
    BY <1>1, <1>2, <1>3, <1>7, <2>1, <2>3, <2>4, <2>5, <2>8, <2>9, <2>10, VisitKeeps
       DEF min_elements_in_chunk
<1>8. \/ \E r \in {"value", "exception"} :
           Fulfils(w, i, r) /\ visits' = visits /\ (r = "value" => ChunkElem(i, a + 1) > ChunkEnd(i))
      \/ /\ ChunkElem(i, a + 1) <= ChunkEnd(i) /\ promised' = promised
         /\ running' = [running EXCEPT ![w] = Moves(running[w], a + 1)]
         /\ visits' = IF i > 1 /\ callable = "hollow" THEN visits
                      ELSE [visits EXCEPT ![ChunkElem(i, a + 1)] = @ + 1]
  BY <1>4 DEF Visit
<1> QED
  BY <1>6, <1>7, <1>8

-----------------------------------------------------------------------------
(* Every step keeps the invariant. *)
LEMMA EachStepInv == EachInv /\ [EachNext]_<<algoPoolVars, eachVars>> => EachInv'
<1> SUFFICES ASSUME EachInv, [EachNext]_<<algoPoolVars, eachVars>>
             PROVE  EachInv'
  OBVIOUS
<1>1. CASE UNCHANGED <<algoPoolVars, eachVars>>
  <2>1. UNCHANGED <<phase, jobs, dozing, running, promised, idx, callable, visits>>
    BY <1>1 DEF algoPoolVars, eachVars
  <2>2. Taken' = Taken
    BY <2>1 DEF Taken, Submitted
  <2>3. EachShapeInv' /\ QueueInv' /\ GotInv'
    BY <2>1, <2>2 DEF EachInv, EachShapeInv, QueueInv, GotInv
  <2> QED
    BY <2>1, <2>2, <2>3, CallerKeeps DEF EachInv
<1>2. ASSUME NEW w \in PoolWorkers, EachStep(w)
      PROVE  EachInv'
  BY <1>2, TakesInv, DozesInv, VisitInv DEF EachStep
<1> QED
  BY <1>1, <1>2, ForEachCallInv, SubmitsInv, GetsInv DEF EachNext

(* The invariant gives the types, those of the pool included. *)
LEMMA EachInvTypes == EachInv => EachTypeOK /\ AlgoPoolTypeOK
<1> SUFFICES ASSUME EachInv
             PROVE  EachTypeOK /\ AlgoPoolTypeOK
  OBVIOUS
<1>1. EachTypeOK
  BY DEF EachInv, EachShapeInv, EachTypeOK
<1>2. phase = "none" \/ Visiting
  BY DEF EachInv, EachShapeInv, Visiting
<1>3. 1 .. chunks \subseteq Jobs /\ Taken <= chunks /\ Taken \in Nat /\ jobs \in Seq(Jobs)
  <2>1. 1 .. chunks \subseteq Jobs
    BY Sizes DEF Jobs
  <2>2. jobs \in Seq(1 .. chunks) /\ Taken \in Nat
    BY DEF EachInv, QueueInv
  <2>3. Submitted <= chunks /\ Submitted \in Int
    BY Sizes DEF EachInv, EachShapeInv, Submitted
  <2>4. Len(jobs) \in Nat
    BY <2>2, LenProperties
  <2> QED
    BY <2>1, <2>2, <2>3, <2>4, Sizes, SeqMonotonic DEF Taken
<1>4. ASSUME NEW t \in AlgoThreads
      PROVE  running[t] \in Seq([job : Jobs, at : Nat])
  <2>1. CASE running[t] = << >>
    BY <2>1, EmptySeq
  <2>2. ASSUME NEW i \in 1 .. Taken, NEW a \in 0 .. min_elements_in_chunk, Works(t, i, a)
        PROVE  running[t] \in Seq([job : Jobs, at : Nat])
    <3>1. [job |-> i, at |-> a] \in [job : Jobs, at : Nat]
      BY <1>3, Sizes DEF min_elements_in_chunk
    <3> QED
      BY <2>2, <3>1 DEF Works
  <2> QED
    BY <2>1, <2>2 DEF EachInv, EachShapeInv, WorkInv, AlgoThreads
<1>5. running \in [AlgoThreads -> Seq([job : Jobs, at : Nat])]
  BY <1>4 DEF EachInv, EachShapeInv
<1> QED
  BY <1>1, <1>2, <1>3, <1>5 DEF EachInv, EachShapeInv, AlgoPoolTypeOK

(* The caller is at one of its chunks, and counts the visits.              *)
THEOREM EachTypeCorrect == EachSpec => []EachTypeOK
  BY EachInvTypes, EachInitInv, EachStepInv, PTL DEF EachSpec

(* No element is visited twice, and when parallel_for_each returns all     *)
(* were, unless moving from the callable leaves something hollow; it       *)
(* throws only what the first chunk that failed threw.                     *)
THEOREM ForEachIsSound == EachSpec => []ForEachVisitsAll
<1>1. EachInv => ForEachVisitsAll
  <2> SUFFICES ASSUME EachInv
               PROVE  ForEachVisitsAll
    OBVIOUS
  <2>1. \A e \in ToVisit : visits[e] <= 1
    BY EveryElement DEF EachInv, ChunkInv, ToVisit, min_elements_in_chunk
  <2>2. ASSUME phase = "visited", callable # "hollow", NEW e \in ToVisit
        PROVE  visits[e] = 1
    <3>1. PICK i \in 1 .. chunks, j \in 1 .. 2 : e = ChunkElem(i, j)
      BY EveryElement
    <3>2. Reached(i, 2)
      BY <2>2 DEF EachInv, ChunkInv, GotInv, min_elements_in_chunk
    <3>3. ChunkElem(i, j) <= Length /\ ~(j > 2)
      BY <3>1, Sizes DEF ToVisit
    <3> QED
      BY <2>2, <3>1, <3>2, <3>3 DEF Reached, Hollow, min_elements_in_chunk
  <2>3. phase = "visit_threw" =>
          promised[idx] = "exception" /\ \A i \in 1 .. idx - 1 : promised[i] = "value"
    BY DEF EachInv, GotInv
  <2> QED
    BY <2>1, <2>2, <2>3 DEF ForEachVisitsAll
<1> QED
  BY <1>1, EachInitInv, EachStepInv, PTL DEF EachSpec

-----------------------------------------------------------------------------
(* parallel_sort: the inductive invariant, part by part.                   *)

(* The calls are born in pairs, when the call above them cuts its list.  B *)
(* has the calls that were born, given[n] what call n was to sort.         *)
Unborn(B, n) == 2 * n \notin B /\ 2 * n + 1 \notin B
Fresh(B, given, n) == chunk[n] = given[n] /\ Unborn(B, n)

Below(S, e) == {d \in S : Keys[d] < Keys[e]}
Above(S, e) == S \ (Below(S, e) \cup {e})

IsCut(B, given, n) ==
  /\ 2 * n \in B /\ 2 * n + 1 \in B /\ divi_val[n] \in given[n]
  /\ given[2 * n] = Below(given[n], divi_val[n])
  /\ given[2 * n + 1] = Above(given[n], divi_val[n])

(* Sequence s has the elements of S, each once, in order. *)
InOrder(s, S) ==
  /\ s \in Seq(S) /\ \A e \in S : \E i \in DOMAIN s : s[i] = e
  /\ \A i, j \in DOMAIN s : i < j => s[i] # s[j] /\ Keys[s[i]] <= Keys[s[j]]

Right(given, n) == InOrder(sorted[n], given[n])

(* Thread t has call n at step a in the i-th place of its stack. *)
Steps == [job : Jobs, at : {Split, Higher, Lower}]
Frame(t, i, n, a) == i \in DOMAIN running[t] /\ running[t][i] = [job |-> n, at |-> a]
Underway(n) == \E t \in AlgoThreads : \E i, a : Frame(t, i, n, a)

TypesInv ==
  /\ phase \in {"none", "sort", "sorted", "sort_threw"}
  /\ jobs \in Seq(Jobs)
  /\ dozing \in [PoolWorkers -> {"awake", "window", "asleep"}]
  /\ running \in [AlgoThreads -> Seq(Steps)]
  /\ promised \in [Jobs -> {"none", "value", "exception"}]
  /\ SortTypeOK

BornInv(B, given) ==
  /\ B \in SUBSET Jobs /\ given \in [Jobs -> SUBSET Elements]
  /\ phase = "none" => B = {}
  /\ phase # "none" => 1 \in B /\ given[1] = Elements
  /\ \A n \in Jobs : 2 * n \in B \/ 2 * n + 1 \in B => n \in B
  /\ \A n \in Jobs : promised[n] # "none" => n \in B /\ IsTask(n)

(* A task in the queue was not pulled before. *)
QueuedInv(B, given) ==
  /\ \A i \in DOMAIN jobs :
       /\ IsTask(jobs[i]) /\ jobs[i] \in B /\ promised[jobs[i]] = "none"
       /\ Fresh(B, given, jobs[i]) /\ ~Underway(jobs[i])
  /\ \A i, j \in DOMAIN jobs : jobs[i] = jobs[j] => i = j

(* A call that does its higher chunk is under that chunk's call; one that  *)
(* waits for its lower chunk has the higher one sorted.                    *)
FrameInv(B, given, t, i, n, a) ==
  /\ n \in B /\ promised[n] = "none"
  /\ a = Split => i = Len(running[t]) /\ Fresh(B, given, n)
  /\ a = Higher => \E b : Frame(t, i + 1, 2 * n + 1, b)
  /\ a # Split => IsCut(B, given, n)
  /\ a = Lower => Right(given, 2 * n + 1)
  /\ ~Outermost(n) => \E m \in Jobs : n = 2 * m + 1 /\ Frame(t, i - 1, m, Higher)

FramesInv(B, given) == \A t \in AlgoThreads : \A i, n, a : Frame(t, i, n, a) => FrameInv(B, given, t, i, n, a)

FrameOnceInv ==
  \A t, u \in AlgoThreads : \A i, k, n, a, b : Frame(t, i, n, a) /\ Frame(u, k, n, b) => t = u /\ i = k

ResultsInv(given) ==
  /\ \A n \in Jobs : promised[n] = "value" => Right(given, n)
  /\ phase = "sorted" => Right(given, 1)

(* The call that gave a task its chunk waits for it. *)
HomesInv ==
  ~raised => \A n \in Jobs : Underway(2 * n) \/ (\E i \in DOMAIN jobs : jobs[i] = 2 * n) => Underway(n)

TreeInv(B, given) ==
  /\ TypesInv /\ BornInv(B, given) /\ QueuedInv(B, given) /\ FramesInv(B, given)
  /\ FrameOnceInv /\ ResultsInv(given) /\ HomesInv

SortInv == \E B, given : TreeInv(B, given)

-----------------------------------------------------------------------------
(* Numbers of calls. *)
LEMMA Numbers ==
  /\ \A n \in Jobs : n \in Nat /\ n >= 1
  /\ \A n \in Nat : IsTask(2 * n) /\ ~IsTask(2 * n + 1)
  /\ \A n \in Nat : n >= 1 => Outermost(2 * n) /\ ~Outermost(2 * n + 1)
  /\ MaxJobs \in Nat /\ 1 \in Jobs
<1>1. MaxJobs \in Nat /\ 1 \in Jobs
  BY AlgoAssumption, KeysAssumption
<1>2. \A n \in Nat : IsTask(2 * n) /\ ~IsTask(2 * n + 1)
  BY DEF IsTask
<1> QED
  BY <1>1, <1>2 DEF Jobs, Outermost

(* A place of a stack has one call at one step. *)
LEMMA OneCall ==
  ASSUME NEW t, NEW i, NEW n, NEW a, NEW m, NEW b, Frame(t, i, n, a), Frame(t, i, m, b)
  PROVE  n = m /\ a = b
<1>1. [job |-> n, at |-> a] = [job |-> m, at |-> b]
  BY DEF Frame
<1> QED
  BY <1>1

(* A stack, place by place. *)
LEMMA Stack ==
  ASSUME TypesInv, NEW t \in AlgoThreads
  PROVE  /\ running[t] \in Seq(Steps) /\ Len(running[t]) \in Nat /\ DOMAIN running[t] = 1 .. Len(running[t])
         /\ \A i \in 1 .. Len(running[t]) : \E n \in Jobs, a \in {Split, Higher, Lower} : Frame(t, i, n, a)
         /\ \A i, n, a : Frame(t, i, n, a) =>
              /\ i \in 1 .. Len(running[t]) /\ n \in Jobs /\ a \in {Split, Higher, Lower}
              /\ running[t][i].job = n /\ running[t][i].at = a
<1>1. /\ running[t] \in Seq(Steps) /\ Len(running[t]) \in Nat /\ DOMAIN running[t] = 1 .. Len(running[t])
  BY LenProperties DEF TypesInv
<1>2. ASSUME NEW i \in 1 .. Len(running[t])
      PROVE  \E n \in Jobs, a \in {Split, Higher, Lower} : Frame(t, i, n, a)
  <2>1. running[t][i] \in Steps
    BY <1>1, ElementOfSeq
  <2> QED
    BY <1>1, <2>1 DEF Frame, Steps
<1>3. ASSUME NEW i, NEW n, NEW a, Frame(t, i, n, a)
      PROVE  /\ i \in 1 .. Len(running[t]) /\ n \in Jobs /\ a \in {Split, Higher, Lower}
             /\ running[t][i].job = n /\ running[t][i].at = a
  <2>1. i \in 1 .. Len(running[t]) /\ running[t][i] = [job |-> n, at |-> a]
    BY <1>1, <1>3 DEF Frame
  <2>2. [job |-> n, at |-> a] \in Steps
    BY <1>1, <2>1, ElementOfSeq
  <2> QED
    BY <2>1, <2>2 DEF Steps
<1> QED
  BY <1>1, <1>2, <1>3

(* What is on top of the stack of t. *)
LEMMA TopCall ==
  ASSUME TypesInv, NEW t \in AlgoThreads, NEW n, NEW a, At(t, n, a)
  PROVE  Len(running[t]) >= 1 /\ Frame(t, Len(running[t]), n, a)
<1>1. running[t] \in Seq(Steps) /\ running[t] # << >>
  BY Stack DEF At
<1>2. Len(running[t]) \in Nat \ {0}
  BY <1>1, EmptySeq
<1> QED
  BY <1>2, Stack DEF At, Frame, Last

-----------------------------------------------------------------------------
(* The lists. *)

(* Sorted lists of what is below and above e make a sorted list with e. *)
LEMMA Joined ==
  ASSUME NEW S \in SUBSET Elements, NEW e \in S, NEW l, NEW h,
         InOrder(l, Below(S, e)), InOrder(h, Above(S, e))
  PROVE  InOrder(l \o <<e>> \o h, S)
<1> DEFINE s == l \o <<e>> \o h
<1>1. Keys \in [Elements -> Int]
  BY KeysAssumption
<1>2. l \in Seq(S) /\ h \in Seq(S) /\ <<e>> \in Seq(S) /\ Len(<<e>>) = 1 /\ <<e>>[1] = e
  <2>1. Below(S, e) \subseteq S /\ Above(S, e) \subseteq S
    BY DEF Below, Above
  <2> QED
    BY <2>1, SeqMonotonic DEF InOrder
<1>3. /\ Len(l) \in Nat /\ DOMAIN l = 1 .. Len(l) /\ Len(h) \in Nat /\ DOMAIN h = 1 .. Len(h)
  BY <1>2, LenProperties
<1>4. /\ l \o <<e>> \in Seq(S) /\ Len(l \o <<e>>) = Len(l) + 1
      /\ \A i \in 1 .. Len(l) + 1 : (l \o <<e>>)[i] = IF i <= Len(l) THEN l[i] ELSE e
  BY <1>2, <1>3, ConcatProperties
<1>5. /\ s \in Seq(S) /\ Len(s) = Len(l) + 1 + Len(h) /\ DOMAIN s = 1 .. Len(s)
      /\ \A i \in 1 .. Len(s) : s[i] = IF i <= Len(l) + 1 THEN (l \o <<e>>)[i] ELSE h[i - (Len(l) + 1)]
  BY <1>2, <1>3, <1>4, ConcatProperties, LenProperties
<1>6. /\ \A i \in 1 .. Len(l) : s[i] = l[i] /\ l[i] \in Below(S, e)
      /\ s[Len(l) + 1] = e
      /\ \A i \in 1 .. Len(h) : s[Len(l) + 1 + i] = h[i] /\ h[i] \in Above(S, e)
  <2>1. \A i \in 1 .. Len(l) : l[i] \in Below(S, e)
    BY <1>3, ElementOfSeq DEF InOrder
  <2>2. \A i \in 1 .. Len(h) : h[i] \in Above(S, e)
    BY <1>3, ElementOfSeq DEF InOrder
  <2> HIDE DEF s
  <2>3. \A i \in 1 .. Len(l) + 1 : s[i] = IF i <= Len(l) THEN l[i] ELSE e
    BY <1>3, <1>4, <1>5
  <2>4. ASSUME NEW i \in 1 .. Len(h)
        PROVE  s[Len(l) + 1 + i] = h[i]
    <3>1. Len(l) + 1 + i \in 1 .. Len(s) /\ ~(Len(l) + 1 + i <= Len(l) + 1)
      BY <1>3, <1>5
    <3>2. Len(l) + 1 + i - (Len(l) + 1) = i
      BY <1>3
    <3> QED
      BY <1>5, <3>1, <3>2
  <2> QED
    BY <1>3, <2>1, <2>2, <2>3, <2>4
<1>7. \A i \in DOMAIN s : \/ i \in 1 .. Len(l)
                          \/ i = Len(l) + 1
                          \/ \E k \in 1 .. Len(h) : i = Len(l) + 1 + k
  <2> SUFFICES ASSUME NEW i \in DOMAIN s, i > Len(l) + 1
               PROVE  \E k \in 1 .. Len(h) : i = Len(l) + 1 + k
    BY <1>3, <1>5
  <2>1. i - (Len(l) + 1) \in 1 .. Len(h) /\ i = Len(l) + 1 + (i - (Len(l) + 1))
    BY <1>3, <1>5
  <2> QED
    BY <2>1
<1> HIDE DEF s
<1>8. ASSUME NEW d \in S
      PROVE  \E i \in DOMAIN s : s[i] = d
  <2>1. CASE d = e
    BY <1>3, <1>5, <1>6, <2>1
  <2>2. CASE d \in Below(S, e)
    <3>1. PICK i \in DOMAIN l : l[i] = d
      BY <2>2 DEF InOrder
    <3> QED
      BY <1>3, <1>5, <1>6, <3>1
  <2>3. CASE d \in Above(S, e)
    <3>1. PICK i \in DOMAIN h : h[i] = d
      BY <2>3 DEF InOrder
    <3>2. Len(l) + 1 + i \in DOMAIN s
      BY <1>3, <1>5
    <3> QED
      BY <1>3, <1>6, <3>1, <3>2
  <2> QED
    BY <2>1, <2>2, <2>3 DEF Above
<1>9. ASSUME NEW i \in DOMAIN s, NEW j \in DOMAIN s, i < j
      PROVE  s[i] # s[j] /\ Keys[s[i]] <= Keys[s[j]]
  <2>1. \A d \in Below(S, e) : d \in Elements /\ d # e /\ d \notin Above(S, e) /\ Keys[d] < Keys[e] /\ Keys[d] \in Int
    BY <1>1 DEF Below, Above
  <2>2. \A d \in Above(S, e) : d \in Elements /\ d # e /\ Keys[e] <= Keys[d] /\ Keys[d] \in Int
    BY <1>1 DEF Below, Above
  <2>3. Keys[e] \in Int
    BY <1>1
  <2>4. CASE i \in 1 .. Len(l) /\ j \in 1 .. Len(l)
    <3>1. s[i] = l[i] /\ s[j] = l[j] /\ i \in DOMAIN l /\ j \in DOMAIN l
      BY <1>3, <1>6, <2>4
    <3> QED
      BY <1>9, <3>1 DEF InOrder
  <2>5. CASE i \in 1 .. Len(l) /\ j = Len(l) + 1
    <3>1. s[i] \in Below(S, e) /\ s[j] = e
      BY <1>6, <2>5
    <3> QED
      BY <2>1, <2>3, <3>1
  <2>6. CASE i \in 1 .. Len(l) /\ \E k \in 1 .. Len(h) : j = Len(l) + 1 + k
    <3>1. s[i] \in Below(S, e) /\ s[j] \in Above(S, e)
      BY <1>6, <2>6
    <3> QED
      BY <2>1, <2>2, <2>3, <3>1
  <2>7. CASE i = Len(l) + 1 /\ \E k \in 1 .. Len(h) : j = Len(l) + 1 + k
    <3>1. s[i] = e /\ s[j] \in Above(S, e)
      BY <1>6, <2>7
    <3> QED
      BY <2>2, <3>1
  <2>8. ASSUME NEW k \in 1 .. Len(h), i = Len(l) + 1 + k, NEW g \in 1 .. Len(h), j = Len(l) + 1 + g
        PROVE  s[i] # s[j] /\ Keys[s[i]] <= Keys[s[j]]
    <3>1. k < g
      BY <1>3, <1>9, <2>8
    <3> QED
      <4>1. s[i] = h[k] /\ s[j] = h[g] /\ k \in DOMAIN h /\ g \in DOMAIN h
        BY <1>3, <1>6, <2>8
      <4> QED
        BY <3>1, <4>1 DEF InOrder
  <2> QED
    BY <1>3, <1>7, <1>9, <2>4, <2>5, <2>6, <2>7, <2>8
<1> QED
  BY <1>5, <1>8, <1>9 DEF InOrder, s

(* A sorted list of S is as long as S has elements. *)
LEMMA AsLong ==
  ASSUME NEW S \in SUBSET Elements, NEW s, InOrder(s, S)
  PROVE  Len(s) = Cardinality(S) /\ ToSet(s) = S
<1>1. /\ s \in Seq(S) /\ Len(s) \in Nat /\ DOMAIN s = 1 .. Len(s) /\ s \in [1 .. Len(s) -> S]
  BY LenProperties DEF InOrder
<1>2. \A i, j \in 1 .. Len(s) : s[i] = s[j] => i = j
  <2> SUFFICES ASSUME NEW i \in 1 .. Len(s), NEW j \in 1 .. Len(s), i # j
               PROVE  s[i] # s[j]
    OBVIOUS
  <2>1. i < j \/ j < i
    OBVIOUS
  <2> QED
    BY <1>1, <2>1 DEF InOrder
<1>3. s \in Bijection(1 .. Len(s), S)
  <2>1. s \in Injection(1 .. Len(s), S)
    BY <1>1, <1>2 DEF Injection, IsInjective
  <2>2. s \in Surjection(1 .. Len(s), S)
    BY <1>1 DEF InOrder, Surjection
  <2> QED
    BY <2>1, <2>2 DEF Bijection
<1>4. Cardinality(S) = Len(s)
  BY <1>1, <1>3, FS_CountingElements DEF ExistsBijection
<1> QED
  BY <1>1, <1>4 DEF InOrder, ToSet

-----------------------------------------------------------------------------
(* Stacks that change at the top. *)

(* Thread t keeps the lowest k places of its stack, which becomes s. *)
Replaces(t, k, s) ==
  /\ running' = [running EXCEPT ![t] = s]
  /\ k \in 0 .. Len(running[t]) /\ s \in Seq(Steps) /\ Len(s) >= k
  /\ \A i \in 1 .. k : s[i] = running[t][i]

Kept(t, k, u, i) == u # t \/ i <= k
New(k, s, i, n, a) == i \in k + 1 .. Len(s) /\ s[i] = [job |-> n, at |-> a]

(* The places kept are as they were, those above are those of s. *)
LEMMA StackPlaces ==
  ASSUME TypesInv, NEW t \in AlgoThreads, NEW k, NEW s, Replaces(t, k, s)
  PROVE  /\ running' \in [AlgoThreads -> Seq(Steps)] /\ running'[t] = s
         /\ \A u \in AlgoThreads : u # t => running'[u] = running[u]
         /\ \A u \in AlgoThreads : \A i, n, a :
              Frame(u, i, n, a)' <=> \/ Kept(t, k, u, i) /\ Frame(u, i, n, a)
                                     \/ u = t /\ New(k, s, i, n, a)
         /\ \A i, n, a : New(k, s, i, n, a) => n \in Jobs /\ i > k
<1>1. /\ running' = [running EXCEPT ![t] = s] /\ s \in Seq(Steps) /\ Len(s) >= k
      /\ k \in 0 .. Len(running[t]) /\ \A i \in 1 .. k : s[i] = running[t][i]
  BY DEF Replaces
<1>2. running \in [AlgoThreads -> Seq(Steps)]
  BY DEF TypesInv
<1>3. /\ running' \in [AlgoThreads -> Seq(Steps)] /\ running'[t] = s
      /\ \A u \in AlgoThreads : u # t => running'[u] = running[u]
  BY <1>1, <1>2
<1>4. /\ Len(s) \in Nat /\ DOMAIN s = 1 .. Len(s) /\ k \in Nat
      /\ Len(running[t]) \in Nat /\ DOMAIN running[t] = 1 .. Len(running[t])
  BY <1>1, LenProperties, Stack
<1>5. ASSUME NEW u \in AlgoThreads, NEW i, NEW n, NEW a
      PROVE  Frame(u, i, n, a)' <=> \/ Kept(t, k, u, i) /\ Frame(u, i, n, a)
                                    \/ u = t /\ New(k, s, i, n, a)
  <2>1. CASE u # t
    BY <1>3, <2>1 DEF Frame, Kept
  <2>2. CASE u = t
    <3>1. Frame(u, i, n, a)' <=> i \in 1 .. Len(s) /\ s[i] = [job |-> n, at |-> a]
      BY <1>3, <1>4, <2>2 DEF Frame
    <3>2. Frame(u, i, n, a) <=> i \in 1 .. Len(running[t]) /\ running[t][i] = [job |-> n, at |-> a]
      BY <1>4, <2>2 DEF Frame
    <3>3. CASE i \in 1 .. k
      <4>1. i \in 1 .. Len(s) /\ i \in 1 .. Len(running[t]) /\ s[i] = running[t][i] /\ i <= k /\ i \notin k + 1 .. Len(s)
        BY <1>1, <1>4, <3>3
      <4> QED
        BY <2>2, <3>1, <3>2, <4>1 DEF Kept, New
    <3>4. CASE i \notin 1 .. k
      <4>1. i \in 1 .. Len(running[t]) => ~(i <= k)
        BY <1>4, <3>4
      <4>2. i \in 1 .. Len(s) <=> i \in k + 1 .. Len(s)
        BY <1>1, <1>4, <3>4
      <4> QED
        BY <2>2, <3>1, <3>2, <4>1, <4>2 DEF Kept, New
    <3> QED
      BY <3>3, <3>4
  <2> QED
    BY <2>1, <2>2
<1>6. ASSUME NEW i, NEW n, NEW a, New(k, s, i, n, a)
      PROVE  n \in Jobs /\ i > k
  <2>1. i \in k + 1 .. Len(s) /\ i \in 1 .. Len(s) /\ s[i] = [job |-> n, at |-> a]
    BY <1>4, <1>6 DEF New
  <2>2. [job |-> n, at |-> a] \in Steps
    BY <1>1, <2>1, ElementOfSeq
  <2> QED
    BY <1>4, <2>1, <2>2 DEF Steps
<1> QED
  BY <1>3, <1>5, <1>6

(* A call that stays where it is has the calls around it still there, if   *)
(* the one that it waits for is, and nothing comes on top of it that was   *)
(* on top.                                                                 *)
LEMMA KeptFrames ==
  ASSUME NEW B, NEW given, TreeInv(B, given), NEW t \in AlgoThreads, NEW k, NEW s, Replaces(t, k, s),
         k = Len(running[t]) => \A n : ~Frame(t, k, n, Split),
         \A n : Frame(t, k, n, Higher) => \E b : New(k, s, k + 1, 2 * n + 1, b),
         NEW u \in AlgoThreads, NEW i, NEW n, NEW a, Kept(t, k, u, i), Frame(u, i, n, a)
  PROVE  /\ a = Split => i = Len(running'[u])
         /\ a = Higher => \E b : Frame(u, i + 1, 2 * n + 1, b)'
         /\ ~Outermost(n) => \E m \in Jobs : n = 2 * m + 1 /\ Frame(u, i - 1, m, Higher)'
<1>1. TypesInv /\ FrameInv(B, given, u, i, n, a)
  BY DEF TreeInv, FramesInv
<1>2. /\ \A v \in AlgoThreads : v # t => running'[v] = running[v]
      /\ \A v \in AlgoThreads : \A j, m, b :
              Frame(v, j, m, b)' <=> \/ Kept(t, k, v, j) /\ Frame(v, j, m, b)
                                     \/ v = t /\ New(k, s, j, m, b)
  BY <1>1, StackPlaces
<1>3. /\ i \in 1 .. Len(running[u]) /\ n \in Jobs /\ Len(running[u]) \in Nat /\ i \in Int
      /\ k \in 0 .. Len(running[t]) /\ Len(running[t]) \in Nat /\ k \in Int
  BY <1>1, Stack DEF Replaces
<1>4. a = Split => i = Len(running'[u])
  <2> SUFFICES ASSUME a = Split
               PROVE  i = Len(running'[u])
    OBVIOUS
  <2>1. i = Len(running[u])
    BY <1>1 DEF FrameInv
  <2>2. CASE u = t
    <3>1. k = Len(running[t]) /\ i = k
      BY <1>3, <2>1, <2>2 DEF Kept
    <3> QED
      BY <2>2, <3>1
  <2> QED
    BY <1>2, <2>1, <2>2
<1>5. a = Higher => \E b : Frame(u, i + 1, 2 * n + 1, b)'
  <2> SUFFICES ASSUME a = Higher
               PROVE  \E b : Frame(u, i + 1, 2 * n + 1, b)'
    OBVIOUS
  <2>1. PICK b : Frame(u, i + 1, 2 * n + 1, b)
    BY <1>1 DEF FrameInv
  <2>2. CASE Kept(t, k, u, i + 1)
    BY <1>2, <2>1, <2>2
  <2>3. CASE ~Kept(t, k, u, i + 1)
    <3>1. u = t /\ i = k
      BY <1>3, <2>3 DEF Kept
    <3> QED
      BY <1>2, <3>1
  <2> QED
    BY <2>2, <2>3
<1>6. ASSUME ~Outermost(n)
      PROVE  \E m \in Jobs : n = 2 * m + 1 /\ Frame(u, i - 1, m, Higher)'
  <2>1. PICK m \in Jobs : n = 2 * m + 1 /\ Frame(u, i - 1, m, Higher)
    BY <1>1, <1>6 DEF FrameInv
  <2>2. Kept(t, k, u, i - 1)
    BY <1>3 DEF Kept
  <2> QED
    BY <1>2, <2>1, <2>2
<1> QED
  BY <1>4, <1>5, <1>6

(* The calls of the stacks stay different from one another. *)
LEMMA KeepsOnce ==
  ASSUME TypesInv, FrameOnceInv, NEW t \in AlgoThreads, NEW k, NEW s, Replaces(t, k, s),
         \A i, n, a : New(k, s, i, n, a) =>
           /\ \A u \in AlgoThreads : \A j, b : Frame(u, j, n, b) => ~Kept(t, k, u, j)
           /\ \A j, b : New(k, s, j, n, b) => j = i
  PROVE  FrameOnceInv'
<1> SUFFICES ASSUME NEW u \in AlgoThreads, NEW v \in AlgoThreads, NEW i, NEW j, NEW n, NEW a, NEW b,
                    Frame(u, i, n, a)', Frame(v, j, n, b)'
             PROVE  u = v /\ i = j
  BY DEF FrameOnceInv
<1>1. /\ (Kept(t, k, u, i) /\ Frame(u, i, n, a)) \/ (u = t /\ New(k, s, i, n, a))
      /\ (Kept(t, k, v, j) /\ Frame(v, j, n, b)) \/ (v = t /\ New(k, s, j, n, b))
  BY StackPlaces
<1> QED
  BY <1>1 DEF FrameOnceInv

-----------------------------------------------------------------------------
(* A call returns: it goes, and the call that it returns to, if it is not  *)
(* the first of its own, goes on to wait for its lower chunk.              *)
LEMMA ReturnStack ==
  ASSUME NEW B, NEW given, TreeInv(B, given), NEW t \in AlgoThreads, NEW n, NEW r, NEW a,
         Returns(t, n, r), At(t, n, a)
  PROVE  \E k, s :
           /\ Replaces(t, k, s) /\ k < Len(running[t])
           /\ \A j : Frame(t, k, j, Higher) => \E b : New(k, s, k + 1, 2 * j + 1, b)
           /\ \A i, j, b : New(k, s, i, j, b) => b = Lower /\ n = 2 * j + 1 /\ i = k + 1 /\ Frame(t, i, j, Higher)
           /\ \A i, j, b : Frame(t, i, j, b) /\ ~Kept(t, k, t, i) => j = n \/ New(k, s, i, j, Lower)
<1> DEFINE L == Len(running[t])
           f == Front(running[t])
<1>1. TypesInv /\ FramesInv(B, given) /\ running' = [running EXCEPT ![t] = IF Outermost(n) THEN f ELSE Moves(f, Lower)]
  BY DEF TreeInv, Returns
<1>2. /\ running[t] \in Seq(Steps) /\ L \in Nat /\ L >= 1 /\ DOMAIN running[t] = 1 .. L /\ Frame(t, L, n, a) /\ n \in Jobs
      /\ FrameInv(B, given, t, L, n, a)
  BY <1>1, Stack, TopCall DEF FramesInv
<1>3. f \in Seq(Steps) /\ Len(f) = L - 1 /\ \A i \in 1 .. L - 1 : f[i] = running[t][i]
  <2>1. \A i \in 1 .. L - 1 : running[t][i] \in Steps
    BY <1>2, ElementOfSeq
  <2>2. /\ SubSeq(running[t], 1, L - 1) \in Seq(Steps)
        /\ Len(SubSeq(running[t], 1, L - 1)) = IF 1 <= L - 1 THEN L - 1 - 1 + 1 ELSE 0
        /\ \A i \in 1 .. L - 1 - 1 + 1 : SubSeq(running[t], 1, L - 1)[i] = running[t][1 + i - 1]
    BY <1>2, <2>1, SubSeqProperties
  <2> QED
    BY <1>2, <2>2 DEF Front
<1>4. \A i, j, b : Frame(t, i, j, b) => i \in 1 .. L
  BY <1>1, Stack
<1>5. CASE Outermost(n)
  <2>1. Replaces(t, L - 1, f)
    BY <1>1, <1>2, <1>3, <1>5 DEF Replaces
  <2>2. ASSUME NEW j, Frame(t, L - 1, j, Higher)
        PROVE  FALSE
    <3>1. PICK b : Frame(t, L, 2 * j + 1, b)
      BY <1>1, <1>2, <2>2 DEF FramesInv, FrameInv
    <3>2. n = 2 * j + 1 /\ j \in Jobs
      BY <1>1, <1>2, <2>2, <3>1, OneCall, Stack
    <3> QED
      BY <1>5, <3>2, Numbers
  <2>3. \A i, j, b : ~New(L - 1, f, i, j, b)
    BY <1>2, <1>3 DEF New
  <2>4. ASSUME NEW i, NEW j, NEW b, Frame(t, i, j, b), ~Kept(t, L - 1, t, i)
        PROVE  j = n
    <3>1. i = L
      BY <1>2, <1>4, <2>4 DEF Kept
    <3> QED
      BY <1>2, <2>4, <3>1, OneCall
  <2>5. L - 1 < L
    BY <1>2
  <2> QED
    BY <2>1, <2>2, <2>3, <2>4, <2>5
<1>6. CASE ~Outermost(n)
  <2>1. PICK m \in Jobs : n = 2 * m + 1 /\ Frame(t, L - 1, m, Higher)
    BY <1>2, <1>6 DEF FrameInv
  <2> DEFINE s == Moves(f, Lower)
             g == Front(f)
             e == [job |-> m, at |-> Lower]
  <2>2. L - 1 \in 1 .. L /\ L - 1 \in Nat /\ L >= 2
    BY <1>2, <1>4, <2>1
  <2>3. Last(f) = running[t][L - 1] /\ Last(f).job = m
    <3>1. Last(f) = running[t][L - 1]
      BY <1>3, <2>2 DEF Last
    <3> QED
      BY <1>1, <2>1, <3>1, Stack
  <2>4. g \in Seq(Steps) /\ Len(g) = L - 2 /\ \A i \in 1 .. L - 2 : g[i] = running[t][i]
    <3>1. \A i \in 1 .. L - 2 : f[i] \in Steps
      BY <1>3, <2>2, ElementOfSeq
    <3>2. /\ SubSeq(f, 1, L - 2) \in Seq(Steps)
          /\ Len(SubSeq(f, 1, L - 2)) = IF 1 <= L - 2 THEN L - 2 - 1 + 1 ELSE 0
          /\ \A i \in 1 .. L - 2 - 1 + 1 : SubSeq(f, 1, L - 2)[i] = f[1 + i - 1]
      BY <2>2, <3>1, SubSeqProperties
    <3>3. g = SubSeq(f, 1, L - 2)
      <4>1. L - 1 - 1 = L - 2
        BY <2>2
      <4> QED
        BY <1>3, <4>1 DEF Front
    <3> QED
      BY <1>3, <2>2, <3>2, <3>3
  <2>5. /\ s \in Seq(Steps) /\ Len(s) = L - 1 /\ s[L - 1] = e
        /\ \A i \in 1 .. L - 2 : s[i] = running[t][i]
    <3>1. e \in Steps
      BY DEF Steps
    <3>2. <<e>> \in Seq(Steps) /\ Len(<<e>>) = 1 /\ <<e>>[1] = e
      BY <3>1
    <3>3. s = g \o <<e>>
      BY <2>3 DEF Moves
    <3>4. /\ g \o <<e>> \in Seq(Steps) /\ Len(g \o <<e>>) = L - 2 + 1
          /\ \A i \in 1 .. L - 2 + 1 : (g \o <<e>>)[i] = IF i <= L - 2 THEN g[i] ELSE <<e>>[i - (L - 2)]
      <4> HIDE DEF g, e
      <4>1. /\ g \o <<e>> \in Seq(Steps) /\ Len(g \o <<e>>) = Len(g) + Len(<<e>>)
            /\ \A i \in 1 .. Len(g) + Len(<<e>>) :
                 (g \o <<e>>)[i] = IF i <= Len(g) THEN g[i] ELSE <<e>>[i - Len(g)]
        BY <2>4, <3>2, ConcatProperties
      <4> QED
        BY <2>4, <3>2, <4>1
    <3> HIDE DEF s, g, e
    <3>5. s[L - 1] = e
      <4>1. L - 1 \in 1 .. L - 2 + 1 /\ ~(L - 1 <= L - 2) /\ L - 1 - (L - 2) = 1
        BY <2>2
      <4> QED
        BY <3>2, <3>3, <3>4, <4>1
    <3> QED
      BY <2>2, <2>4, <3>3, <3>4, <3>5
  <2> HIDE DEF s
  <2>6. Replaces(t, L - 2, s)
    BY <1>1, <1>2, <1>6, <2>2, <2>5 DEF Replaces, s
  <2>7. ASSUME NEW j, Frame(t, L - 2, j, Higher)
        PROVE  \E b : New(L - 2, s, L - 1, 2 * j + 1, b)
    <3>1. L - 2 + 1 = L - 1
      BY <2>2
    <3>2. PICK b : Frame(t, L - 1, 2 * j + 1, b)
      BY <1>1, <2>7, <3>1 DEF FramesInv, FrameInv
    <3>3. m = 2 * j + 1
      BY <2>1, <3>2, OneCall
    <3>4. L - 1 \in L - 2 + 1 .. Len(s)
      BY <2>2, <2>5
    <3>5. New(L - 2, s, L - 1, m, Lower)
      BY <2>5, <3>4 DEF New
    <3> QED
      BY <3>3, <3>5
  <2>8. ASSUME NEW i, NEW j, NEW b, New(L - 2, s, i, j, b)
        PROVE  b = Lower /\ n = 2 * j + 1 /\ i = L - 1 /\ Frame(t, i, j, Higher)
    <3>1. i = L - 1 /\ [job |-> j, at |-> b] = e
      BY <2>2, <2>5, <2>8 DEF New
    <3>2. j = m /\ b = Lower
      BY <3>1
    <3> QED
      BY <2>1, <3>1, <3>2
  <2>9. ASSUME NEW i, NEW j, NEW b, Frame(t, i, j, b), ~Kept(t, L - 2, t, i)
        PROVE  j = n \/ New(L - 2, s, i, j, Lower)
    <3>1. i = L - 1 \/ i = L
      BY <1>2, <1>4, <2>2, <2>9 DEF Kept
    <3>2. CASE i = L
      BY <1>2, <2>9, <3>2, OneCall
    <3>3. CASE i = L - 1
      <4>1. j = m
        BY <2>1, <2>9, <3>3, OneCall
      <4> QED
        BY <2>2, <2>5, <3>3, <4>1 DEF New
    <3> QED
      BY <3>1, <3>2, <3>3
  <2>10. L - 2 < L /\ L - 2 + 1 = L - 1
    BY <2>2
  <2>11. \A j : Frame(t, L - 2, j, Higher) => \E b : New(L - 2, s, L - 2 + 1, 2 * j + 1, b)
    BY <2>7, <2>10
  <2>12. \A i, j, b : New(L - 2, s, i, j, b) => b = Lower /\ n = 2 * j + 1 /\ i = L - 2 + 1 /\ Frame(t, i, j, Higher)
    BY <2>8, <2>10
  <2> QED
    BY <2>6, <2>9, <2>10, <2>11, <2>12
<1> QED
  BY <1>5, <1>6

(* A call returns the list it was given, in order, when its two chunks     *)
(* are.                                                                    *)
LEMMA ReturnInv ==
  ASSUME NEW B, NEW given, TreeInv(B, given), NEW t \in AlgoThreads, NEW n, NEW r, NEW a,
         Returns(t, n, r), At(t, n, a), InOrder(r, given[n]),
         a = Split \/ (a = Lower /\ promised[2 * n] = "value")
  PROVE  TreeInv(B, given)'
<1>1. PICK k, s :
           /\ Replaces(t, k, s) /\ k < Len(running[t])
           /\ \A j : Frame(t, k, j, Higher) => \E b : New(k, s, k + 1, 2 * j + 1, b)
           /\ \A i, j, b : New(k, s, i, j, b) => b = Lower /\ n = 2 * j + 1 /\ i = k + 1 /\ Frame(t, i, j, Higher)
           /\ \A i, j, b : Frame(t, i, j, b) /\ ~Kept(t, k, t, i) => j = n \/ New(k, s, i, j, Lower)
  BY ReturnStack
<1>2. /\ TypesInv /\ BornInv(B, given) /\ QueuedInv(B, given) /\ FramesInv(B, given)
      /\ FrameOnceInv /\ ResultsInv(given) /\ HomesInv
  BY DEF TreeInv
<1>3. /\ sorted' = [sorted EXCEPT ![n] = r] /\ UNCHANGED <<jobs, dozing, chunk, divi_val, raised>>
      /\ promised' = IF IsTask(n) THEN [promised EXCEPT ![n] = "value"] ELSE promised
      /\ phase' = IF n = 1 THEN "sorted" ELSE phase
  BY DEF Returns
<1>4. /\ running' \in [AlgoThreads -> Seq(Steps)]
      /\ \A u \in AlgoThreads : \A i, j, b :
              Frame(u, i, j, b)' <=> \/ Kept(t, k, u, i) /\ Frame(u, i, j, b)
                                     \/ u = t /\ New(k, s, i, j, b)
      /\ \A i, j, b : New(k, s, i, j, b) => j \in Jobs /\ i > k
  BY <1>1, <1>2, StackPlaces
<1>5. /\ Frame(t, Len(running[t]), n, a) /\ n \in Jobs /\ Len(running[t]) \in Nat /\ k \in Nat
      /\ n \in B /\ promised[n] = "none" /\ FrameInv(B, given, t, Len(running[t]), n, a)
  BY <1>1, <1>2, TopCall, Stack DEF FramesInv, FrameInv, Replaces
<1>6. ASSUME NEW u \in AlgoThreads, NEW i, NEW b, Frame(u, i, n, b)
      PROVE  u = t /\ i = Len(running[t]) /\ ~Kept(t, k, u, i)
  BY <1>1, <1>2, <1>5, <1>6 DEF FrameOnceInv, Kept
<1>7. ASSUME NEW i, NEW j, NEW b, New(k, s, i, j, b)
      PROVE  /\ j # n /\ j \in Jobs /\ b = Lower /\ n = 2 * j + 1 /\ i = k + 1 /\ Frame(t, i, j, Higher)
             /\ ~Kept(t, k, t, i)
  BY <1>1, <1>4, <1>5, <1>7, Numbers DEF Kept
<1>8. FrameOnceInv'
  <2>1. ASSUME NEW i, NEW j, NEW b, New(k, s, i, j, b)
        PROVE  /\ \A u \in AlgoThreads : \A h, c : Frame(u, h, j, c) => ~Kept(t, k, u, h)
               /\ \A h, c : New(k, s, h, j, c) => h = i
    BY <1>2, <1>7, <2>1 DEF FrameOnceInv
  <2> QED
    BY <1>1, <1>2, <2>1, KeepsOnce
<1>9. TypesInv'
  <2>1. r \in Seq(Elements)
    BY <1>2, <1>5, SeqMonotonic DEF InOrder, BornInv
  <2>2. SortTypeOK'
    BY <1>2, <1>3, <2>1 DEF SortTypeOK, TypesInv
  <2> QED
    BY <1>2, <1>3, <1>4, <2>2 DEF TypesInv
<1>10. \A u \in AlgoThreads : \A i, j, b : Frame(u, i, j, b)' => j # n /\ j \in Jobs /\ Underway(j)
  BY <1>2, <1>4, <1>6, <1>7, Stack DEF Underway
<1>11. /\ \A j \in Jobs : j # n => promised'[j] = promised[j] /\ (Right(given, j)' <=> Right(given, j))
       /\ Right(given, n)' /\ (promised'[n] # "none" => IsTask(n))
  BY <1>2, <1>3, <1>5 DEF TypesInv, SortTypeOK, Right, BornInv
<1>12. BornInv(B, given)'
  BY <1>2, <1>3, <1>5, <1>11 DEF BornInv
<1>13. \A i \in DOMAIN jobs : jobs[i] # n /\ jobs[i] \in Jobs
  BY <1>2, <1>5 DEF QueuedInv, BornInv, Underway
<1>14. QueuedInv(B, given)'
  <2>1. \A j : Underway(j)' => Underway(j)
    BY <1>10 DEF Underway
  <2> QED
    BY <1>2, <1>3, <1>11, <1>13, <2>1 DEF QueuedInv, Fresh, Unborn
<1>15. FramesInv(B, given)'
  <2>1. ASSUME NEW u \in AlgoThreads, NEW i, NEW j, NEW b, Kept(t, k, u, i), Frame(u, i, j, b)
        PROVE  FrameInv(B, given, u, i, j, b)'
    <3>1. j \in Jobs /\ j # n /\ FrameInv(B, given, u, i, j, b)
      BY <1>2, <1>6, <2>1, Stack DEF FramesInv
    <3>2. /\ b = Split => i = Len(running'[u])
          /\ b = Higher => \E c : Frame(u, i + 1, 2 * j + 1, c)'
          /\ ~Outermost(j) => \E m \in Jobs : j = 2 * m + 1 /\ Frame(u, i - 1, m, Higher)'
      <4>1. k # Len(running[t])
        BY <1>1, <1>5
      <4> QED
        BY <1>1, <2>1, <4>1, KeptFrames
    <3>3. b = Lower => Right(given, 2 * j + 1)'
      <4> SUFFICES ASSUME b = Lower
                   PROVE  Right(given, 2 * j + 1)'
        OBVIOUS
      <4>1. Right(given, 2 * j + 1) /\ 2 * j + 1 \in Jobs
        BY <1>2, <3>1 DEF FrameInv, IsCut, BornInv, Lower, Split
      <4>2. CASE 2 * j + 1 = n
        BY <1>11, <4>2
      <4>3. CASE 2 * j + 1 # n
        BY <1>11, <4>1, <4>3
      <4> QED
        BY <4>2, <4>3
    <3> QED
      BY <1>3, <1>11, <3>1, <3>2, <3>3 DEF FrameInv, Fresh, Unborn, IsCut
  <2>2. ASSUME NEW i, NEW j, NEW b, New(k, s, i, j, b)
        PROVE  FrameInv(B, given, t, i, j, b)'
    <3>1. /\ j \in Jobs /\ j # n /\ FrameInv(B, given, t, i, j, Higher) /\ b = Lower /\ n = 2 * j + 1 /\ i = k + 1
      BY <1>2, <1>7, <2>2 DEF FramesInv
    <3>2. ~Outermost(j) => \E m \in Jobs : j = 2 * m + 1 /\ Frame(t, i - 1, m, Higher)'
      <4> SUFFICES ASSUME ~Outermost(j)
                   PROVE  \E m \in Jobs : j = 2 * m + 1 /\ Frame(t, i - 1, m, Higher)'
        OBVIOUS
      <4>1. PICK m \in Jobs : j = 2 * m + 1 /\ Frame(t, i - 1, m, Higher)
        BY <3>1 DEF FrameInv
      <4>2. Kept(t, k, t, i - 1)
        BY <1>5, <3>1 DEF Kept
      <4> QED
        BY <1>4, <4>1, <4>2
    <3>3. IsCut(B, given, j) /\ IsCut(B, given, j)' /\ Right(given, 2 * j + 1)'
      BY <1>3, <1>11, <3>1 DEF FrameInv, IsCut, Higher, Split
    <3> QED
      BY <1>11, <3>1, <3>2, <3>3 DEF FrameInv, Split, Higher, Lower
  <2> QED
    BY <1>4, <2>1, <2>2 DEF FramesInv
<1>16. ResultsInv(given)'
  BY <1>2, <1>3, <1>5, <1>11, Numbers DEF ResultsInv
<1>17. HomesInv'
  <2> SUFFICES ASSUME ~raised, NEW j \in Jobs, Underway(2 * j)' \/ \E i \in DOMAIN jobs : jobs[i] = 2 * j
               PROVE  Underway(j)'
    BY <1>3 DEF HomesInv
  <2>1. Underway(2 * j) \/ \E i \in DOMAIN jobs : jobs[i] = 2 * j
    BY <1>10 DEF Underway
  <2>2. PICK u, i, b : u \in AlgoThreads /\ Frame(u, i, j, b)
    BY <1>2, <2>1 DEF HomesInv, Underway
  <2>3. j # n
    <3> SUFFICES ASSUME j = n
                 PROVE  FALSE
      OBVIOUS
    <3>1. 2 * n \in B /\ promised[2 * n] = "none"
      BY <1>2, <2>1 DEF QueuedInv, FramesInv, FrameInv, Underway
    <3> QED
      BY <1>5, <3>1 DEF FrameInv, Fresh, Unborn
  <2>4. CASE Kept(t, k, u, i)
    BY <1>4, <2>2, <2>4 DEF Underway
  <2>5. CASE ~Kept(t, k, u, i)
    <3>1. u = t
      BY <2>5 DEF Kept
    <3>2. New(k, s, i, j, Lower)
      BY <1>1, <2>2, <2>3, <2>5, <3>1
    <3> QED
      BY <1>4, <3>1, <3>2 DEF Underway
  <2> QED
    BY <2>4, <2>5
<1> QED
  BY <1>8, <1>9, <1>12, <1>14, <1>15, <1>16, <1>17 DEF TreeInv

-----------------------------------------------------------------------------
(* A set of places has a highest one. *)
LEMMA LargestIn ==
  ASSUME NEW L \in Nat, NEW D \in SUBSET (1 .. L), D # {}
  PROVE  Max(D) \in D
<1> DEFINE T == {L - x : x \in D}
<1>1. T \subseteq Nat /\ T # {}
  <2>1. ASSUME NEW x \in D
        PROVE  L - x \in Nat
    OBVIOUS
  <2>2. \E x : x \in D
    OBVIOUS
  <2> QED
    BY <2>1, <2>2
<1> DEFINE R == OpToRel(<, Nat)
<1>2. IsWellFoundedOn(R, Nat)
  BY NatLessThanWellFounded
<1>3. \A y, x \in Nat : y < x => <<y, x>> \in R
  BY DEF OpToRel
<1> HIDE DEF R
<1>4. PICK m \in T : \A y \in T : <<y, m>> \notin R
  <2> HIDE DEF T
  <2> QED
    BY <1>1, <1>2, WFMin
<1>5. \A y \in T : ~(y < m)
  BY <1>1, <1>3, <1>4
<1>6. PICK x \in D : m = L - x
  OBVIOUS
<1>7. \A y \in D : x >= y
  <2> SUFFICES ASSUME NEW y \in D
               PROVE  x >= y
    OBVIOUS
  <2>1. L - y \in T /\ y \in Int /\ x \in Int /\ L \in Int
    OBVIOUS
  <2>2. ~(L - y < L - x)
    BY <1>5, <1>6, <2>1
  <2> QED
    BY <2>1, <2>2
<1> QED
  BY <1>7 DEF Max

(* An exception leaves a call that ends with a task or with the user, and  *)
(* every call above it.                                                    *)
LEMMA ThrowStack ==
  ASSUME NEW B, NEW given, TreeInv(B, given), NEW t \in AlgoThreads, NEW n, NEW a, At(t, n, a), Throws(t)
  PROVE  \E k, s, o, b :
           /\ Replaces(t, k, s) /\ k < Len(running[t]) /\ k \in Nat
           /\ \A i, j, c : ~New(k, s, i, j, c)
           /\ Frame(t, k + 1, o, b) /\ Outermost(o)
           /\ promised' = IF IsTask(o) THEN [promised EXCEPT ![o] = "exception"] ELSE promised
           /\ phase' = IF o = 1 THEN "sort_threw" ELSE phase
<1> DEFINE L == Len(running[t])
           D == {i \in DOMAIN running[t] : Outermost(running[t][i].job)}
           first == Max(D)
           o == running[t][first].job
           s == SubSeq(running[t], 1, first - 1)
<1>1. /\ running' = [running EXCEPT ![t] = s]
      /\ promised' = IF IsTask(o) THEN [promised EXCEPT ![o] = "exception"] ELSE promised
      /\ phase' = IF o = 1 THEN "sort_threw" ELSE phase
  BY DEF Throws
<1>2. TypesInv /\ FramesInv(B, given)
  BY DEF TreeInv
<1>3. running[t] \in Seq(Steps) /\ L \in Nat /\ L >= 1 /\ DOMAIN running[t] = 1 .. L
  BY <1>2, Stack, TopCall
<1>4. 1 \in D
  <2>1. PICK n1 \in Jobs, a1 \in {Split, Higher, Lower} : Frame(t, 1, n1, a1)
    BY <1>2, <1>3, Stack
  <2>2. running[t][1].job = n1
    BY <1>2, <2>1, Stack
  <2>3. \A m : ~Frame(t, 1 - 1, m, Higher)
    BY <1>3 DEF Frame
  <2>4. Outermost(n1)
    BY <1>2, <2>1, <2>3 DEF FramesInv, FrameInv
  <2> QED
    BY <1>3, <2>2, <2>4
<1>5. first \in D /\ first \in 1 .. L
  <2>1. D \in SUBSET (1 .. L) /\ D # {}
    BY <1>3, <1>4
  <2> HIDE DEF D
  <2> QED
    BY <1>3, <2>1, LargestIn
<1> HIDE DEF first
<1>6. Outermost(o) /\ first - 1 + 1 = first /\ first - 1 \in 0 .. L /\ first - 1 \in Nat /\ first - 1 < L
  BY <1>3, <1>5
<1>7. PICK b : Frame(t, first, o, b)
  <2>1. PICK m \in Jobs, b \in {Split, Higher, Lower} : Frame(t, first, m, b)
    BY <1>2, <1>5, Stack
  <2> QED
    BY <1>2, <2>1, Stack
<1>8. s \in Seq(Steps) /\ Len(s) = first - 1 /\ \A i \in 1 .. first - 1 : s[i] = running[t][i]
  <2>1. \A i \in 1 .. first - 1 : running[t][i] \in Steps
    BY <1>3, <1>5, ElementOfSeq
  <2>2. /\ SubSeq(running[t], 1, first - 1) \in Seq(Steps)
        /\ Len(SubSeq(running[t], 1, first - 1)) = IF 1 <= first - 1 THEN first - 1 - 1 + 1 ELSE 0
        /\ \A i \in 1 .. first - 1 - 1 + 1 : SubSeq(running[t], 1, first - 1)[i] = running[t][1 + i - 1]
    BY <1>6, <2>1, SubSeqProperties
  <2> QED
    BY <1>5, <1>6, <2>2
<1> HIDE DEF s, o
<1>9. Replaces(t, first - 1, s)
  BY <1>1, <1>6, <1>8 DEF Replaces
<1>10. \A i, j, c : ~New(first - 1, s, i, j, c)
  BY <1>6, <1>8 DEF New
<1> QED
  BY <1>1, <1>6, <1>7, <1>9, <1>10

(* An exception ends the calls down to the innermost outermost one; what is *)
(* left of the tree is as it was.                                          *)
LEMMA ThrowInv ==
  ASSUME NEW B, NEW given, TreeInv(B, given), NEW t \in AlgoThreads, NEW n, NEW a, At(t, n, a), Throws(t)
  PROVE  TreeInv(B, given)'
<1>1. PICK k, s, o, a1 :
           /\ Replaces(t, k, s) /\ k < Len(running[t]) /\ k \in Nat
           /\ \A i, j, c : ~New(k, s, i, j, c)
           /\ Frame(t, k + 1, o, a1) /\ Outermost(o)
           /\ promised' = IF IsTask(o) THEN [promised EXCEPT ![o] = "exception"] ELSE promised
           /\ phase' = IF o = 1 THEN "sort_threw" ELSE phase
  BY ThrowStack
<1>2. /\ TypesInv /\ BornInv(B, given) /\ QueuedInv(B, given) /\ FramesInv(B, given)
      /\ FrameOnceInv /\ ResultsInv(given) /\ HomesInv
  BY DEF TreeInv
<1>3. UNCHANGED <<jobs, dozing, chunk, divi_val, sorted>> /\ raised' = TRUE
  BY DEF Throws
<1>4. /\ running' \in [AlgoThreads -> Seq(Steps)]
      /\ \A u \in AlgoThreads : \A i, j, b : Frame(u, i, j, b)' <=> Kept(t, k, u, i) /\ Frame(u, i, j, b)
  BY <1>1, <1>2, StackPlaces
<1>5. o \in Jobs /\ o \in B /\ promised[o] = "none"
  BY <1>1, <1>2, Stack DEF FramesInv, FrameInv
<1>6. FrameOnceInv'
  BY <1>1, <1>2, KeepsOnce
<1>7. TypesInv'
  BY <1>1, <1>2, <1>3, <1>4, <1>5 DEF TypesInv, SortTypeOK
<1>8. \A u \in AlgoThreads : \A i, j, b : Frame(u, i, j, b)' => j # o /\ j \in Jobs /\ Underway(j)
  <2> SUFFICES ASSUME NEW u \in AlgoThreads, NEW i, NEW j, NEW b, Kept(t, k, u, i), Frame(u, i, j, b)
               PROVE  j # o /\ j \in Jobs /\ Underway(j)
    BY <1>4
  <2>1. j = o => u = t /\ i = k + 1
    BY <1>1, <1>2 DEF FrameOnceInv
  <2> QED
    BY <1>1, <1>2, <2>1, Stack DEF Underway, Kept
<1>9. /\ \A j \in Jobs : j # o => promised'[j] = promised[j]
      /\ \A j \in Jobs : Right(given, j)' <=> Right(given, j)
      /\ promised'[o] # "value" /\ (promised'[o] # "none" => IsTask(o))
  BY <1>1, <1>2, <1>3, <1>5 DEF TypesInv, Right
<1>10. BornInv(B, given)'
  BY <1>1, <1>2, <1>3, <1>5, <1>9 DEF BornInv
<1>11. \A i \in DOMAIN jobs : jobs[i] # o /\ jobs[i] \in Jobs
  BY <1>1, <1>2, <1>5 DEF QueuedInv, BornInv, Underway
<1>12. QueuedInv(B, given)'
  <2>1. \A j : Underway(j)' => Underway(j)
    BY <1>8 DEF Underway
  <2> QED
    BY <1>2, <1>3, <1>9, <1>11, <2>1 DEF QueuedInv, Fresh, Unborn
<1>13. FramesInv(B, given)'
  <2>1. ASSUME NEW u \in AlgoThreads, NEW i, NEW j, NEW b, Kept(t, k, u, i), Frame(u, i, j, b)
        PROVE  FrameInv(B, given, u, i, j, b)'
    <3>1. j \in Jobs /\ j # o /\ FrameInv(B, given, u, i, j, b)
      BY <1>2, <1>4, <1>8, <2>1 DEF FramesInv
    <3>2. ASSUME NEW m, Frame(t, k, m, Higher)
          PROVE  FALSE
      <4>1. PICK c : Frame(t, k + 1, 2 * m + 1, c)
        BY <1>2, <3>2 DEF FramesInv, FrameInv
      <4>2. o = 2 * m + 1 /\ m \in Jobs
        BY <1>1, <1>2, <3>2, <4>1, OneCall, Stack
      <4> QED
        BY <1>1, <4>2, Numbers
    <3>3. /\ b = Split => i = Len(running'[u])
          /\ b = Higher => \E c : Frame(u, i + 1, 2 * j + 1, c)'
          /\ ~Outermost(j) => \E m \in Jobs : j = 2 * m + 1 /\ Frame(u, i - 1, m, Higher)'
      <4>1. k # Len(running[t])
        BY <1>1, <1>2, Stack
      <4> QED
        BY <1>1, <2>1, <3>2, <4>1, KeptFrames
    <3>4. b = Lower => Right(given, 2 * j + 1)'
      BY <1>2, <1>9, <3>1 DEF FrameInv, IsCut, BornInv, Lower, Split
    <3> QED
      BY <1>3, <1>9, <3>1, <3>3, <3>4 DEF FrameInv, Fresh, Unborn, IsCut
  <2> QED
    BY <1>4, <2>1 DEF FramesInv
<1>14. ResultsInv(given)'
  BY <1>1, <1>2, <1>9, Numbers DEF ResultsInv
<1> QED
  BY <1>3, <1>6, <1>7, <1>10, <1>12, <1>13, <1>14 DEF TreeInv, HomesInv

-----------------------------------------------------------------------------
(* A call comes on top of the stack of t. *)
LEMMA BeginStack ==
  ASSUME TypesInv, NEW t \in AlgoThreads, NEW n \in Jobs, running' = [running EXCEPT ![t] = Begins(running[t], n)]
  PROVE  /\ Replaces(t, Len(running[t]), Begins(running[t], n)) /\ Len(running[t]) \in Nat
         /\ Len(Begins(running[t], n)) = Len(running[t]) + 1
         /\ \A i, j, b : New(Len(running[t]), Begins(running[t], n), i, j, b) <=>
                         i = Len(running[t]) + 1 /\ j = n /\ b = Split
<1> DEFINE L == Len(running[t])
           e == [job |-> n, at |-> Split]
           s == Begins(running[t], n)
<1>1. running[t] \in Seq(Steps) /\ L \in Nat /\ e \in Steps /\ s = Append(running[t], e)
  BY Stack DEF Steps, Begins, Split
<1>2. s \in Seq(Steps) /\ Len(s) = L + 1 /\ s[L + 1] = e /\ \A i \in 1 .. L : s[i] = running[t][i]
  <2>1. /\ Append(running[t], e) \in Seq(Steps) /\ Len(Append(running[t], e)) = L + 1
        /\ \A i \in 1 .. L : Append(running[t], e)[i] = running[t][i]
        /\ Append(running[t], e)[L + 1] = e
    BY <1>1, AppendProperties
  <2> HIDE DEF e, s
  <2> QED
    BY <1>1, <2>1
<1> HIDE DEF s
<1>3. Replaces(t, L, s)
  BY <1>1, <1>2 DEF Replaces, s
<1>4. ASSUME NEW i, NEW j, NEW b
      PROVE  New(L, s, i, j, b) <=> i = L + 1 /\ j = n /\ b = Split
  <2>1. i \in L + 1 .. Len(s) <=> i = L + 1
    BY <1>1, <1>2
  <2>2. e = [job |-> j, at |-> b] <=> j = n /\ b = Split
    OBVIOUS
  <2> HIDE DEF e
  <2> QED
    BY <1>2, <2>1, <2>2 DEF New
<1> QED
  BY <1>1, <1>2, <1>3, <1>4 DEF s

(* A call moves on to its higher chunk, whose call comes on top of it.     *)
LEMMA SplitStack ==
  ASSUME TypesInv, NEW t \in AlgoThreads, NEW n \in Jobs, 2 * n + 1 \in Jobs, At(t, n, Split),
         running' = [running EXCEPT ![t] = Begins(Moves(running[t], Higher), 2 * n + 1)]
  PROVE  \E k, s :
           /\ Replaces(t, k, s) /\ k \in Nat /\ Len(running[t]) = k + 1 /\ Len(s) = k + 2
           /\ \A i, j, b : New(k, s, i, j, b) <=> \/ i = k + 1 /\ j = n /\ b = Higher
                                                  \/ i = k + 2 /\ j = 2 * n + 1 /\ b = Split
<1> DEFINE L == Len(running[t])
           f == Front(running[t])
           e == [job |-> n, at |-> Higher]
           d == [job |-> 2 * n + 1, at |-> Split]
           m == Moves(running[t], Higher)
           s == Append(m, d)
<1>1. running[t] \in Seq(Steps) /\ L \in Nat /\ L >= 1 /\ Frame(t, L, n, Split) /\ e \in Steps /\ d \in Steps
  BY Stack, TopCall DEF Steps
<1>2. f \in Seq(Steps) /\ Len(f) = L - 1 /\ \A i \in 1 .. L - 1 : f[i] = running[t][i]
  <2>1. \A i \in 1 .. L - 1 : running[t][i] \in Steps
    BY <1>1, ElementOfSeq
  <2>2. /\ SubSeq(running[t], 1, L - 1) \in Seq(Steps)
        /\ Len(SubSeq(running[t], 1, L - 1)) = IF 1 <= L - 1 THEN L - 1 - 1 + 1 ELSE 0
        /\ \A i \in 1 .. L - 1 - 1 + 1 : SubSeq(running[t], 1, L - 1)[i] = running[t][1 + i - 1]
    BY <1>1, <2>1, SubSeqProperties
  <2> QED
    BY <1>1, <2>2 DEF Front
<1>3. m \in Seq(Steps) /\ Len(m) = L /\ m[L] = e /\ \A i \in 1 .. L - 1 : m[i] = running[t][i]
  <2>1. m = f \o <<e>>
    BY DEF Moves, At
  <2>2. <<e>> \in Seq(Steps) /\ Len(<<e>>) = 1 /\ <<e>>[1] = e
    BY <1>1
  <2> HIDE DEF f, e, m
  <2>3. /\ f \o <<e>> \in Seq(Steps) /\ Len(f \o <<e>>) = Len(f) + Len(<<e>>)
        /\ \A i \in 1 .. Len(f) + Len(<<e>>) : (f \o <<e>>)[i] = IF i <= Len(f) THEN f[i] ELSE <<e>>[i - Len(f)]
    BY <1>2, <2>2, ConcatProperties
  <2>4. L \in 1 .. L /\ ~(L <= L - 1) /\ L - (L - 1) = 1 /\ L - 1 + 1 = L
    BY <1>1
  <2>5. m[L] = e
    BY <1>2, <2>1, <2>2, <2>3, <2>4
  <2> QED
    BY <1>1, <1>2, <2>1, <2>2, <2>3, <2>5
<1>4. /\ s \in Seq(Steps) /\ Len(s) = L + 1 /\ s[L + 1] = d /\ s[L] = e
      /\ \A i \in 1 .. L - 1 : s[i] = running[t][i]
  <2> HIDE DEF m, d, e
  <2>1. /\ Append(m, d) \in Seq(Steps) /\ Len(Append(m, d)) = Len(m) + 1
        /\ \A i \in 1 .. Len(m) : Append(m, d)[i] = m[i]
        /\ Append(m, d)[Len(m) + 1] = d
    BY <1>1, <1>3, AppendProperties
  <2> QED
    BY <1>1, <1>3, <2>1
<1>5. running' = [running EXCEPT ![t] = s]
  BY DEF Begins, Split
<1> HIDE DEF s
<1>6. Replaces(t, L - 1, s)
  <2>1. L - 1 \in 0 .. L /\ Len(s) >= L - 1
    BY <1>1, <1>4
  <2> HIDE DEF e, d, m, f
  <2> QED
    BY <1>4, <1>5, <2>1 DEF Replaces
<1>7. ASSUME NEW i, NEW j, NEW b
      PROVE  New(L - 1, s, i, j, b) <=> \/ i = L /\ j = n /\ b = Higher
                                        \/ i = L + 1 /\ j = 2 * n + 1 /\ b = Split
  <2>1. i \in L - 1 + 1 .. Len(s) <=> i = L \/ i = L + 1
    BY <1>1, <1>4
  <2>2. /\ e = [job |-> j, at |-> b] <=> j = n /\ b = Higher
        /\ d = [job |-> j, at |-> b] <=> j = 2 * n + 1 /\ b = Split
    OBVIOUS
  <2>3. L # L + 1
    BY <1>1
  <2> HIDE DEF e, d
  <2> QED
    BY <1>4, <2>1, <2>2, <2>3 DEF New
<1>8. L - 1 \in Nat /\ L = L - 1 + 1 /\ L + 1 = L - 1 + 2
  BY <1>1
<1>9. Len(s) = L - 1 + 2
  BY <1>1, <1>4
<1> QED
  BY <1>6, <1>7, <1>8, <1>9

(* A thread that waits for a chunk, or a worker, runs the next task.       *)
LEMMA SortPullInv ==
  ASSUME NEW B, NEW given, TreeInv(B, given), NEW t \in AlgoThreads, Pulls(t), UNCHANGED sortVars,
         running[t] = << >> \/ \E n : At(t, n, Lower)
  PROVE  TreeInv(B, given)'
<1>1. /\ TypesInv /\ BornInv(B, given) /\ QueuedInv(B, given) /\ FramesInv(B, given)
      /\ FrameOnceInv /\ ResultsInv(given) /\ HomesInv
  BY DEF TreeInv
<1>0. PICK n, k, s : n = Head(jobs) /\ k = Len(running[t]) /\ s = Begins(running[t], n)
  OBVIOUS
<1>2. /\ jobs # << >> /\ jobs' = Tail(jobs) /\ running' = [running EXCEPT ![t] = s]
      /\ UNCHANGED <<phase, dozing, promised, chunk, divi_val, sorted, raised>>
  BY <1>0 DEF Pulls, sortVars
<1>3. /\ jobs \in Seq(Jobs) /\ jobs' \in Seq(Jobs) /\ n \in Jobs /\ n = jobs[1] /\ 1 \in DOMAIN jobs
      /\ \A i \in DOMAIN jobs' : i + 1 \in DOMAIN jobs /\ jobs'[i] = jobs[i + 1] /\ i + 1 # 1 /\ i \in Int
  <2>1. jobs \in Seq(Jobs) /\ Len(jobs) \in Nat \ {0} /\ DOMAIN jobs = 1 .. Len(jobs)
    BY <1>1, <1>2, EmptySeq, LenProperties DEF TypesInv
  <2>2. /\ n \in Jobs /\ Tail(jobs) \in Seq(Jobs) /\ Len(Tail(jobs)) = Len(jobs) - 1
        /\ \A i \in 1 .. Len(Tail(jobs)) : Tail(jobs)[i] = jobs[i + 1]
    BY <1>0, <1>2, <2>1, HeadTailProperties
  <2>3. DOMAIN jobs' = 1 .. Len(jobs) - 1
    BY <1>2, <2>2, LenProperties
  <2>4. n = jobs[1]
    BY <1>0, <2>1
  <2> QED
    BY <1>2, <2>1, <2>2, <2>3, <2>4
<1>4. /\ n \in B /\ promised[n] = "none" /\ IsTask(n) /\ Fresh(B, given, n) /\ ~Underway(n)
      /\ \A i \in DOMAIN jobs' : jobs'[i] # n
  BY <1>1, <1>3 DEF QueuedInv
<1>5. /\ Replaces(t, k, s) /\ k \in Nat /\ Len(s) = k + 1
      /\ \A i, j, b : New(k, s, i, j, b) <=> i = k + 1 /\ j = n /\ b = Split
  <2>1. running' = [running EXCEPT ![t] = Begins(running[t], n)]
    BY <1>0, <1>2
  <2>2. /\ Replaces(t, Len(running[t]), Begins(running[t], n)) /\ Len(running[t]) \in Nat
        /\ Len(Begins(running[t], n)) = Len(running[t]) + 1
        /\ \A i, j, b : New(Len(running[t]), Begins(running[t], n), i, j, b) <=>
                         i = Len(running[t]) + 1 /\ j = n /\ b = Split
    BY <1>1, <1>3, <2>1, BeginStack
  <2> QED
    BY <1>0, <2>2
<1>6. /\ running' \in [AlgoThreads -> Seq(Steps)] /\ running'[t] = s
      /\ \A u \in AlgoThreads : \A i, j, b :
              Frame(u, i, j, b)' <=> \/ Frame(u, i, j, b)
                                     \/ u = t /\ i = k + 1 /\ j = n /\ b = Split
      /\ \A u \in AlgoThreads : \A i, j, b : Frame(u, i, j, b) => Kept(t, k, u, i)
  <2>1. /\ running' \in [AlgoThreads -> Seq(Steps)] /\ running'[t] = s
        /\ \A u \in AlgoThreads : \A i, j, b :
              Frame(u, i, j, b)' <=> \/ Kept(t, k, u, i) /\ Frame(u, i, j, b)
                                     \/ u = t /\ New(k, s, i, j, b)
    BY <1>1, <1>5, StackPlaces
  <2>2. ASSUME NEW u \in AlgoThreads, NEW i, NEW j, NEW b, Frame(u, i, j, b)
        PROVE  Kept(t, k, u, i)
    <3>1. i \in 1 .. Len(running[u]) /\ Len(running[u]) \in Nat
      BY <1>1, <2>2, Stack
    <3> QED
      BY <1>0, <3>1 DEF Kept
  <2> QED
    BY <1>5, <2>1, <2>2
<1>7. FrameOnceInv'
  <2>1. \A u \in AlgoThreads : \A j, b : ~Frame(u, j, n, b)
    BY <1>4 DEF Underway
  <2> QED
    BY <1>1, <1>5, <2>1, KeepsOnce
<1>8. TypesInv'
  BY <1>1, <1>2, <1>3, <1>6 DEF TypesInv, SortTypeOK
<1>9. BornInv(B, given)' /\ ResultsInv(given)'
  BY <1>1, <1>2 DEF BornInv, ResultsInv, Right
<1>10. \A j : Underway(j)' <=> Underway(j) \/ j = n
  BY <1>6 DEF Underway
<1>11. QueuedInv(B, given)'
  <2>1. ASSUME NEW i \in DOMAIN jobs', NEW j, j = jobs'[i]
        PROVE  IsTask(j) /\ j \in B /\ promised'[j] = "none" /\ Fresh(B, given, j)' /\ ~Underway(j)'
    <3>1. /\ IsTask(j) /\ j \in B /\ promised[j] = "none"
          /\ Fresh(B, given, j) /\ ~Underway(j) /\ j # n
      BY <1>1, <1>3, <1>4, <2>1 DEF QueuedInv
    <3>2. Fresh(B, given, j)'
      BY <1>2, <3>1 DEF Fresh, Unborn
    <3>3. ~Underway(j)'
      BY <1>10, <3>1
    <3> QED
      BY <1>2, <3>1, <3>2, <3>3
  <2>2. ASSUME NEW i \in DOMAIN jobs', NEW j \in DOMAIN jobs', jobs'[i] = jobs'[j]
        PROVE  i = j
    <3>1. i + 1 = j + 1
      BY <1>1, <1>3, <2>2 DEF QueuedInv
    <3> QED
      BY <1>3, <3>1
  <2> QED
    BY <2>1, <2>2 DEF QueuedInv
<1>12. FramesInv(B, given)'
  <2>1. ASSUME NEW m, NEW b, Frame(t, k, m, b)
        PROVE  b = Lower
    <3>1. running[t] # << >>
      BY <1>0, <1>1, <2>1, Stack, EmptySeq
    <3>2. PICK j : At(t, j, Lower)
      BY <3>1
    <3> QED
      BY <1>0, <1>1, <2>1, <3>2, TopCall, OneCall
  <2>2. ASSUME NEW u \in AlgoThreads, NEW i, NEW j, NEW b, Frame(u, i, j, b)
        PROVE  FrameInv(B, given, u, i, j, b)'
    <3>1. FrameInv(B, given, u, i, j, b) /\ Kept(t, k, u, i)
      BY <1>1, <1>6, <2>2 DEF FramesInv
    <3>2. /\ b = Split => i = Len(running'[u])
          /\ b = Higher => \E c : Frame(u, i + 1, 2 * j + 1, c)'
          /\ ~Outermost(j) => \E m \in Jobs : j = 2 * m + 1 /\ Frame(u, i - 1, m, Higher)'
      <4>1. Lower # Split /\ Lower # Higher
        BY DEF Lower, Split, Higher
      <4>2. \A m : ~Frame(t, k, m, Split) /\ ~Frame(t, k, m, Higher)
        BY <2>1, <4>1
      <4> QED
        BY <1>0, <1>5, <2>2, <3>1, <4>2, KeptFrames
    <3> QED
      BY <1>2, <3>1, <3>2 DEF FrameInv, Fresh, Unborn, IsCut, Right
  <2>3. FrameInv(B, given, t, k + 1, n, Split)'
    <3>1. Outermost(n)
      BY <1>4 DEF Outermost
    <3> QED
      BY <1>2, <1>4, <1>5, <1>6, <3>1 DEF FrameInv, Fresh, Unborn, Split, Higher, Lower
  <2> QED
    BY <1>6, <2>2, <2>3 DEF FramesInv
<1>13. HomesInv'
  <2> SUFFICES ASSUME ~raised, NEW j \in Jobs, Underway(2 * j)' \/ \E i \in DOMAIN jobs' : jobs'[i] = 2 * j
               PROVE  Underway(j)
    BY <1>2, <1>10 DEF HomesInv
  <2>1. Underway(2 * j) \/ \E i \in DOMAIN jobs : jobs[i] = 2 * j
    BY <1>3, <1>10
  <2> QED
    BY <1>1, <2>1 DEF HomesInv
<1> QED
  BY <1>7, <1>8, <1>9, <1>11, <1>12, <1>13 DEF TreeInv

(* A call cuts its list in two, and the calls for both parts are born.     *)
LEMMA SplitInv ==
  ASSUME NEW B, NEW given, TreeInv(B, given), NEW t \in AlgoThreads, NEW n, SortSplit(t, n)
  PROVE  SortInv'
<1>1. /\ TypesInv /\ BornInv(B, given) /\ QueuedInv(B, given) /\ FramesInv(B, given)
      /\ FrameOnceInv /\ ResultsInv(given) /\ HomesInv
  BY DEF TreeInv
<1>2. /\ At(t, n, Split) /\ 2 * n + 1 <= MaxJobs
      /\ jobs' = Append(jobs, 2 * n)
      /\ running' = [running EXCEPT ![t] = Begins(Moves(running[t], Higher), 2 * n + 1)]
      /\ UNCHANGED <<phase, promised, sorted, raised>>
  BY DEF SortSplit, SubmitJob
<1>3. /\ Frame(t, Len(running[t]), n, Split) /\ n \in Jobs /\ n \in B /\ promised[n] = "none"
      /\ FrameInv(B, given, t, Len(running[t]), n, Split)
  BY <1>1, <1>2, TopCall, Stack DEF FramesInv, FrameInv
<1>4. chunk[n] = given[n] /\ 2 * n \notin B /\ 2 * n + 1 \notin B
  BY <1>3 DEF FrameInv, Fresh, Unborn
<1>5. /\ 2 * n \in Jobs /\ 2 * n + 1 \in Jobs /\ 2 * n # n /\ 2 * n + 1 # n /\ 2 * n # 2 * n + 1 /\ 2 * n + 1 # 1 /\ 2 * n # 1
      /\ \A j \in Jobs : 2 * j = 2 * n => j = n
      /\ \A j \in Jobs : 2 * j + 1 = 2 * n + 1 => j = n
      /\ \A j \in Jobs : 2 * j # 2 * n + 1 /\ 2 * j + 1 # 2 * n
  BY <1>2, <1>3, Numbers DEF Jobs
<1>6. PICK e \in chunk[n] :
        /\ divi_val' = [divi_val EXCEPT ![n] = e]
        /\ chunk' = [chunk EXCEPT ![n] = {}, ![2 * n] = Below(chunk[n], e), ![2 * n + 1] = Above(chunk[n], e)]
  BY DEF SortSplit, Below, Above
<1>7. PICK C, g : C = B \cup {2 * n, 2 * n + 1} /\
                  g = [given EXCEPT ![2 * n] = Below(given[n], e), ![2 * n + 1] = Above(given[n], e)]
  OBVIOUS
<1>8. /\ chunk' \in [Jobs -> SUBSET Elements] /\ divi_val' \in [Jobs -> {0} \cup Elements] /\ divi_val'[n] = e
      /\ \A j \in Jobs : j # n => divi_val'[j] = divi_val[j]
      /\ chunk'[2 * n] = Below(given[n], e) /\ chunk'[2 * n + 1] = Above(given[n], e)
      /\ \A j \in Jobs : j # n /\ j # 2 * n /\ j # 2 * n + 1 => chunk'[j] = chunk[j]
  <2>1. /\ chunk \in [Jobs -> SUBSET Elements] /\ divi_val \in [Jobs -> {0} \cup Elements] /\ e \in Elements
        /\ Below(given[n], e) \in SUBSET Elements /\ Above(given[n], e) \in SUBSET Elements
    BY <1>1, <1>3, <1>4, <1>6 DEF TypesInv, SortTypeOK, Below, Above
  <2> QED
    BY <1>3, <1>4, <1>5, <1>6, <2>1
<1>9. /\ g \in [Jobs -> SUBSET Elements] /\ e \in given[n] /\ g[n] = given[n]
      /\ g[2 * n] = Below(given[n], e) /\ g[2 * n + 1] = Above(given[n], e)
      /\ \A j \in Jobs : j # 2 * n /\ j # 2 * n + 1 => g[j] = given[j]
      /\ C \subseteq Jobs /\ B \subseteq C /\ \A j \in B : j \in Jobs /\ g[j] = given[j]
  <2>1. /\ given \in [Jobs -> SUBSET Elements] /\ B \subseteq Jobs /\ e \in given[n]
        /\ Below(given[n], e) \in SUBSET Elements /\ Above(given[n], e) \in SUBSET Elements
    BY <1>1, <1>3, <1>4, <1>6 DEF BornInv, Below, Above
  <2> QED
    BY <1>3, <1>4, <1>5, <1>7, <2>1
<1>10. PICK k, s :
           /\ Replaces(t, k, s) /\ k \in Nat /\ Len(running[t]) = k + 1 /\ Len(s) = k + 2
           /\ \A i, j, b : New(k, s, i, j, b) <=> \/ i = k + 1 /\ j = n /\ b = Higher
                                                  \/ i = k + 2 /\ j = 2 * n + 1 /\ b = Split
  BY <1>1, <1>2, <1>3, <1>5, SplitStack
<1>11. /\ running' \in [AlgoThreads -> Seq(Steps)] /\ running'[t] = s
       /\ \A u \in AlgoThreads : \A i, j, b :
              Frame(u, i, j, b)' <=> \/ Kept(t, k, u, i) /\ Frame(u, i, j, b)
                                     \/ u = t /\ i = k + 1 /\ j = n /\ b = Higher
                                     \/ u = t /\ i = k + 2 /\ j = 2 * n + 1 /\ b = Split
  BY <1>1, <1>10, StackPlaces
<1>12. ASSUME NEW u \in AlgoThreads, NEW i, NEW j, NEW b, Frame(u, i, j, b)
       PROVE  /\ j \in B /\ j # 2 * n /\ j # 2 * n + 1 /\ FrameInv(B, given, u, i, j, b)
              /\ Kept(t, k, u, i) => j # n
              /\ ~Kept(t, k, u, i) => u = t /\ i = k + 1 /\ j = n /\ b = Split
  <2>1. j \in B /\ FrameInv(B, given, u, i, j, b)
    BY <1>1, <1>12 DEF FramesInv, FrameInv
  <2>2. j = n => u = t /\ i = k + 1
    BY <1>1, <1>3, <1>10, <1>12 DEF FrameOnceInv
  <2>3. i \in 1 .. Len(running[u])
    BY <1>1, <1>12, Stack
  <2>4. Kept(t, k, u, i) => j # n
    BY <1>10, <2>2 DEF Kept
  <2>5. ASSUME ~Kept(t, k, u, i)
        PROVE  u = t /\ i = k + 1
    BY <1>10, <2>3, <2>5 DEF Kept
  <2> QED
    BY <1>3, <1>4, <1>10, <1>12, <2>1, <2>4, <2>5, OneCall
<1>13. FrameOnceInv'
  <2>1. ASSUME NEW i, NEW j, NEW b, New(k, s, i, j, b)
        PROVE  /\ \A u \in AlgoThreads : \A h, c : Frame(u, h, j, c) => ~Kept(t, k, u, h)
               /\ \A h, c : New(k, s, h, j, c) => h = i
    BY <1>5, <1>10, <1>12, <2>1
  <2> QED
    BY <1>1, <1>10, <2>1, KeepsOnce
<1>14. jobs \in Seq(Jobs) /\ jobs' \in Seq(Jobs) /\ Len(jobs) \in Nat
       /\ DOMAIN jobs = 1 .. Len(jobs) /\ DOMAIN jobs' = 1 .. Len(jobs) + 1
       /\ (\A i \in DOMAIN jobs : jobs'[i] = jobs[i]) /\ jobs'[Len(jobs) + 1] = 2 * n
  <2>1. jobs \in Seq(Jobs)
    BY <1>1 DEF TypesInv
  <2> QED
    BY <1>2, <1>5, <2>1, AppendProperties, LenProperties
<1>15. TypesInv'
  <2>1. dozing' \in [PoolWorkers -> {"awake", "window", "asleep"}]
    BY <1>1 DEF SortSplit, SubmitJob, TypesInv
  <2>2. SortTypeOK'
    BY <1>1, <1>2, <1>8 DEF SortTypeOK, TypesInv
  <2> QED
    BY <1>1, <1>2, <1>11, <1>14, <2>1, <2>2 DEF TypesInv
<1>16. BornInv(C, g)'
  <2>1. phase' # "none"
    BY <1>1, <1>2, <1>3 DEF BornInv
  <2>2. 1 \in C /\ g[1] = Elements
    BY <1>1, <1>2, <1>3, <1>9 DEF BornInv
  <2>3. ASSUME NEW j \in Jobs, 2 * j \in C \/ 2 * j + 1 \in C
        PROVE  j \in C
    BY <1>1, <1>3, <1>5, <1>7, <2>3 DEF BornInv
  <2>4. \A j \in Jobs : promised'[j] # "none" => j \in C /\ IsTask(j)
    BY <1>1, <1>2, <1>9 DEF BornInv
  <2> QED
    BY <1>9, <2>1, <2>2, <2>3, <2>4 DEF BornInv
<1>17. /\ \A j \in B : j # n /\ Fresh(B, given, j) => Fresh(C, g, j)'
       /\ \A j \in Jobs : j # n /\ IsCut(B, given, j) => IsCut(C, g, j)'
       /\ \A j \in B : Right(g, j)' <=> Right(given, j)
       /\ IsCut(C, g, n)'
  <2>1. ASSUME NEW j \in B, j # n, Fresh(B, given, j)
        PROVE  Fresh(C, g, j)'
    <3>1. chunk'[j] = g[j]
      BY <1>4, <1>8, <1>9, <2>1 DEF Fresh
    <3>2. 2 * j \notin C /\ 2 * j + 1 \notin C
      BY <1>5, <1>7, <1>9, <2>1 DEF Fresh, Unborn
    <3> QED
      BY <3>1, <3>2 DEF Fresh, Unborn
  <2>2. ASSUME NEW j \in Jobs, j # n, IsCut(B, given, j)
        PROVE  IsCut(C, g, j)'
    <3>1. /\ j \in B /\ 2 * j \in B /\ 2 * j + 1 \in B
          /\ divi_val[j] \in given[j] /\ divi_val'[j] = divi_val[j]
          /\ given[2 * j] = Below(given[j], divi_val[j])
          /\ given[2 * j + 1] = Above(given[j], divi_val[j])
      BY <1>1, <1>8, <2>2 DEF IsCut, BornInv
    <3> QED
      BY <1>9, <3>1 DEF IsCut
  <2>3. ASSUME NEW j \in B
        PROVE  Right(g, j)' <=> Right(given, j)
    BY <1>2, <1>9 DEF Right
  <2>4. IsCut(C, g, n)'
    BY <1>7, <1>8, <1>9 DEF IsCut
  <2> QED
    BY <2>1, <2>2, <2>3, <2>4
<1>18. /\ Fresh(C, g, 2 * n)' /\ Fresh(C, g, 2 * n + 1)'
       /\ promised'[2 * n] = "none" /\ promised'[2 * n + 1] = "none"
  <2>1. promised'[2 * n] = "none" /\ promised'[2 * n + 1] = "none"
    BY <1>1, <1>2, <1>4, <1>5 DEF BornInv
  <2>2. ASSUME NEW j \in {2 * n, 2 * n + 1}
        PROVE  2 * j \notin C /\ 2 * j + 1 \notin C
    <3>1. 2 * j \notin B /\ 2 * j + 1 \notin B
      BY <1>1, <1>4, <1>5 DEF BornInv
    <3>2. j # n /\ j \in Jobs
      BY <1>5
    <3> QED
      BY <1>5, <1>7, <3>1, <3>2
  <2>3. Unborn(C, 2 * n) /\ Unborn(C, 2 * n + 1)
    BY <2>2 DEF Unborn
  <2> QED
    BY <1>8, <1>9, <2>1, <2>3 DEF Fresh, Unborn
<1>19. \A j : Underway(j)' <=> Underway(j) \/ j = 2 * n + 1
  <2>1. ASSUME NEW j, Underway(j)
        PROVE  Underway(j)'
    <3>1. PICK u, i, b : u \in AlgoThreads /\ Frame(u, i, j, b)
      BY <2>1 DEF Underway
    <3>2. CASE Kept(t, k, u, i)
      BY <1>11, <3>1, <3>2 DEF Underway
    <3>3. CASE ~Kept(t, k, u, i)
      BY <1>11, <1>12, <3>1, <3>3 DEF Underway
    <3> QED
      BY <3>2, <3>3
  <2>2. Underway(2 * n + 1)' /\ Underway(n)
    BY <1>3, <1>11 DEF Underway
  <2>3. \A j : Underway(j)' => Underway(j) \/ j = n \/ j = 2 * n + 1
    BY <1>11 DEF Underway
  <2> QED
    BY <2>1, <2>2, <2>3
<1>20. QueuedInv(C, g)'
  <2>1. \A i \in DOMAIN jobs : jobs[i] \in B /\ jobs[i] # n /\ jobs[i] # 2 * n /\ jobs[i] # 2 * n + 1 /\ jobs[i] \in Jobs
    BY <1>1, <1>3, <1>4, <1>9 DEF QueuedInv, Underway
  <2>2. ASSUME NEW i \in DOMAIN jobs', NEW j, j = jobs'[i]
        PROVE  IsTask(j) /\ j \in C /\ promised'[j] = "none" /\ Fresh(C, g, j)' /\ ~Underway(j)'
    <3>1. CASE i \in DOMAIN jobs
      <4>1. j = jobs[i] /\ j \in B /\ j # n /\ j # 2 * n + 1
        BY <1>14, <2>1, <2>2, <3>1
      <4> QED
        BY <1>1, <1>2, <1>9, <1>17, <1>19, <3>1, <4>1 DEF QueuedInv
    <3>2. CASE i = Len(jobs) + 1
      <4>1. j = 2 * n
        BY <1>14, <2>2, <3>2
      <4>2. ~Underway(2 * n)
        BY <1>12 DEF Underway
      <4>3. IsTask(2 * n)
        BY <1>3, Numbers
      <4> QED
        BY <1>5, <1>7, <1>18, <1>19, <4>1, <4>2, <4>3
    <3> QED
      BY <1>14, <3>1, <3>2
  <2>3. ASSUME NEW i \in DOMAIN jobs', NEW j \in DOMAIN jobs', jobs'[i] = jobs'[j]
        PROVE  i = j
    <3>1. CASE i \in DOMAIN jobs /\ j \in DOMAIN jobs
      BY <1>1, <1>14, <2>3, <3>1 DEF QueuedInv
    <3> QED
      BY <1>14, <2>1, <2>3, <3>1
  <2> QED
    BY <2>2, <2>3 DEF QueuedInv
<1>21. FramesInv(C, g)'
  <2>1. ASSUME NEW u \in AlgoThreads, NEW i, NEW j, NEW b, Kept(t, k, u, i), Frame(u, i, j, b)
        PROVE  FrameInv(C, g, u, i, j, b)'
    <3>1. j \in B /\ j \in Jobs /\ j # n /\ FrameInv(B, given, u, i, j, b)
      BY <1>9, <1>12, <2>1
    <3>2. ASSUME NEW m, Frame(t, k, m, Higher)
          PROVE  New(k, s, k + 1, 2 * m + 1, Higher)
      <4>1. PICK c : Frame(t, k + 1, 2 * m + 1, c)
        BY <1>1, <3>2 DEF FramesInv, FrameInv
      <4> QED
        BY <1>3, <1>10, <4>1, OneCall
    <3>3. /\ b = Split => i = Len(running'[u])
          /\ b = Higher => \E c : Frame(u, i + 1, 2 * j + 1, c)'
          /\ ~Outermost(j) => \E m \in Jobs : j = 2 * m + 1 /\ Frame(u, i - 1, m, Higher)'
      <4>1. k # Len(running[t])
        BY <1>10
      <4>2. \A m : Frame(t, k, m, Higher) => \E c : New(k, s, k + 1, 2 * m + 1, c)
        BY <3>2
      <4> QED
        BY <1>10, <2>1, <4>1, <4>2, KeptFrames
    <3>4. b = Lower => Right(g, 2 * j + 1)'
      BY <1>17, <3>1 DEF FrameInv, IsCut, Lower, Split
    <3> QED
      BY <1>2, <1>9, <1>17, <3>1, <3>3, <3>4 DEF FrameInv
  <2>2. ASSUME NEW a, a = Higher
        PROVE  FrameInv(C, g, t, k + 1, n, a)'
    <3>1. Frame(t, k + 1 + 1, 2 * n + 1, Split)'
      <4>1. k + 1 + 1 = k + 2
        BY <1>10
      <4> QED
        BY <1>11, <4>1
    <3>2. ~Outermost(n) => \E m \in Jobs : n = 2 * m + 1 /\ Frame(t, (k + 1) - 1, m, Higher)'
      <4> SUFFICES ASSUME ~Outermost(n)
                   PROVE  \E m \in Jobs : n = 2 * m + 1 /\ Frame(t, (k + 1) - 1, m, Higher)'
        OBVIOUS
      <4>1. PICK m \in Jobs : n = 2 * m + 1 /\ Frame(t, (k + 1) - 1, m, Higher)
        BY <1>3, <1>10 DEF FrameInv
      <4>2. Kept(t, k, t, (k + 1) - 1)
        BY <1>10 DEF Kept
      <4> QED
        BY <1>11, <4>1, <4>2
    <3>3. n \in C /\ promised'[n] = "none" /\ Higher # Split /\ Higher # Lower
      BY <1>2, <1>3, <1>9 DEF Split, Higher, Lower
    <3>4. IsCut(C, g, n)'
      BY <1>17
    <3> QED
      <4>1. a # Split /\ a # Lower
        BY <2>2, <3>3
      <4> QED
        BY <3>1, <3>2, <3>3, <3>4, <4>1 DEF FrameInv
  <2>3. ASSUME NEW a, a = Split, NEW i, i = k + 2, NEW j, j = 2 * n + 1
        PROVE  FrameInv(C, g, t, i, j, a)'
    <3>1. Frame(t, (k + 2) - 1, n, Higher)'
      <4>1. (k + 2) - 1 = k + 1
        BY <1>10
      <4> QED
        BY <1>11, <4>1
    <3>2. k + 2 = Len(running'[t])
      BY <1>10, <1>11
    <3>3. 2 * n + 1 \in C
      BY <1>7
    <3>4. Split # Higher /\ Split # Lower
      BY DEF Split, Higher, Lower
    <3>5. Fresh(C, g, 2 * n + 1)' /\ promised'[2 * n + 1] = "none"
      BY <1>18
    <3>6. \E m \in Jobs : j = 2 * m + 1 /\ Frame(t, i - 1, m, Higher)'
      BY <1>3, <2>3, <3>1
    <3> QED
      <4>1. a # Higher /\ a # Lower
        BY <2>3, <3>4
      <4> QED
        BY <2>3, <3>2, <3>3, <3>5, <3>6, <4>1 DEF FrameInv
  <2> QED
    BY <1>11, <2>1, <2>2, <2>3 DEF FramesInv
<1>22. ResultsInv(g)'
  <2>1. ASSUME NEW j \in Jobs, promised'[j] = "value"
        PROVE  Right(g, j)'
    BY <1>1, <1>2, <1>17, <2>1 DEF ResultsInv, BornInv
  <2>2. phase' = "sorted" => Right(g, 1)'
    BY <1>1, <1>2, <1>5, <1>9, Numbers DEF ResultsInv, Right
  <2> QED
    BY <2>1, <2>2 DEF ResultsInv
<1>23. HomesInv'
  <2> SUFFICES ASSUME ~raised, NEW j \in Jobs, Underway(2 * j)' \/ \E i \in DOMAIN jobs' : jobs'[i] = 2 * j
               PROVE  Underway(j)
    BY <1>2, <1>19 DEF HomesInv
  <2>1. Underway(n)
    BY <1>3 DEF Underway
  <2>2. Underway(2 * j) \/ (\E i \in DOMAIN jobs : jobs[i] = 2 * j) \/ j = n
    BY <1>5, <1>14, <1>19
  <2> QED
    BY <1>1, <2>1, <2>2 DEF HomesInv
<1>24. TreeInv(C, g)'
  BY <1>13, <1>15, <1>16, <1>20, <1>21, <1>22, <1>23 DEF TreeInv
<1> QED
  BY <1>24 DEF SortInv

-----------------------------------------------------------------------------
(* Before the call. *)
LEMMA SortInitInv == SortInit => SortInv
<1> SUFFICES ASSUME SortInit
             PROVE  SortInv
  OBVIOUS
<1>1. /\ phase = "none" /\ jobs = << >> /\ dozing = [w \in PoolWorkers |-> "awake"]
      /\ running = [t \in AlgoThreads |-> << >>] /\ promised = [j \in Jobs |-> "none"]
      /\ chunk = [n \in Jobs |-> {}] /\ divi_val = [n \in Jobs |-> 0]
      /\ sorted = [n \in Jobs |-> << >>] /\ raised = FALSE
  BY DEF SortInit, AlgoPoolInit
<1> DEFINE given == [n \in Jobs |-> {}]
<1>2. DOMAIN jobs = {} /\ \A t \in AlgoThreads : DOMAIN running[t] = {}
  BY <1>1
<1>3. \A t \in AlgoThreads : \A i, n, a : ~Frame(t, i, n, a)
  BY <1>2 DEF Frame
<1>4. TypesInv
  <2>1. << >> \in Seq(Jobs) /\ << >> \in Seq(Steps) /\ << >> \in Seq(Elements)
    BY EmptySeq
  <2>2. SortTypeOK
    BY <1>1, <2>1 DEF SortTypeOK
  <2> QED
    BY <1>1, <2>1, <2>2 DEF TypesInv
<1>5. BornInv({}, given)
  BY <1>1 DEF BornInv
<1>6. QueuedInv({}, given) /\ FramesInv({}, given) /\ FrameOnceInv /\ HomesInv
  BY <1>2, <1>3 DEF QueuedInv, FramesInv, FrameOnceInv, HomesInv, Underway
<1>7. ResultsInv(given)
  BY <1>1 DEF ResultsInv
<1>8. TreeInv({}, given)
  BY <1>4, <1>5, <1>6, <1>7 DEF TreeInv
<1> QED
  BY <1>8 DEF SortInv

(* The user's call. *)
LEMMA SortCallInv ==
  ASSUME NEW B, NEW given, TreeInv(B, given), SortCall
  PROVE  SortInv'
<1>1. /\ TypesInv /\ BornInv(B, given) /\ QueuedInv(B, given) /\ FramesInv(B, given)
      /\ FrameOnceInv /\ ResultsInv(given) /\ HomesInv
  BY DEF TreeInv
<1>2. /\ phase = "none" /\ phase' = "sort" /\ chunk' = [chunk EXCEPT ![1] = Elements]
      /\ running' = [running EXCEPT ![Caller] = Begins(running[Caller], 1)]
      /\ UNCHANGED <<jobs, dozing, promised, divi_val, sorted, raised>>
  BY DEF SortCall
<1>3. /\ B = {} /\ given \in [Jobs -> SUBSET Elements] /\ 1 \in Jobs /\ Caller \in AlgoThreads
      /\ \A t \in AlgoThreads : \A i, n, a : ~Frame(t, i, n, a)
      /\ DOMAIN jobs = {} /\ \A j \in Jobs : promised[j] = "none"
  BY <1>1, <1>2, Numbers DEF BornInv, FramesInv, FrameInv, QueuedInv, AlgoThreads
<1>4. PICK C, g, s : C = {1} /\ g = [given EXCEPT ![1] = Elements] /\ s = Begins(running[Caller], 1)
  OBVIOUS
<1>5. g \in [Jobs -> SUBSET Elements] /\ g[1] = Elements
  BY <1>3, <1>4
<1>6. Len(running[Caller]) = 0
  <2>1. Len(running[Caller]) \in Nat /\ ~(1 \in 1 .. Len(running[Caller]))
    BY <1>1, <1>3, Stack
  <2> QED
    BY <2>1
<1>7. /\ Replaces(Caller, 0, s) /\ Len(s) = 1
      /\ \A i, j, b : New(0, s, i, j, b) <=> i = 1 /\ j = 1 /\ b = Split
  <2>1. /\ Replaces(Caller, Len(running[Caller]), Begins(running[Caller], 1))
        /\ Len(Begins(running[Caller], 1)) = Len(running[Caller]) + 1
        /\ \A i, j, b : New(Len(running[Caller]), Begins(running[Caller], 1), i, j, b) <=>
                        i = Len(running[Caller]) + 1 /\ j = 1 /\ b = Split
    BY <1>1, <1>2, <1>3, BeginStack
  <2> QED
    BY <1>4, <1>6, <2>1
<1>8. /\ running' \in [AlgoThreads -> Seq(Steps)] /\ running'[Caller] = s
      /\ \A u \in AlgoThreads : \A i, j, b :
              Frame(u, i, j, b)' <=> u = Caller /\ i = 1 /\ j = 1 /\ b = Split
  BY <1>1, <1>3, <1>7, StackPlaces
<1>9. TypesInv'
  BY <1>1, <1>2, <1>3, <1>8 DEF TypesInv, SortTypeOK
<1>10. BornInv(C, g)'
  BY <1>2, <1>3, <1>4, <1>5, Numbers DEF BornInv
<1>11. QueuedInv(C, g)' /\ FrameOnceInv' /\ HomesInv'
  <2>1. \A j : Underway(j)' => j = 1
    BY <1>8 DEF Underway
  <2>2. \A j \in Jobs : 2 * j # 1
    BY Numbers
  <2> QED
    BY <1>2, <1>3, <1>8, <2>1, <2>2 DEF QueuedInv, FrameOnceInv, HomesInv
<1>12. FramesInv(C, g)'
  <2>1. ASSUME NEW a, a = Split, NEW i, i = 1, NEW j, j = 1
        PROVE  FrameInv(C, g, Caller, i, j, a)'
    <3>1. a # Higher /\ a # Lower
      BY <2>1 DEF Split, Higher, Lower
    <3>2. Outermost(1)
      BY DEF Outermost
    <3>3. Fresh(C, g, j)'
      <4>1. chunk'[1] = Elements
        BY <1>1, <1>2, <1>3 DEF TypesInv, SortTypeOK
      <4>2. 2 * j \notin C /\ 2 * j + 1 \notin C
        BY <1>4, <2>1
      <4> QED
        BY <1>5, <2>1, <4>1, <4>2 DEF Fresh, Unborn
    <3>4. j \in C /\ promised'[j] = "none" /\ i = Len(running'[Caller])
      BY <1>2, <1>3, <1>4, <1>7, <1>8, <2>1
    <3> QED
      BY <2>1, <3>1, <3>2, <3>3, <3>4 DEF FrameInv
  <2> QED
    BY <1>8, <2>1 DEF FramesInv
<1>13. ResultsInv(g)'
  BY <1>2, <1>3 DEF ResultsInv
<1>14. TreeInv(C, g)'
  BY <1>9, <1>10, <1>11, <1>12, <1>13 DEF TreeInv
<1> QED
  BY <1>14 DEF SortInv

(* A state with the same calls, at the same steps, is as good. *)
LEMMA SameCalls ==
  ASSUME NEW B, NEW given, TreeInv(B, given), UNCHANGED <<phase, jobs, running, promised, sortVars>>,
         dozing' \in [PoolWorkers -> {"awake", "window", "asleep"}]
  PROVE  TreeInv(B, given)'
<1>1. UNCHANGED <<phase, jobs, running, promised, chunk, divi_val, sorted, raised>>
  BY DEF sortVars
<1>2. \A t, i, n, a : Frame(t, i, n, a)' <=> Frame(t, i, n, a)
  BY <1>1 DEF Frame
<1>3. /\ TypesInv /\ BornInv(B, given) /\ QueuedInv(B, given) /\ FramesInv(B, given)
      /\ FrameOnceInv /\ ResultsInv(given) /\ HomesInv
  BY DEF TreeInv
<1>4. \A n : (Underway(n)' <=> Underway(n)) /\ (Right(given, n)' <=> Right(given, n))
             /\ (IsCut(B, given, n)' <=> IsCut(B, given, n)) /\ (Fresh(B, given, n)' <=> Fresh(B, given, n))
  BY <1>1, <1>2 DEF Underway, Right, IsCut, Fresh, Unborn
<1>5. TypesInv' /\ BornInv(B, given)' /\ ResultsInv(given)' /\ HomesInv' /\ FrameOnceInv'
  BY <1>1, <1>2, <1>3, <1>4 DEF TypesInv, SortTypeOK, BornInv, ResultsInv, HomesInv, FrameOnceInv
<1>6. QueuedInv(B, given)'
  BY <1>1, <1>3, <1>4 DEF QueuedInv
<1>7. FramesInv(B, given)'
  <2> SUFFICES ASSUME NEW t \in AlgoThreads, NEW i, NEW n, NEW a, Frame(t, i, n, a)
               PROVE  FrameInv(B, given, t, i, n, a)'
    BY <1>2 DEF FramesInv
  <2>1. FrameInv(B, given, t, i, n, a)
    BY <1>3 DEF FramesInv
  <2> QED
    BY <1>1, <1>2, <1>4, <2>1 DEF FrameInv
<1> QED
  BY <1>5, <1>6, <1>7 DEF TreeInv

(* Every step keeps the tree. *)
LEMMA SortStepInv == SortInv /\ [SortNext]_<<algoPoolVars, sortVars>> => SortInv'
<1> SUFFICES ASSUME NEW B, NEW given, TreeInv(B, given), [SortNext]_<<algoPoolVars, sortVars>>
             PROVE  SortInv'
  BY DEF SortInv
<1>1. /\ TypesInv /\ BornInv(B, given) /\ QueuedInv(B, given) /\ FramesInv(B, given) /\ ResultsInv(given)
  BY DEF TreeInv
<1>2. TreeInv(B, given)' => SortInv'
  BY DEF SortInv
<1>3. CASE SortCall
  BY <1>3, SortCallInv
<1>4. ASSUME NEW t \in AlgoThreads, NEW n \in Jobs, SortEmpty(t, n)
      PROVE  SortInv'
  <2>1. At(t, n, Split) /\ chunk[n] = {} /\ Returns(t, n, << >>)
    BY <1>4 DEF SortEmpty
  <2>2. given[n] = {}
    BY <1>1, <2>1, TopCall DEF FramesInv, FrameInv, Fresh
  <2>3. InOrder(<< >>, given[n])
    BY <2>2 DEF InOrder
  <2> QED
    BY <1>2, <2>1, <2>3, ReturnInv
<1>5. ASSUME NEW t \in AlgoThreads, NEW n \in Jobs, SortSplit(t, n)
      PROVE  SortInv'
  BY <1>5, SplitInv
<1>6. ASSUME NEW t \in AlgoThreads, NEW n \in Jobs, SortHelps(t, n)
      PROVE  SortInv'
  <2>1. At(t, n, Lower) /\ Pulls(t) /\ UNCHANGED sortVars
    BY <1>6 DEF SortHelps
  <2> QED
    BY <1>2, <2>1, SortPullInv
<1>7. ASSUME NEW t \in AlgoThreads, NEW n \in Jobs, SortJoin(t, n)
      PROVE  SortInv'
  <2>1. At(t, n, Lower)
    BY <1>7 DEF SortJoin
  <2>2. CASE promised[2 * n] = "value" /\ Returns(t, n, sorted[2 * n] \o <<divi_val[n]>> \o sorted[2 * n + 1])
    <3>1. FrameInv(B, given, t, Len(running[t]), n, Lower)
      BY <1>1, <2>1, TopCall DEF FramesInv
    <3>2. IsCut(B, given, n) /\ Right(given, 2 * n + 1)
      BY <3>1 DEF FrameInv, Lower, Split
    <3>3. 2 * n \in Jobs /\ given[n] \in SUBSET Elements /\ divi_val[n] \in given[n]
      BY <1>1, <3>2 DEF IsCut, BornInv
    <3>4. /\ InOrder(sorted[2 * n], Below(given[n], divi_val[n]))
          /\ InOrder(sorted[2 * n + 1], Above(given[n], divi_val[n]))
      BY <1>1, <2>2, <3>2, <3>3 DEF ResultsInv, Right, IsCut
    <3>5. InOrder(sorted[2 * n] \o <<divi_val[n]>> \o sorted[2 * n + 1], given[n])
      BY <3>3, <3>4, Joined
    <3> QED
      BY <1>2, <2>1, <2>2, <3>5, ReturnInv
  <2>3. CASE Throws(t)
    BY <1>2, <2>1, <2>3, ThrowInv
  <2> QED
    BY <1>7, <2>2, <2>3 DEF SortJoin
<1>8. ASSUME NEW t \in AlgoThreads, NEW n \in Jobs, SortCompareThrows(t, n)
      PROVE  SortInv'
  <2>1. At(t, n, Split) /\ Throws(t)
    BY <1>8 DEF SortCompareThrows
  <2> QED
    BY <1>2, <2>1, ThrowInv
<1>9. ASSUME NEW w \in PoolWorkers, WorkerTakes(w), UNCHANGED sortVars
      PROVE  SortInv'
  <2>1. running[w] = << >> /\ Pulls(w) /\ w \in AlgoThreads
    BY <1>9 DEF WorkerTakes, OutOfWork, AlgoThreads
  <2> QED
    BY <1>2, <1>9, <2>1, SortPullInv
<1>10. ASSUME NEW w \in PoolWorkers, WorkerDozes(w), UNCHANGED sortVars
       PROVE  SortInv'
  <2>1. /\ UNCHANGED <<phase, jobs, running, promised>>
        /\ dozing' \in [PoolWorkers -> {"awake", "window", "asleep"}]
    BY <1>1, <1>10 DEF WorkerDozes, TypesInv
  <2> QED
    BY <1>2, <1>10, <2>1, SameCalls
<1>11. CASE UNCHANGED <<algoPoolVars, sortVars>>
  <2>1. UNCHANGED <<phase, jobs, running, promised, dozing>> /\ UNCHANGED sortVars
    BY <1>11 DEF algoPoolVars
  <2>2. dozing' \in [PoolWorkers -> {"awake", "window", "asleep"}]
    BY <1>1, <2>1 DEF TypesInv
  <2> QED
    BY <1>2, <2>1, <2>2, SameCalls
<1> QED
  BY <1>3, <1>4, <1>5, <1>6, <1>7, <1>8, <1>9, <1>10, <1>11 DEF SortNext, SortStep

-----------------------------------------------------------------------------
(* In every reachable state the calls make a tree, in which a task has its *)
(* part of the list and the call that gave it waits, and what a call       *)
(* returned is what it was given, in order.                                *)
THEOREM SortInvariance == SortSpec => []SortInv
<1>1. SortInit => SortInv
  BY SortInitInv
<1>2. SortInv /\ [SortNext]_<<algoPoolVars, sortVars>> => SortInv'
  BY SortStepInv
<1> QED
  BY <1>1, <1>2, PTL DEF SortSpec

(* The invariant gives the types. *)
LEMMA SortInvTypes == SortInv => AlgoPoolTypeOK /\ SortTypeOK
<1> SUFFICES ASSUME TypesInv
             PROVE  AlgoPoolTypeOK /\ SortTypeOK
  BY DEF SortInv, TreeInv
<1>1. Steps \subseteq [job : Jobs, at : Nat]
  BY DEF Steps, Split, Higher, Lower
<1>2. \A t \in AlgoThreads : running[t] \in Seq([job : Jobs, at : Nat])
  <2> SUFFICES ASSUME NEW t \in AlgoThreads
               PROVE  running[t] \in Seq([job : Jobs, at : Nat])
    OBVIOUS
  <2>1. running[t] \in Seq(Steps)
    BY Stack
  <2> QED
    BY <1>1, <2>1, SeqMonotonic
<1>3. running \in [AlgoThreads -> Seq([job : Jobs, at : Nat])]
  BY <1>2 DEF TypesInv
<1> QED
  BY <1>3 DEF TypesInv, AlgoPoolTypeOK, Sorting

(* What the calls of do_sort hold are lists of the elements (con_algo.h    *)
(* 14-51), and the pool keeps its types.                                   *)
THEOREM SortTypeCorrect == SortSpec => [](AlgoPoolTypeOK /\ SortTypeOK)
  BY SortInvTypes, SortInvariance, PTL

(* parallel_sort returns the list it was given, in order, for any list,    *)
(* any number of workers and any order in which threads run the calls; and *)
(* a task never outlives the list it refers to unless something threw.     *)
THEOREM SortsSoundly == SortSpec => []SortIsSound
<1>1. SortInv => SortIsSound
  <2> SUFFICES ASSUME NEW B, NEW given, TreeInv(B, given)
               PROVE  SortIsSound
    BY DEF SortInv
  <2>1. TypesInv /\ BornInv(B, given) /\ FramesInv(B, given) /\ ResultsInv(given) /\ HomesInv
    BY DEF TreeInv
  <2>2. ASSUME phase = "sorted"
        PROVE  /\ Len(sorted[1]) = Cardinality(Elements) /\ ToSet(sorted[1]) = Elements
               /\ \A i, j \in DOMAIN sorted[1] : i < j => Keys[sorted[1][i]] <= Keys[sorted[1][j]]
    <3>1. InOrder(sorted[1], given[1])
      BY <2>1, <2>2 DEF ResultsInv, Right
    <3>2. given[1] = Elements
      BY <2>1, <2>2 DEF BornInv
    <3> QED
      BY <3>1, <3>2, AsLong DEF InOrder
  <2>3. ASSUME ~raised, NEW n \in Jobs, IsTask(n), Pending(n)
        PROVE  \E t \in AlgoThreads : Frames(t, n \div 2) # {}
    <3>1. PICK m \in Nat : n = 2 * m /\ m = n \div 2
      <4>1. n \in Nat /\ n = 2 * (n \div 2) /\ n \div 2 \in Nat
        BY <2>3, Numbers DEF IsTask
      <4> QED
        BY <4>1
    <3>2. m \in Jobs
      BY <3>1, Numbers DEF Jobs
    <3>3. Underway(n) \/ \E i \in DOMAIN jobs : jobs[i] = n
      <4>1. ASSUME NEW t \in AlgoThreads, Frames(t, n) # {}
            PROVE  Underway(n)
        <5>1. PICK i \in DOMAIN running[t] : running[t][i].job = n
          BY <4>1 DEF Frames
        <5>2. PICK j \in Jobs, a \in {Split, Higher, Lower} : Frame(t, i, j, a)
          BY <2>1, <5>1, Stack
        <5>3. j = n
          BY <2>1, <5>1, <5>2, Stack
        <5> QED
          BY <5>2, <5>3 DEF Underway
      <4>2. Contains(jobs, n) => \E i \in DOMAIN jobs : jobs[i] = n
        BY <2>1, LenProperties DEF TypesInv, Contains
      <4> QED
        BY <2>3, <4>1, <4>2 DEF Pending
    <3>4. PICK t, i, a : t \in AlgoThreads /\ Frame(t, i, m, a)
      BY <2>1, <2>3, <3>1, <3>2, <3>3 DEF HomesInv, Underway
    <3>5. i \in DOMAIN running[t] /\ running[t][i].job = m
      BY <2>1, <3>4, Stack DEF Frame
    <3>6. i \in Frames(t, m)
      BY <3>5 DEF Frames
    <3> QED
      BY <3>1, <3>4, <3>6
  <2> QED
    BY <2>2, <2>3 DEF SortIsSound
<1> QED
  BY <1>1, SortInvariance, PTL
=============================================================================
