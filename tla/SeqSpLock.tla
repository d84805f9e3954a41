----------------------------- MODULE SeqSpLock -----------------------------
(***************************************************************************)
(* seq_sp_lock (rw_seqlock.h): a spin lock for the writers and a counter   *)
(* that is odd while a writer is inside.  A reader works without a lock    *)
(* and reads again when r_seqretry says so.  The code protects two words;  *)
(* each write section changes both.                                        *)
(***************************************************************************)
EXTENDS LockThreads, Naturals

CONSTANTS SeqWidth      \* the values of seq_cnt, 2^64 in the code

ASSUME SeqWidthAssumption == SeqWidth \in Nat /\ SeqWidth > 1

VARIABLES sp_lock, seq_cnt,
          word,      \* word[i]: the i-th protected word
          seq_pc,        \* the next step of thread t
          seq,       \* seq[t]: what r_seqbegin returned
          got,       \* got[t]: the words reader t has read
          finished   \* history: a write section ended since reader t began

seqVars == <<sp_lock, seq_cnt, word, seq_pc, seq, got, finished>>

Nothing == [i \in 1 .. 2 |-> 0]

SeqInit ==
  /\ sp_lock = FALSE /\ seq_cnt = 0
  /\ word = Nothing
  /\ seq_pc = [t \in Threads |-> "out"]
  /\ seq = [t \in Threads |-> 0]
  /\ got = [t \in Threads |-> Nothing]
  /\ finished = [t \in Threads |-> FALSE]

reader == <<seq, got, finished>>

(* A thread begins a write section, or the read loop. *)
SeqBegin(t) ==
  /\ Move(seq_pc, t, "out", "w_cas") \/ Move(seq_pc, t, "out", "r_begin")
  /\ UNCHANGED <<sp_lock, seq_cnt, word, reader>>

-----------------------------------------------------------------------------
(* w_seqlock, the write section, w_sequnlock *)

SeqCas(t) ==
  /\ ~sp_lock
  /\ Move(seq_pc, t, "w_cas", "w_add")
  /\ sp_lock' = TRUE
  /\ UNCHANGED <<seq_cnt, word, reader>>

WAdd(t) ==
  /\ Move(seq_pc, t, "w_add", "write1")
  /\ seq_cnt' = (seq_cnt + 1) % SeqWidth
  /\ UNCHANGED <<sp_lock, word, reader>>

Write(t) ==
  /\ \/ Move(seq_pc, t, "write1", "write2") /\ word' = [word EXCEPT ![1] = 1 - @]
     \/ Move(seq_pc, t, "write2", "w_sub") /\ word' = [word EXCEPT ![2] = 1 - @]
  /\ UNCHANGED <<sp_lock, seq_cnt, reader>>

(* The counter is decremented, not incremented. *)
WSub(t) ==
  /\ Move(seq_pc, t, "w_sub", "w_free")
  /\ seq_cnt' = (seq_cnt + SeqWidth - 1) % SeqWidth
  /\ finished' = [r \in Threads |-> TRUE]
  /\ UNCHANGED <<sp_lock, word, seq, got>>

WFree(t) ==
  /\ Move(seq_pc, t, "w_free", "out")
  /\ sp_lock' = FALSE
  /\ UNCHANGED <<seq_cnt, word, reader>>

-----------------------------------------------------------------------------
(* do { seq = r_seqbegin(); read; } while (r_seqretry(seq)) *)

Odd(n) == n % 2 = 1

RBegin(t) ==
  /\ ~Odd(seq_cnt)
  /\ Move(seq_pc, t, "r_begin", "read1")
  /\ seq' = [seq EXCEPT ![t] = seq_cnt]
  /\ finished' = [finished EXCEPT ![t] = FALSE]
  /\ UNCHANGED <<sp_lock, seq_cnt, word, got>>

SeqRead(t) ==
  /\ \/ Move(seq_pc, t, "read1", "read2") /\ got' = [got EXCEPT ![t][1] = word[1]]
     \/ Move(seq_pc, t, "read2", "r_retry") /\ got' = [got EXCEPT ![t][2] = word[2]]
  /\ UNCHANGED <<sp_lock, seq_cnt, word, seq, finished>>

(* Mutant: r_seqretry asks for a retry only when the counter is even. *)
RRetryOnlyEven(t) ==
  /\ \/ ~Odd(seq_cnt) /\ seq_cnt # seq[t] /\ Move(seq_pc, t, "r_retry", "r_begin")
     \/ (Odd(seq_cnt) \/ seq_cnt = seq[t]) /\ Move(seq_pc, t, "r_retry", "accepted")
  /\ UNCHANGED <<sp_lock, seq_cnt, word, reader>>

RRetry(t) ==
  /\ \/ (Odd(seq_cnt) \/ seq_cnt # seq[t]) /\ Move(seq_pc, t, "r_retry", "r_begin")
     \/ ~Odd(seq_cnt) /\ seq_cnt = seq[t] /\ Move(seq_pc, t, "r_retry", "accepted")
  /\ UNCHANGED <<sp_lock, seq_cnt, word, reader>>

(* The loop ends: the reader uses what it read. *)
RDone(t) ==
  /\ Move(seq_pc, t, "accepted", "out")
  /\ got' = [got EXCEPT ![t] = Nothing]
  /\ UNCHANGED <<sp_lock, seq_cnt, word, seq, finished>>

SeqRun(t) ==
  \/ SeqCas(t) \/ WAdd(t) \/ Write(t) \/ WSub(t) \/ WFree(t)
  \/ RBegin(t) \/ SeqRead(t) \/ RRetry(t) \/ RDone(t)

SeqNext == \E t \in Threads : SeqBegin(t) \/ SeqRun(t)

SeqSpec == SeqInit /\ [][SeqNext]_seqVars
SeqFairness == \A t \in Threads : WF_seqVars(SeqRun(t))

-----------------------------------------------------------------------------
SeqLabels == {"out", "w_cas", "w_add", "write1", "write2", "w_sub", "w_free",
           "r_begin", "read1", "read2", "r_retry", "accepted"}
Section == {"write1", "write2", "w_sub"}
HasLock == Section \cup {"w_add", "w_free"}

(* Every variable keeps its type. *)
SeqTypeOK ==
  /\ sp_lock \in BOOLEAN
  /\ seq_cnt \in 0 .. SeqWidth - 1
  /\ word \in [1 .. 2 -> 0 .. 1]
  /\ seq_pc \in [Threads -> SeqLabels]
  /\ seq \in [Threads -> 0 .. SeqWidth - 1]
  /\ got \in [Threads -> [1 .. 2 -> 0 .. 1]]
  /\ finished \in [Threads -> BOOLEAN]

(* One writer at a time, and the counter is odd exactly while it is in its *)
(* section.  (It is never above 1: the code decrements it.)                *)
SeqWritersExclude ==
  /\ \A s, t \in Threads : seq_pc[s] \in HasLock /\ seq_pc[t] \in HasLock => s = t
  /\ Odd(seq_cnt) <=> \E t \in Threads : seq_pc[t] \in Section

(* A read that is accepted saw both words of one write section, unless a   *)
(* whole section ended while it was reading.                               *)
SeqSnapshotUnlessOverrun ==
  \A t \in Threads :
    seq_pc[t] = "accepted" /\ ~finished[t] => got[t][1] = got[t][2]

(* A read that is accepted saw both words of one write section: that is    *)
(* what the read loop of the comment in rw_seqlock.h:30-38 is for.         *)
SeqNoTornRead == \A t \in Threads : seq_pc[t] = "accepted" => got[t][1] = got[t][2]

(* A reader gets through, if the writers stop. *)
SeqReadersFinish == \A t \in Threads : (seq_pc[t] = "r_begin") ~> (seq_pc[t] = "accepted")
=============================================================================
