-------------------------- MODULE CompositorProofs --------------------------
(***************************************************************************)
(* Proofs about Compositor, for every number of workers, set of buffers,   *)
(* set of sizes and number of feeds.                                       *)
(***************************************************************************)
EXTENDS Compositor, SequenceTheorems, TLAPS

(* The stages of a job that has a worker to come, or on_work_done. *)
InFlight == {"queued", "running", "asleep", "finished"}

(* Sequence numbers up to seq_tail are done, the ones after seq_head are    *)
(* not in use, and those between are in flight or were lost.  At most one   *)
(* completion is due, that of the next job.                                 *)
JobOrder ==
  /\ head <= fed
  /\ \A k \in Seqs :
       /\ k <= tail => job[k].st = "done"
       /\ tail < k /\ k <= head => job[k].st \in InFlight \cup {"lost"}
       /\ head < k => job[k].st = "none"
       /\ job[k].st # "none" => job[k].src \in Seqs /\ job[k].buf \in Buffers
  /\ posted \in {<< >>, <<tail + 1>>}
  /\ posted # << >> => tail + 1 \in Seqs /\ job[tail + 1].st = "finished"

(* The pool's queue holds the jobs that no worker has taken, in order. *)
WorkQueue ==
  /\ \A i \in 1..Len(work) : job[work[i]].st = "queued"
  /\ \A i, j \in 1..Len(work) : i < j => work[i] < work[j]

(* A frame belongs to its job as long as that is in flight, and then to     *)
(* the encoder, with its side data in the list.                             *)
Holding ==
  \A k \in Seqs :
    /\ job[k].st \in InFlight => holders[k] = {"job"}
    /\ holders[k] # {} =>
         \/ holders[k] = {"job"} /\ job[k].st \in InFlight
         \/ holders[k] = {"encoder"} /\ job[k].st = "done" /\ k \in list

(* The frames that are held, and the buffers that they use. *)
Held == {k \in Seqs : holders[k] # {}}
Used == {job[k].buf : k \in Held}

(* What is true of buffers bufs, of which q wait in the buffer pool of p,   *)
(* used are drawn into or encoded and lost have been leaked.                *)
PoolOK(bufs, q, p, used, lost) ==
  /\ p \in [size : Sizes \cup {0}, gen : Nat \ {0}]
  /\ q \in Seq(Buffers)
  /\ bufs \in [Buffers -> [size : Sizes \cup {0}, pool : {0, p.gen}]]
  /\ used \subseteq Buffers /\ lost \subseteq Buffers
  /\ used \cap lost = {}
  /\ \A i, j \in 1..Len(q) : i # j => q[i] # q[j]
  /\ \A i \in 1..Len(q) :
       q[i] \notin used \cup lost /\ bufs[q[i]] = [size |-> p.size, pool |-> 0]
  /\ \A b \in Buffers :
       bufs[b].size # 0 <=> b \in used \cup lost \/ \E i \in 1..Len(q) : q[i] = b
  /\ \A b \in Buffers :
       bufs[b].pool # 0 => b \in used \cup lost /\ bufs[b].size = p.size

Pooled == PoolOK(buf, queue, pool, Used, leaked)

(* The buffers of a set have the same sizes before and after. *)
SameSizes(bufs, new, set) == \A b \in set : new[b].size = bufs[b].size

(* Frames that are held have buffers of their own, of the right size. *)
Separate ==
  \A k \in Held :
    /\ buf[job[k].buf].size = job[k].size
    /\ \A j \in Held : j # k => job[j].buf # job[k].buf

(* Composites are handed over in the order they were accepted: those that   *)
(* were, and then those in flight, up to the first that was lost.           *)
NoneLost(k) == \A j \in Seqs : tail < j /\ j <= k => job[j].st # "lost"

Order ==
  /\ Len(delivered) <= Len(accepted)
  /\ \A i \in 1..Len(delivered) : delivered[i] = accepted[i]
  /\ \A k \in Seqs : tail < k /\ k <= head /\ NoneLost(k) =>
       /\ Len(delivered) + (k - tail) <= Len(accepted)
       /\ accepted[Len(delivered) + (k - tail)] = job[k].src
  /\ NoneLost(head) => Len(accepted) = Len(delivered) + (head - tail)

Ends == state = "freed" => tail = head

IInv ==
  /\ TypeOK /\ JobOrder /\ WorkQueue /\ Holding /\ Pooled /\ Separate
  /\ unlinked \subseteq Lost
  /\ state = "open" => Order
  /\ Ends

-----------------------------------------------------------------------------
(* The pools. *)

(* nvnc_frame_pool_resize leaves the buffers of frames and the leaked ones  *)
(* alone, but for the pool that they observe.                               *)
LEMMA ResizeOK ==
  ASSUME Pooled, NEW s \in Sizes
  PROVE  /\ PoolOK(BufAfter(s), QueueAfter(s), PoolAfter(s), Used, leaked)
         /\ \A b \in Used \cup leaked : BufAfter(s)[b].size = buf[b].size
         /\ PoolAfter(s).size = s
<1> DEFINE waits(b) == \E i \in 1..Len(queue) : queue[i] = b
<1>1. CASE ~Resized(s)
  BY <1>1 DEF Resized, BufAfter, QueueAfter, PoolAfter, PoolOK, Pooled
<1>2. CASE Resized(s)
  <2>1. BufAfter(s) = PoolDestroyed(buf) /\ QueueAfter(s) = << >>
        /\ PoolAfter(s) = [size |-> s, gen |-> pool.gen + 1]
    BY <1>2 DEF BufAfter, QueueAfter, PoolAfter
  <2>2. \A b \in Buffers : b \in Waiting <=> waits(b)
    BY DEF Waiting, PoolOK, Pooled
  <2>3. \A b \in Buffers :
          PoolDestroyed(buf)[b] =
            IF waits(b) THEN NoBuf ELSE [size |-> buf[b].size, pool |-> 0]
    BY <2>2 DEF PoolDestroyed, PoolOK, Pooled
  <2>4. DOMAIN PoolDestroyed(buf) = Buffers
    BY DEF PoolDestroyed
  <2>5. PoolDestroyed(buf) \in [Buffers -> [size : Sizes \cup {0}, pool : {0, pool.gen + 1}]]
    BY <2>2 DEF PoolDestroyed, PoolOK, Pooled, NoBuf
  <2>6. pool.gen + 1 \in Nat \ {0}
    BY DEF PoolOK, Pooled
  <2> QED
    BY <2>1, <2>3, <2>5, <2>6, SMTT(40) DEF PoolOK, Pooled, NoBuf
<1> QED BY <1>1, <1>2

(* compositor_destroy lets the buffers go that wait in the pool. *)
LEMMA DestroyOK ==
  ASSUME Pooled
  PROVE  /\ PoolOK(PoolDestroyed(buf), << >>, pool, Used, leaked)
         /\ \A b \in Used \cup leaked : PoolDestroyed(buf)[b].size = buf[b].size
<1> DEFINE waits(b) == \E i \in 1..Len(queue) : queue[i] = b
<1>1. \A b \in Buffers : b \in Waiting <=> waits(b)
  BY DEF Waiting, PoolOK, Pooled
<1>2. \A b \in Buffers :
        PoolDestroyed(buf)[b] =
          IF waits(b) THEN NoBuf ELSE [size |-> buf[b].size, pool |-> 0]
  BY <1>1 DEF PoolDestroyed, PoolOK, Pooled
<1>3. PoolDestroyed(buf) \in [Buffers -> [size : Sizes \cup {0}, pool : {0, pool.gen}]]
  BY <1>1 DEF PoolDestroyed, PoolOK, Pooled, NoBuf
<1> QED
  BY <1>2, <1>3 DEF PoolOK, Pooled, NoBuf

(* nvnc_buffer_pool_acquire gives out a buffer that nobody uses, of the     *)
(* size that the pool has been brought to.                                  *)
LEMMA AcquireOK ==
  ASSUME Pooled, NEW s \in Sizes, NEW b \in Buffers, b \in Acquirable(s)
  PROVE  /\ PoolOK(AcquiredBuf(b, s), QueueAfterAcquire(s), PoolAfter(s),
                   Used \cup {b}, leaked)
         /\ b \notin Used \cup leaked
         /\ AcquiredBuf(b, s)[b] = [size |-> s, pool |-> PoolAfter(s).gen]
         /\ \A c \in Used \cup leaked : AcquiredBuf(b, s)[c].size = buf[c].size
<1>0. /\ PoolOK(BufAfter(s), QueueAfter(s), PoolAfter(s), Used, leaked)
      /\ \A c \in Used \cup leaked : BufAfter(s)[c].size = buf[c].size
      /\ PoolAfter(s).size = s
  BY ResizeOK
<1> DEFINE bufs == BufAfter(s)
           q == QueueAfter(s)
           p == PoolAfter(s)
           left == QueueAfterAcquire(s)
<1>1. /\ PoolOK(bufs, q, p, Used, leaked)
      /\ p.size = s
      /\ \A c \in Used \cup leaked : bufs[c].size = buf[c].size
  BY <1>0
<1>2. left = IF q = << >> THEN << >> ELSE Tail(q)
  BY DEF QueueAfterAcquire
<1>3. b \in IF q # << >> THEN {Head(q)} ELSE {c \in Buffers : bufs[c].size = 0}
  BY DEF Acquirable
<1>4. AcquiredBuf(b, s) = [bufs EXCEPT ![b] =
         [size |-> IF bufs[b].size = 0 THEN s ELSE bufs[b].size, pool |-> p.gen]]
  BY DEF AcquiredBuf
<1> DEFINE new == AcquiredBuf(b, s)
<1> HIDE DEF bufs, q, p, left
<1>5. s # 0
  BY CompositorConstants
<1>6. /\ b \notin Used \cup leaked
      /\ (IF bufs[b].size = 0 THEN s ELSE bufs[b].size) = s
      /\ left \in Seq(Buffers)
      /\ \A i \in 1..Len(left) : left[i] # b /\ left[i] \notin Used \cup leaked
             /\ bufs[left[i]] = [size |-> p.size, pool |-> 0]
      /\ \A i, j \in 1..Len(left) : i # j => left[i] # left[j]
      /\ \A c \in Buffers \ {b} :
           (\E i \in 1..Len(left) : left[i] = c) <=> (\E i \in 1..Len(q) : q[i] = c)
  <2>1. CASE q = << >>
    BY <2>1, <1>1, <1>2, <1>3 DEF PoolOK
  <2>2. CASE q # << >>
    <3>1. b = q[1] /\ 1 \in 1..Len(q)
      BY <2>2, <1>1, <1>3 DEF PoolOK
    <3>2. left \in Seq(Buffers) /\ Len(left) = Len(q) - 1
          /\ \A i \in 1..Len(left) : left[i] = q[i + 1] /\ i + 1 \in 1..Len(q) /\ i + 1 # 1
      BY <2>2, <1>1, <1>2, HeadTailProperties DEF PoolOK
    <3>0. /\ \A i, j \in 1..Len(q) : i # j => q[i] # q[j]
          /\ \A i \in 1..Len(q) : q[i] \notin Used \cup leaked
          /\ \A i \in 1..Len(q) : bufs[q[i]] = [size |-> p.size, pool |-> 0]
          /\ Len(q) \in Nat
      BY <1>1 DEF PoolOK
    <3>3. \A c \in Buffers \ {b} : \A i \in 1..Len(q) :
            q[i] = c => i - 1 \in 1..Len(left) /\ left[i - 1] = c
      BY <3>1, <3>2, <1>1 DEF PoolOK
    <3>4. \A i, j \in 1..Len(left) : i # j => left[i] # left[j]
      BY <3>0, <3>2
    <3>5. \A i \in 1..Len(left) : left[i] # b /\ left[i] \notin Used \cup leaked
             /\ bufs[left[i]] = [size |-> p.size, pool |-> 0]
      BY <3>0, <3>1, <3>2
    <3>6. b \notin Used \cup leaked /\ bufs[b].size = s
      BY <3>1, <1>1 DEF PoolOK
    <3>7. \A c \in Buffers \ {b} :
            (\E i \in 1..Len(left) : left[i] = c) <=> (\E i \in 1..Len(q) : q[i] = c)
      BY <3>2, <3>3, SMTT(40)
    <3> QED
      BY <3>2, <3>4, <3>5, <3>6, <3>7
  <2> QED BY <2>1, <2>2
<1>7. /\ new[b] = [size |-> s, pool |-> p.gen]
      /\ \A c \in Buffers \ {b} : new[c] = bufs[c]
      /\ new \in [Buffers -> [size : Sizes \cup {0}, pool : {0, p.gen}]]
  BY <1>1, <1>4, <1>6 DEF PoolOK
<1> HIDE DEF new
<1>8. PoolOK(new, left, p, Used \cup {b}, leaked)
  <2>1. /\ p \in [size : Sizes \cup {0}, gen : Nat \ {0}]
        /\ Used \cup {b} \subseteq Buffers /\ leaked \subseteq Buffers
        /\ (Used \cup {b}) \cap leaked = {}
    BY <1>1, <1>6 DEF PoolOK
  <2>2. \A i \in 1..Len(left) : left[i] \notin (Used \cup {b}) \cup leaked
          /\ new[left[i]] = [size |-> p.size, pool |-> 0]
    BY <1>6, <1>7
  <2>3. \A c \in Buffers : new[c].size # 0 <=>
          c \in (Used \cup {b}) \cup leaked \/ \E i \in 1..Len(left) : left[i] = c
    <3>1. CASE TRUE
      <4> TAKE c \in Buffers
      <4>1. CASE c = b
        BY <4>1, <1>5, <1>7
      <4>2. CASE c # b
        BY <4>2, <1>1, <1>6, <1>7 DEF PoolOK
      <4> QED BY <4>1, <4>2
    <3> QED BY <3>1
  <2>4. \A c \in Buffers :
          new[c].pool # 0 => c \in (Used \cup {b}) \cup leaked /\ new[c].size = p.size
    BY <1>1, <1>7 DEF PoolOK
  <2> QED
    BY <1>6, <1>7, <2>1, <2>2, <2>3, <2>4 DEF PoolOK
<1>9. \A c \in Used \cup leaked : new[c].size = buf[c].size
  <2>1. \A c \in Used \cup leaked : c \in Buffers \ {b}
    BY <1>1, <1>6 DEF PoolOK
  <2> QED BY <1>1, <1>7, <2>1
<1> QED
  BY <1>6, <1>7, <1>8, <1>9 DEF new, left, p

(* nvnc_buffer_unref of a buffer in use puts it back or frees it. *)
LEMMA ReleaseOK ==
  ASSUME NEW bufs, NEW q, NEW p, NEW used, NEW lost, NEW b \in used,
         PoolOK(bufs, q, p, used, lost),
         NEW back, back = BufferUnref(b, bufs, q),
         NEW new, NEW left, NEW others,
         new = back.bufs, left = back.queue, others = used \ {b}
  PROVE  /\ PoolOK(new, left, p, others, lost)
         /\ SameSizes(bufs, new, others)
<1>0. b \in Buffers /\ b \notin lost /\ p.gen # 0
  BY DEF PoolOK
<1>1. CASE bufs[b].pool # 0
  <2>1. new = [bufs EXCEPT ![b].pool = 0] /\ left = Append(q, b)
    BY <1>1 DEF BufferUnref
  <2>2. bufs[b].size = p.size
    BY <1>0, <1>1 DEF PoolOK
  <2>3. left \in Seq(Buffers) /\ Len(left) = Len(q) + 1 /\ left[Len(q) + 1] = b
        /\ \A i \in 1..Len(q) : left[i] = q[i] /\ q[i] # b
    BY <1>0, <2>1, AppendProperties DEF PoolOK
  <2>4. /\ new[b] = [size |-> p.size, pool |-> 0]
        /\ \A c \in Buffers \ {b} : new[c] = bufs[c]
        /\ new \in [Buffers -> [size : Sizes \cup {0}, pool : {0, p.gen}]]
    BY <1>0, <2>1, <2>2 DEF PoolOK
  <2>5. Len(q) \in Nat
    BY DEF PoolOK
  <2>6. \A i, j \in 1..Len(left) : i # j => left[i] # left[j]
    BY <2>3, <2>5, SMTT(40) DEF PoolOK
  <2>7. \A i \in 1..Len(left) : left[i] \notin others \cup lost
          /\ new[left[i]] = [size |-> p.size, pool |-> 0]
    BY <1>0, <2>3, <2>4, <2>5 DEF PoolOK
  <2>8. \A c \in Buffers :
          (\E i \in 1..Len(left) : left[i] = c) <=> c = b \/ \E i \in 1..Len(q) : q[i] = c
    BY <2>3, <2>5
  <2>9. \A c \in Buffers : new[c].size # 0 <=>
          c \in others \cup lost \/ \E i \in 1..Len(left) : left[i] = c
    BY <1>0, <2>2, <2>4, <2>8 DEF PoolOK
  <2>10. \A c \in Buffers :
          new[c].pool # 0 => c \in others \cup lost /\ new[c].size = p.size
    BY <2>4 DEF PoolOK
  <2>11. PoolOK(new, left, p, others, lost)
    BY <2>3, <2>4, <2>6, <2>7, <2>9, <2>10 DEF PoolOK
  <2>12. SameSizes(bufs, new, others)
    BY <1>0, <2>4 DEF PoolOK, SameSizes
  <2> QED BY <2>11, <2>12
<1>2. CASE bufs[b].pool = 0
  <2>1. new = [bufs EXCEPT ![b] = NoBuf] /\ left = q
    BY <1>2 DEF BufferUnref
  <2>2. /\ new[b] = NoBuf
        /\ \A c \in Buffers \ {b} : new[c] = bufs[c]
        /\ new \in [Buffers -> [size : Sizes \cup {0}, pool : {0, p.gen}]]
    BY <1>0, <2>1 DEF PoolOK, NoBuf
  <2>3. \A i \in 1..Len(q) : q[i] # b
    BY DEF PoolOK
  <2>4. PoolOK(new, q, p, others, lost)
    BY <1>0, <2>2, <2>3 DEF PoolOK, NoBuf
  <2>5. SameSizes(bufs, new, others)
    BY <1>0, <2>2 DEF PoolOK, SameSizes
  <2> QED BY <2>1, <2>4, <2>5
<1> QED BY <1>1, <1>2

-----------------------------------------------------------------------------
(* The inductive invariant holds at first. *)
LEMMA InitIInv == Init => IInv
<1> SUFFICES ASSUME Init PROVE IInv
  OBVIOUS
<1>1. TypeOK
  BY CompositorConstants DEF Init, TypeOK, Seqs, JobStates, NoJob, NoBuf
<1>2. JobOrder /\ WorkQueue /\ Holding /\ unlinked \subseteq Lost /\ Ends
  BY CompositorConstants DEF Init, JobOrder, WorkQueue, Holding, Ends, Seqs, NoJob, InFlight
<1>3. Held = {} /\ Used = {}
  BY DEF Init, Held, Used
<1>4. Pooled /\ Separate
  BY <1>1, <1>3 DEF Init, Pooled, PoolOK, Separate, TypeOK, NoBuf
<1>5. Order
  BY CompositorConstants DEF Init, Order, Seqs, NoneLost
<1> QED BY <1>1, <1>2, <1>4, <1>5 DEF IInv

-----------------------------------------------------------------------------
(* compositor_feed. *)

(* A composite that passes straight through finds nothing in flight. *)
LEMMA FeedDirectStep ==
  ASSUME IInv, FeedDirect
  PROVE  IInv'
<1> USE DEF IInv, FeedDirect
<1>1. fed' \in Seqs /\ fed' \in 0..MaxFeeds /\ head <= fed'
  BY CompositorConstants DEF TypeOK, JobOrder, Seqs
<1>2. TypeOK'
  BY <1>1, AppendProperties DEF TypeOK, Seqs
<1>3. JobOrder' /\ WorkQueue' /\ Holding' /\ (unlinked \subseteq Lost)' /\ Ends'
  BY <1>1 DEF JobOrder, WorkQueue, Holding, Lost, Ends
<1>4. Pooled' /\ Separate'
  BY DEF Pooled, Separate, Used, Held
<1>5. Order'
  <2>1. /\ accepted \in Seq(Seqs) /\ delivered \in Seq(Seqs)
        /\ tail = head /\ head \in Nat /\ tail \in Nat
    BY DEF TypeOK, Idle
  <2>2. Len(accepted) = Len(delivered)
    BY <2>1 DEF Order, NoneLost, Seqs
  <2>3. /\ Len(accepted') = Len(accepted) + 1 /\ Len(delivered') = Len(delivered) + 1
        /\ \A i \in 1..Len(accepted) : accepted'[i] = accepted[i]
        /\ \A i \in 1..Len(delivered) : delivered'[i] = delivered[i]
        /\ accepted'[Len(accepted) + 1] = fed' /\ delivered'[Len(delivered) + 1] = fed'
    BY <1>1, <2>1, AppendProperties
  <2>4. \A i \in 1..Len(delivered') : delivered'[i] = accepted'[i]
    BY <2>1, <2>2, <2>3 DEF Order
  <2> QED
    BY <2>1, <2>2, <2>3, <2>4 DEF Order, NoneLost, Seqs
<1> QED BY <1>2, <1>3, <1>4, <1>5

(* When compositor_feed fails only the pools and the leaked buffers change. *)
LEMMA FeedFailedStep ==
  ASSUME IInv, NEW s \in Sizes, NEW bufs, NEW q, NEW lk,
         FeedFailed(s, bufs, q, lk),
         PoolOK(bufs, q, PoolAfter(s), Used, lk),
         \A b \in Used : bufs[b].size = buf[b].size
  PROVE  IInv'
<1> USE DEF IInv, FeedFailed
<1>1. fed' \in 0..MaxFeeds /\ head <= fed'
  BY CompositorConstants DEF TypeOK, JobOrder
<1>2. TypeOK'
  <2>1. /\ pool' \in [size : Sizes \cup {0}, gen : Nat \ {0}]
        /\ queue' \in Seq(Buffers) /\ leaked' \subseteq Buffers
        /\ buf' \in [Buffers -> [size : Sizes \cup {0}, pool : {0, pool'.gen}]]
    BY DEF PoolOK
  <2>2. buf' \in [Buffers -> [size : Sizes \cup {0}, pool : Nat]]
    BY <2>1
  <2> QED BY <1>1, <2>1, <2>2 DEF TypeOK
<1>3. JobOrder' /\ WorkQueue' /\ Holding' /\ (unlinked \subseteq Lost)' /\ Ends'
  BY <1>1 DEF JobOrder, WorkQueue, Holding, Lost, Ends
<1>4. Held' = Held /\ Used' = Used
  BY DEF Held, Used
<1>5. Pooled' /\ Separate'
  BY <1>4 DEF Pooled, Separate, Used
<1>6. (state = "open" => Order)'
  BY DEF Order, NoneLost
<1> QED BY <1>2, <1>3, <1>5, <1>6

LEMMA FeedNoBufferStep ==
  ASSUME IInv, NEW s \in Sizes, FeedNoBuffer(s)
  PROVE  IInv'
<1>1. /\ PoolOK(BufAfter(s), QueueAfter(s), PoolAfter(s), Used, leaked)
      /\ \A b \in Used \cup leaked : BufAfter(s)[b].size = buf[b].size
  BY ResizeOK DEF IInv
<1>2. QueueAfter(s) = << >> /\ FeedFailed(s, BufAfter(s), << >>, leaked)
  BY DEF FeedNoBuffer
<1>3. PoolOK(BufAfter(s), << >>, PoolAfter(s), Used, leaked)
  BY <1>1, <1>2
<1> QED BY <1>1, <1>2, <1>3, FeedFailedStep

(* A buffer that is acquired and given back at once. *)
LEMMA AcquireReleaseOK ==
  ASSUME Pooled, NEW s \in Sizes, NEW b \in Buffers, b \in Acquirable(s)
  PROVE  \A back : back = BufferUnref(b, AcquiredBuf(b, s), QueueAfterAcquire(s)) =>
           /\ PoolOK(back.bufs, back.queue, PoolAfter(s), Used, leaked)
           /\ \A c \in Used : back.bufs[c].size = buf[c].size
<1>0. SUFFICES ASSUME NEW back,
                      back = BufferUnref(b, AcquiredBuf(b, s), QueueAfterAcquire(s))
               PROVE  /\ PoolOK(back.bufs, back.queue, PoolAfter(s), Used, leaked)
                      /\ \A c \in Used : back.bufs[c].size = buf[c].size
  OBVIOUS
<1>1. PICK u, v, l, bufs, q, p, new, left :
        /\ u = Used \cup {b} /\ v = u \ {b} /\ l = leaked
        /\ new = back.bufs /\ left = back.queue
        /\ bufs = AcquiredBuf(b, s) /\ q = QueueAfterAcquire(s) /\ p = PoolAfter(s)
  OBVIOUS
<1>2. /\ PoolOK(AcquiredBuf(b, s), QueueAfterAcquire(s), PoolAfter(s), Used \cup {b}, leaked)
      /\ b \notin Used \cup leaked
      /\ \A c \in Used \cup leaked : AcquiredBuf(b, s)[c].size = buf[c].size
  BY AcquireOK
<1>3. PoolOK(bufs, q, p, u, l)
  BY <1>1, <1>2 DEF PoolOK
<1>4. b \in u /\ v = Used
  BY <1>1, <1>2
<1>5. back = BufferUnref(b, bufs, q)
  BY <1>0, <1>1
<1>6. /\ PoolOK(new, left, p, v, l)
      /\ SameSizes(bufs, new, v)
  <2>1. new = back.bufs /\ left = back.queue /\ v = u \ {b}
    BY <1>1
  <2>2. b \in u
    BY <1>4
  <2> QED BY <2>1, <2>2, <1>3, <1>5, ReleaseOK
<1>7. PoolOK(back.bufs, back.queue, PoolAfter(s), Used, leaked)
  BY <1>1, <1>4, <1>6 DEF PoolOK
<1> QED BY <1>1, <1>2, <1>4, <1>6, <1>7 DEF SameSizes

LEMMA FeedNoFrameStep ==
  ASSUME IInv, NEW s \in Sizes, NEW b \in Buffers, FeedNoFrame(s, b)
  PROVE  IInv'
<1>1. PICK back : back = BufferUnref(b, AcquiredBuf(b, s), QueueAfterAcquire(s))
  OBVIOUS
<1>2. b \in Acquirable(s) /\ FeedFailed(s, back.bufs, back.queue, leaked)
  BY <1>1 DEF FeedNoFrame
<1>3. /\ PoolOK(back.bufs, back.queue, PoolAfter(s), Used, leaked)
      /\ \A c \in Used : back.bufs[c].size = buf[c].size
  BY <1>1, <1>2, AcquireReleaseOK DEF IInv
<1> QED BY <1>2, <1>3, FeedFailedStep

LEMMA FeedNoSideDataStep ==
  ASSUME IInv, NEW s \in Sizes, NEW b \in Buffers, FeedNoSideData(s, b)
  PROVE  IInv'
<1> DEFINE bufs == AcquiredBuf(b, s)
           q == QueueAfterAcquire(s)
<1>1. b \in Acquirable(s) /\ FeedFailed(s, bufs, q, leaked \cup {b})
  BY DEF FeedNoSideData
<1>2. /\ PoolOK(AcquiredBuf(b, s), QueueAfterAcquire(s), PoolAfter(s), Used \cup {b}, leaked)
      /\ b \notin Used \cup leaked
      /\ \A c \in Used \cup leaked : AcquiredBuf(b, s)[c].size = buf[c].size
  BY <1>1, AcquireOK DEF IInv
<1> HIDE DEF bufs, q
<1>3. PoolOK(bufs, q, PoolAfter(s), Used \cup {b}, leaked)
  BY <1>2 DEF bufs, q
<1>4. PoolOK(bufs, q, PoolAfter(s), Used, leaked \cup {b})
  <2>1. (Used \cup {b}) \cup leaked = Used \cup (leaked \cup {b})
    OBVIOUS
  <2>2. Used \subseteq Buffers /\ leaked \cup {b} \subseteq Buffers
        /\ Used \cap (leaked \cup {b}) = {}
    BY <1>2, <1>3 DEF PoolOK
  <2> QED BY <1>3, <2>1, <2>2 DEF PoolOK
<1>5. \A c \in Used : bufs[c].size = buf[c].size
  BY <1>2 DEF bufs
<1> QED BY <1>1, <1>4, <1>5, FeedFailedStep

(* What feeding a job does to the jobs: number head + 1 comes into use. *)
LEMMA NewJob ==
  ASSUME IInv, state = "open", fed < MaxFeeds, fed' = fed + 1, head' = head + 1,
         NEW st \in {"queued", "lost"}, NEW s \in Sizes, NEW b \in Buffers,
         job' = [job EXCEPT ![head'] = [st |-> st, src |-> fed', buf |-> b, size |-> s]]
  PROVE  /\ fed' \in 0..MaxFeeds /\ head' \in 0..MaxFeeds /\ tail \in 0..head'
         /\ fed' \in Seqs /\ head' \in Seqs /\ head' <= fed'
         /\ head \in Nat /\ tail \in Nat /\ tail <= head
         /\ job[head'].st = "none" /\ holders[head'] = {}
         /\ job'[head'] = [st |-> st, src |-> fed', buf |-> b, size |-> s]
         /\ \A k \in Seqs \ {head'} : job'[k] = job[k]
         /\ job' \in [Seqs -> [st : JobStates, src : 0..MaxFeeds,
                               buf : Buffers \cup {0}, size : Sizes \cup {0}]]
<1>1. /\ fed' \in 0..MaxFeeds /\ head' \in 0..MaxFeeds /\ tail \in 0..head'
      /\ fed' \in Seqs /\ head' \in Seqs /\ head' <= fed'
      /\ head \in Nat /\ tail \in Nat /\ tail <= head
  BY CompositorConstants DEF IInv, TypeOK, JobOrder, Seqs
<1>2. job[head'].st = "none"
  BY <1>1 DEF IInv, JobOrder
<1>3. holders[head'] = {}
  BY <1>1, <1>2 DEF IInv, Holding, InFlight
<1>4. job \in [Seqs -> [st : JobStates, src : 0..MaxFeeds,
                        buf : Buffers \cup {0}, size : Sizes \cup {0}]]
  BY DEF IInv, TypeOK
<1> QED BY <1>1, <1>2, <1>3, <1>4 DEF JobStates

LEMMA FeedJobStep ==
  ASSUME IInv, NEW s \in Sizes, NEW b \in Buffers, FeedJob(s, b)
  PROVE  IInv'
<1> DEFINE new == [st |-> "queued", src |-> fed', buf |-> b, size |-> s]
<1>1. /\ fed' \in 0..MaxFeeds /\ head' \in 0..MaxFeeds /\ tail \in 0..head'
      /\ fed' \in Seqs /\ head' \in Seqs /\ head' <= fed' /\ head' = head + 1
      /\ head \in Nat /\ tail \in Nat /\ tail <= head
      /\ job[head'].st = "none" /\ holders[head'] = {}
      /\ job'[head'] = new
      /\ \A k \in Seqs \ {head'} : job'[k] = job[k]
      /\ job' \in [Seqs -> [st : JobStates, src : 0..MaxFeeds,
                            buf : Buffers \cup {0}, size : Sizes \cup {0}]]
  BY NewJob DEF FeedJob
<1>2. /\ holders'[head'] = {"job"}
      /\ \A k \in Seqs \ {head'} : holders'[k] = holders[k]
      /\ holders' \in [Seqs -> SUBSET {"job", "encoder"}]
  BY <1>1 DEF FeedJob, IInv, TypeOK
<1>3. /\ work' \in Seq(Seqs) /\ Len(work') = Len(work) + 1 /\ Len(work) \in Nat
      /\ work'[Len(work) + 1] = head'
      /\ \A i \in 1..Len(work) : work'[i] = work[i] /\ work[i] \in Seqs
  BY <1>1, AppendProperties, ElementOfSeq DEF FeedJob, IInv, TypeOK
<1>4. /\ accepted' \in Seq(Seqs) /\ Len(accepted') = Len(accepted) + 1
      /\ accepted'[Len(accepted) + 1] = fed' /\ Len(accepted) \in Nat
      /\ \A i \in 1..Len(accepted) : accepted'[i] = accepted[i]
  BY <1>1, AppendProperties DEF FeedJob, IInv, TypeOK
<1>5. /\ PoolOK(AcquiredBuf(b, s), QueueAfterAcquire(s), PoolAfter(s), Used \cup {b}, leaked)
      /\ b \notin Used \cup leaked
      /\ AcquiredBuf(b, s)[b] = [size |-> s, pool |-> PoolAfter(s).gen]
      /\ \A c \in Used \cup leaked : AcquiredBuf(b, s)[c].size = buf[c].size
  BY AcquireOK DEF FeedJob, IInv
<1>6. /\ buf' = AcquiredBuf(b, s) /\ queue' = QueueAfterAcquire(s) /\ pool' = PoolAfter(s)
      /\ UNCHANGED <<delivered, tail, posted, list, unlinked, leaked, touched, state>>
      /\ state = "open"
  BY DEF FeedJob
<1>7. Held' = Held \cup {head'} /\ head' \notin Held
  <2>1. head' \in Seqs /\ holders[head'] = {} /\ holders'[head'] # {}
    BY <1>1, <1>2
  <2>2. \A k \in Seqs : k # head' => holders'[k] = holders[k]
    BY <1>2
  <2>3. \A k : k \in Held' <=> k \in Held \cup {head'}
    BY <2>1, <2>2, Zenon DEF Held, Seqs
  <2>4. head' \notin Held
    BY <2>1, Zenon DEF Held
  <2> QED BY <2>3, <2>4, Zenon
<1>8. Used' = Used \cup {b}
  BY <1>1, <1>7 DEF Used, Held
<1> HIDE DEF new
<1>9. TypeOK'
  <2>1. /\ pool' \in [size : Sizes \cup {0}, gen : Nat \ {0}]
        /\ queue' \in Seq(Buffers)
        /\ buf' \in [Buffers -> [size : Sizes \cup {0}, pool : {0, pool'.gen}]]
    BY <1>5, <1>6 DEF PoolOK
  <2>2. buf' \in [Buffers -> [size : Sizes \cup {0}, pool : Nat]]
    BY <2>1
  <2> QED BY <1>1, <1>2, <1>3, <1>4, <1>6, <2>1, <2>2 DEF IInv, TypeOK
<1>10. JobOrder'
  <2>1. \A k \in Seqs :
          /\ k <= tail' => job'[k].st = "done"
          /\ tail' < k /\ k <= head' => job'[k].st \in InFlight \cup {"lost"}
          /\ head' < k => job'[k].st = "none"
          /\ job'[k].st # "none" => job'[k].src \in Seqs /\ job'[k].buf \in Buffers
    BY <1>1, <1>6 DEF IInv, JobOrder, InFlight, new, Seqs
  <2>2. posted' # << >> => tail' + 1 \in Seqs /\ job'[tail' + 1].st = "finished"
    BY <1>1, <1>6 DEF IInv, JobOrder
  <2> QED BY <1>1, <1>6, <2>1, <2>2 DEF IInv, JobOrder
<1>11. WorkQueue'
  <2>1. \A i \in 1..Len(work) :
          job[work[i]].st = "queued" /\ work[i] < head' /\ work[i] \in Seqs \ {head'}
    BY <1>1, <1>3 DEF IInv, WorkQueue, JobOrder, Seqs
  <2>2. \A i \in 1..Len(work') : i \in 1..Len(work) \/ i = Len(work) + 1
    BY <1>3
  <2>3. \A i \in 1..Len(work') : job'[work'[i]].st = "queued"
    <3>1. \A i \in 1..Len(work) : job'[work'[i]].st = "queued"
      BY <1>1, <1>3, <2>1
    <3>2. job'[work'[Len(work) + 1]].st = "queued"
      BY <1>1, <1>3 DEF new
    <3> QED BY <2>2, <3>1, <3>2
  <2>4. ASSUME NEW i \in 1..Len(work'), NEW j \in 1..Len(work'), i < j
        PROVE  work'[i] < work'[j]
    <3>1. i \in 1..Len(work)
      BY <1>3, <2>4
    <3>2. CASE j \in 1..Len(work)
      BY <1>3, <2>4, <3>1, <3>2 DEF IInv, WorkQueue
    <3>3. CASE j = Len(work) + 1
      BY <1>3, <2>1, <3>1, <3>3
    <3> QED BY <2>2, <3>2, <3>3
  <2> QED BY <2>3, <2>4 DEF WorkQueue
<1>12. Holding'
  BY <1>1, <1>2, <1>6 DEF IInv, Holding, InFlight, new
<1>13. Pooled'
  BY <1>5, <1>6, <1>8 DEF Pooled
<1>14. Separate'
  <2>1. \A k \in Held : job'[k] = job[k] /\ job[k].buf \in Used
    BY <1>1, <1>7 DEF Held, Used
  <2>2. \A k \in Held : buf'[job[k].buf].size = buf[job[k].buf].size /\ job[k].buf # b
    BY <1>5, <1>6, <2>1
  <2>3. job'[head'].buf = b /\ buf'[b].size = job'[head'].size
    BY <1>1, <1>5, <1>6 DEF new
  <2> QED BY <1>7, <2>1, <2>2, <2>3 DEF IInv, Separate
<1>15. (unlinked \subseteq Lost)'
  BY <1>1, <1>6 DEF IInv, Lost
<1>16. Order'
  <2>2. NoneLost(head)' => NoneLost(head)
    BY <1>1, <1>6 DEF NoneLost, Seqs
  <2>3. \A k \in Seqs : k <= head => (NoneLost(k)' <=> NoneLost(k))
    BY <1>1, <1>6 DEF NoneLost, Seqs
  <2>4. Len(delivered) \in Nat
    BY DEF IInv, TypeOK
  <2>5. ASSUME NEW k \in Seqs, tail' < k, k <= head', NoneLost(k)'
        PROVE  /\ Len(delivered') + (k - tail') <= Len(accepted')
               /\ accepted'[Len(delivered') + (k - tail')] = job'[k].src
    <3>1. CASE k = head'
      <4>1. NoneLost(head)
        BY <1>1, <1>6, <2>5, <3>1 DEF NoneLost, Seqs
      <4>2. Len(accepted) = Len(delivered) + (head - tail)
        BY <1>6, <4>1 DEF IInv, Order
      <4>3. Len(delivered') + (k - tail') = Len(accepted) + 1
        BY <1>1, <1>6, <2>4, <3>1, <4>2
      <4> QED BY <1>1, <1>4, <3>1, <4>3 DEF new
    <3>2. CASE k # head'
      <4>1. k <= head /\ NoneLost(k) /\ job'[k] = job[k]
        BY <1>1, <2>3, <2>5, <3>2 DEF Seqs
      <4>2. /\ Len(delivered) + (k - tail) <= Len(accepted)
            /\ accepted[Len(delivered) + (k - tail)] = job[k].src
        BY <1>6, <2>5, <4>1 DEF IInv, Order
      <4>3. Len(delivered) + (k - tail) \in 1..Len(accepted)
        BY <1>1, <1>4, <1>6, <2>4, <2>5, <4>2 DEF Seqs
      <4> QED BY <1>4, <1>6, <4>1, <4>2, <4>3
    <3> QED BY <3>1, <3>2
  <2>6. NoneLost(head)' => Len(accepted') = Len(delivered') + (head' - tail')
    <3>1. NoneLost(head) => Len(accepted) = Len(delivered) + (head - tail)
      BY <1>6 DEF IInv, Order
    <3>2. Len(accepted') = Len(accepted) + 1 /\ Len(accepted) \in Nat
      BY <1>4 DEF IInv, TypeOK
    <3>3. head' = head + 1 /\ head \in Nat /\ tail \in Nat
      BY <1>1
    <3>4. UNCHANGED <<delivered, tail>>
      BY <1>6
    <3> QED BY <2>2, <2>4, <3>1, <3>2, <3>3, <3>4
  <2>7. /\ Len(delivered') <= Len(accepted')
        /\ \A i \in 1..Len(delivered') : delivered'[i] = accepted'[i]
    BY <1>4, <1>6, <2>4 DEF IInv, Order
  <2> QED BY <2>5, <2>6, <2>7 DEF Order
<1>17. Ends'
  BY <1>6 DEF Ends
<1> QED
  BY <1>9, <1>10, <1>11, <1>12, <1>13, <1>14, <1>15, <1>16, <1>17 DEF IInv

(* The work object of a job cannot be had: its number is used up. *)
LEMMA FeedLostStep ==
  ASSUME IInv, NEW s \in Sizes, NEW b \in Buffers, FeedLost(s, b)
  PROVE  IInv'
<1> DEFINE new == [st |-> "lost", src |-> fed', buf |-> b, size |-> s]
<1>1. /\ fed' \in 0..MaxFeeds /\ head' \in 0..MaxFeeds /\ tail \in 0..head'
      /\ fed' \in Seqs /\ head' \in Seqs /\ head' <= fed' /\ head' = head + 1
      /\ head \in Nat /\ tail \in Nat /\ tail <= head
      /\ job[head'].st = "none" /\ holders[head'] = {}
      /\ job'[head'] = new
      /\ \A k \in Seqs \ {head'} : job'[k] = job[k]
      /\ job' \in [Seqs -> [st : JobStates, src : 0..MaxFeeds,
                            buf : Buffers \cup {0}, size : Sizes \cup {0}]]
  BY NewJob DEF FeedLost
<1>2. PICK back : back = BufferUnref(b, AcquiredBuf(b, s), QueueAfterAcquire(s))
  OBVIOUS
<1>3. /\ buf' = back.bufs /\ queue' = back.queue /\ pool' = PoolAfter(s)
      /\ UNCHANGED <<accepted, delivered, tail, work, posted, holders, list, leaked,
                     touched, state>>
      /\ state = "open" /\ unlinked' = unlinked \cup {head'} /\ b \in Acquirable(s)
  BY <1>2 DEF FeedLost
<1>4. /\ PoolOK(back.bufs, back.queue, PoolAfter(s), Used, leaked)
      /\ \A c \in Used : back.bufs[c].size = buf[c].size
  BY <1>2, <1>3, AcquireReleaseOK DEF IInv
<1>5. Held' = Held /\ head' \notin Held /\ \A k \in Held : job'[k] = job[k]
  BY <1>1, <1>3 DEF Held, Seqs
<1>6. Used' = Used
  BY <1>5 DEF Used
<1> HIDE DEF new
<1>7. TypeOK'
  <2>1. /\ pool' \in [size : Sizes \cup {0}, gen : Nat \ {0}]
        /\ queue' \in Seq(Buffers)
        /\ buf' \in [Buffers -> [size : Sizes \cup {0}, pool : {0, pool'.gen}]]
    BY <1>3, <1>4 DEF PoolOK
  <2>2. buf' \in [Buffers -> [size : Sizes \cup {0}, pool : Nat]]
    BY <2>1
  <2> QED BY <1>1, <1>3, <2>1, <2>2 DEF IInv, TypeOK
<1>8. JobOrder'
  <2>1. \A k \in Seqs :
          /\ k <= tail' => job'[k].st = "done"
          /\ tail' < k /\ k <= head' => job'[k].st \in InFlight \cup {"lost"}
          /\ head' < k => job'[k].st = "none"
          /\ job'[k].st # "none" => job'[k].src \in Seqs /\ job'[k].buf \in Buffers
    BY <1>1, <1>3 DEF IInv, JobOrder, InFlight, new, Seqs
  <2>2. posted' # << >> => tail' + 1 \in Seqs /\ job'[tail' + 1].st = "finished"
    BY <1>1, <1>3 DEF IInv, JobOrder
  <2> QED BY <1>1, <1>3, <2>1, <2>2 DEF IInv, JobOrder
<1>9. WorkQueue'
  <2>1. \A i \in 1..Len(work) : job[work[i]].st = "queued" /\ work[i] \in Seqs
    BY ElementOfSeq DEF IInv, WorkQueue, TypeOK
  <2> QED BY <1>1, <1>3, <2>1 DEF IInv, WorkQueue
<1>10. Holding'
  <2>1. job'[head'].st = "lost"
    BY <1>1 DEF new
  <2> QED BY <1>1, <1>3, <2>1 DEF IInv, Holding, InFlight
<1>11. Pooled'
  BY <1>3, <1>4, <1>6 DEF Pooled
<1>12. Separate'
  <2>1. \A k \in Held : job[k].buf \in Used
    BY DEF Used
  <2> QED BY <1>3, <1>4, <1>5, <2>1 DEF IInv, Separate
<1>13. (unlinked \subseteq Lost)'
  <2>1. job'[head'].st = "lost"
    BY <1>1 DEF new
  <2> QED BY <1>1, <1>3, <2>1 DEF IInv, Lost
<1>14. Order'
  <2>1. \A k \in Seqs : k <= head => (NoneLost(k)' <=> NoneLost(k)) /\ job'[k] = job[k]
    BY <1>1, <1>3, SMTT(40) DEF NoneLost, Seqs
  <2>2. ~NoneLost(head)'
    <3>1. job'[head'].st = "lost"
      BY <1>1 DEF new
    <3> QED BY <1>1, <1>3, <3>1 DEF NoneLost
  <2>3. \A k \in Seqs : NoneLost(k)' /\ k <= head' => k <= head
    <3>1. \A k \in Seqs : k <= head' /\ ~(k <= head) => k = head'
      BY <1>1 DEF Seqs
    <3> QED BY <1>1, <2>2, <3>1 DEF NoneLost
  <2> QED BY <1>1, <1>3, <2>1, <2>2, <2>3 DEF IInv, Order
<1>15. Ends'
  BY <1>3 DEF Ends
<1> QED
  BY <1>7, <1>8, <1>9, <1>10, <1>11, <1>12, <1>13, <1>14, <1>15 DEF IInv

-----------------------------------------------------------------------------
(* The workers. *)

(* A job that goes from one stage to another while it is in flight disturbs *)
(* neither the pools, nor the frames, nor the order of the composites.      *)
LEMMA StageStep ==
  ASSUME IInv,
         UNCHANGED <<fed, accepted, delivered, head, tail, holders, list,
                     unlinked, pool, queue, buf, leaked, state>>,
         job' \in [Seqs -> [st : JobStates, src : 0..MaxFeeds,
                            buf : Buffers \cup {0}, size : Sizes \cup {0}]],
         \A k \in Seqs :
           /\ job'[k].src = job[k].src /\ job'[k].buf = job[k].buf
           /\ job'[k].size = job[k].size
           /\ job'[k].st = job[k].st \/ {job'[k].st, job[k].st} \subseteq InFlight
  PROVE  /\ Holding' /\ Pooled' /\ Separate' /\ (unlinked \subseteq Lost)'
         /\ (state = "open" => Order)' /\ Ends'
         /\ \A k \in Seqs :
              /\ k <= tail' => job'[k].st = "done"
              /\ tail' < k /\ k <= head' => job'[k].st \in InFlight \cup {"lost"}
              /\ head' < k => job'[k].st = "none"
              /\ job'[k].st # "none" => job'[k].src \in Seqs /\ job'[k].buf \in Buffers
<1>1. \A k \in Seqs : (job'[k].st = "lost" <=> job[k].st = "lost")
                       /\ (job'[k].st = "done" <=> job[k].st = "done")
                       /\ (job'[k].st = "none" <=> job[k].st = "none")
                       /\ (job'[k].st \in InFlight <=> job[k].st \in InFlight)
  BY DEF InFlight
<1>2. Held' = Held
  BY DEF Held
<1>3. \A k \in Held : k \in Seqs
  BY DEF Held
<1>4. Used' = Used
  BY <1>2, <1>3 DEF Used
<1>5. Holding'
  BY <1>1 DEF IInv, Holding
<1>6. Pooled'
  BY <1>4 DEF IInv, Pooled
<1>7. Separate'
  BY <1>2, <1>3 DEF IInv, Separate
<1>8. (unlinked \subseteq Lost)'
  BY <1>1 DEF IInv, Lost
<1>9. (state = "open" => Order)'
  <2>1. \A k \in Seqs : NoneLost(k)' <=> NoneLost(k)
    BY <1>1 DEF NoneLost
  <2>2. NoneLost(head)' <=> NoneLost(head)
    BY <1>1 DEF NoneLost
  <2> QED BY <2>1, <2>2 DEF IInv, Order
<1>10. Ends'
  BY DEF IInv, Ends
<1>11. \A k \in Seqs :
         /\ k <= tail' => job'[k].st = "done"
         /\ tail' < k /\ k <= head' => job'[k].st \in InFlight \cup {"lost"}
         /\ head' < k => job'[k].st = "none"
         /\ job'[k].st # "none" => job'[k].src \in Seqs /\ job'[k].buf \in Buffers
  BY <1>1 DEF IInv, JobOrder
<1> QED
  BY <1>5, <1>6, <1>7, <1>8, <1>9, <1>10, <1>11

LEMMA WorkerTakeStep ==
  ASSUME IInv, WorkerTake
  PROVE  IInv'
<1>1. /\ work \in Seq(Seqs) /\ work # << >> /\ Len(work) \in Nat
      /\ \A i \in 1..Len(work) : work[i] \in Seqs
      /\ job \in [Seqs -> [st : JobStates, src : 0..MaxFeeds,
                           buf : Buffers \cup {0}, size : Sizes \cup {0}]]
  BY DEF IInv, TypeOK, WorkerTake
<1>2. /\ Head(work) = work[1] /\ 1 \in 1..Len(work)
      /\ Tail(work) \in Seq(Seqs) /\ Len(Tail(work)) = Len(work) - 1
      /\ \A i \in 1..Len(Tail(work)) : Tail(work)[i] = work[i + 1] /\ i + 1 \in 1..Len(work)
  BY <1>1
<1>3. job[Head(work)].st = "queued" /\ Head(work) \in Seqs
  BY <1>1, <1>2 DEF IInv, WorkQueue
<1>4. /\ UNCHANGED <<fed, accepted, delivered, head, tail, posted, holders, list,
                     unlinked, pool, queue, buf, leaked, touched, state>>
      /\ job' = [job EXCEPT ![Head(work)].st = "running"]
      /\ work' = Tail(work)
  BY DEF WorkerTake
<1>5. /\ \A k \in Seqs \ {Head(work)} : job'[k] = job[k]
      /\ job'[Head(work)] = [job[Head(work)] EXCEPT !.st = "running"]
      /\ job' \in [Seqs -> [st : JobStates, src : 0..MaxFeeds,
                            buf : Buffers \cup {0}, size : Sizes \cup {0}]]
  BY <1>1, <1>3, <1>4, ZenonT(40) DEF JobStates
<1>6. \A k \in Seqs :
        /\ job'[k].src = job[k].src /\ job'[k].buf = job[k].buf
        /\ job'[k].size = job[k].size
        /\ job'[k].st = job[k].st \/ {job'[k].st, job[k].st} \subseteq InFlight
  BY <1>1, <1>3, <1>5, ZenonT(40) DEF InFlight
<1>7. /\ Holding' /\ Pooled' /\ Separate' /\ (unlinked \subseteq Lost)'
      /\ (state = "open" => Order)' /\ Ends'
      /\ \A k \in Seqs :
           /\ k <= tail' => job'[k].st = "done"
           /\ tail' < k /\ k <= head' => job'[k].st \in InFlight \cup {"lost"}
           /\ head' < k => job'[k].st = "none"
           /\ job'[k].st # "none" => job'[k].src \in Seqs /\ job'[k].buf \in Buffers
  BY <1>4, <1>5, <1>6, StageStep
<1>8. TypeOK'
  BY <1>2, <1>4, <1>5 DEF IInv, TypeOK
<1>9. JobOrder'
  <2>1. posted' # << >> => tail' + 1 \in Seqs /\ job'[tail' + 1].st = "finished"
    BY <1>3, <1>4, <1>5 DEF IInv, JobOrder
  <2> QED BY <1>4, <1>7, <2>1 DEF IInv, JobOrder
<1>10. WorkQueue'
  <2>1. \A i \in 1..Len(work') : work'[i] = work[i + 1] /\ i + 1 \in 1..Len(work)
    BY <1>2, <1>4
  <2>2. \A i \in 1..Len(work) : i # 1 => work[i] \in Seqs \ {Head(work)}
    BY <1>1, <1>2 DEF IInv, WorkQueue, Seqs
  <2>3. \A i \in 1..Len(work') : job'[work'[i]].st = "queued"
    <3>1. \A i \in 1..Len(work') : job'[work'[i]] = job[work[i + 1]]
      BY <1>5, <2>1, <2>2
    <3> QED BY <2>1, <3>1 DEF IInv, WorkQueue
  <2>4. \A i, j \in 1..Len(work') : i < j => work'[i] < work'[j]
    BY <2>1 DEF IInv, WorkQueue
  <2> QED BY <2>3, <2>4 DEF WorkQueue
<1> QED
  BY <1>7, <1>8, <1>9, <1>10 DEF IInv

LEMMA WorkerCheckStep ==
  ASSUME IInv, NEW k \in Seqs, WorkerCheck(k)
  PROVE  IInv'
<1>1. /\ job[k].st = "running"
      /\ UNCHANGED <<fed, accepted, delivered, head, tail, work, holders, list,
                     unlinked, pool, queue, buf, leaked, touched, state>>
      /\ job \in [Seqs -> [st : JobStates, src : 0..MaxFeeds,
                           buf : Buffers \cup {0}, size : Sizes \cup {0}]]
      /\ tail \in Nat
  BY DEF IInv, TypeOK, WorkerCheck
<1>2. PICK stage \in {"finished", "asleep"} : job' = [job EXCEPT ![k].st = stage]
  BY DEF WorkerCheck
<1>3. /\ \A j \in Seqs \ {k} : job'[j] = job[j]
      /\ job'[k] = [job[k] EXCEPT !.st = stage]
      /\ job' \in [Seqs -> [st : JobStates, src : 0..MaxFeeds,
                            buf : Buffers \cup {0}, size : Sizes \cup {0}]]
  BY <1>1, <1>2 DEF JobStates
<1>4. \A j \in Seqs :
        /\ job'[j].src = job[j].src /\ job'[j].buf = job[j].buf
        /\ job'[j].size = job[j].size
        /\ job'[j].st = job[j].st \/ {job'[j].st, job[j].st} \subseteq InFlight
  BY <1>1, <1>3 DEF InFlight
<1>5. /\ Holding' /\ Pooled' /\ Separate' /\ (unlinked \subseteq Lost)'
      /\ (state = "open" => Order)' /\ Ends'
      /\ \A j \in Seqs :
           /\ j <= tail' => job'[j].st = "done"
           /\ tail' < j /\ j <= head' => job'[j].st \in InFlight \cup {"lost"}
           /\ head' < j => job'[j].st = "none"
           /\ job'[j].st # "none" => job'[j].src \in Seqs /\ job'[j].buf \in Buffers
  BY <1>1, <1>3, <1>4, StageStep
<1>6. /\ posted' \in {<< >>, <<tail + 1>>}
      /\ posted' # << >> => tail + 1 \in Seqs /\ job'[tail + 1].st = "finished"
  <2>1. CASE tail + 1 = k
    <3>1. posted = << >>
      BY <1>1, <2>1 DEF IInv, JobOrder
    <3>2. posted' = <<k>> /\ job' = [job EXCEPT ![k].st = "finished"]
      BY <2>1, <3>1 DEF WorkerCheck
    <3> QED BY <1>1, <2>1, <3>2
  <2>2. CASE tail + 1 # k
    <3>1. posted' = posted
      BY <2>2 DEF WorkerCheck
    <3>2. posted # << >> => job'[tail + 1] = job[tail + 1]
      BY <1>3, <2>2 DEF IInv, JobOrder
    <3> QED BY <3>1, <3>2 DEF IInv, JobOrder
  <2> QED BY <2>1, <2>2
<1>7. TypeOK'
  <2>1. posted' \in Seq(Seqs)
    <3>1. CASE posted' = << >>
      BY <3>1
    <3>2. CASE posted' = <<tail + 1>> /\ tail + 1 \in Seqs
      BY <3>2
    <3> QED BY <1>6, <3>1, <3>2
  <2> QED BY <1>1, <1>3, <2>1 DEF IInv, TypeOK
<1>8. JobOrder'
  BY <1>1, <1>5, <1>6 DEF IInv, JobOrder
<1>9. WorkQueue'
  <2>1. \A i \in 1..Len(work) : job[work[i]].st = "queued" /\ work[i] \in Seqs
    BY ElementOfSeq DEF IInv, WorkQueue, TypeOK
  <2> QED BY <1>1, <1>3, <2>1 DEF IInv, WorkQueue
<1> QED
  BY <1>5, <1>7, <1>8, <1>9 DEF IInv

-----------------------------------------------------------------------------
(* The main thread. *)

(* The last nvnc_frame_unref of a frame gives one buffer back, and no other *)
(* frame used that one.                                                     *)
LEMMA LastUnref ==
  ASSUME IInv, NEW k \in Held,
         holders' = [holders EXCEPT ![k] = {}],
         buf' = BufferUnref(job[k].buf, buf, queue).bufs,
         queue' = BufferUnref(job[k].buf, buf, queue).queue,
         UNCHANGED <<pool, leaked>>,
         \A j \in Seqs : job'[j].buf = job[j].buf /\ job'[j].size = job[j].size
  PROVE  /\ Pooled' /\ Separate'
         /\ queue' \in Seq(Buffers)
         /\ buf' \in [Buffers -> [size : Sizes \cup {0}, pool : Nat]]
<1>1. Held' = Held \ {k} /\ Held \subseteq Seqs
  BY DEF IInv, TypeOK, Held
<1>2. \A j \in Held : j # k => job[j].buf # job[k].buf
  BY DEF IInv, Separate
<1>3. Used' = Used \ {job[k].buf}
  <2>1. Used' = {job[j].buf : j \in Held \ {k}}
    BY <1>1 DEF Used
  <2> QED BY <1>2, <2>1 DEF Used
<1>4. PICK bufs, q, p, u, l, b, back, new, left, others :
        /\ bufs = buf /\ q = queue /\ p = pool /\ u = Used /\ l = leaked
        /\ b = job[k].buf /\ back = BufferUnref(b, bufs, q)
        /\ new = back.bufs /\ left = back.queue /\ others = u \ {b}
  OBVIOUS
<1>5. PoolOK(bufs, q, p, u, l) /\ b \in u
  BY <1>4 DEF IInv, Pooled, Used
<1>6. PoolOK(new, left, p, others, l) /\ SameSizes(bufs, new, others)
  <2>1. back = BufferUnref(b, bufs, q) /\ new = back.bufs /\ left = back.queue
        /\ others = u \ {b}
    BY <1>4
  <2> QED BY <1>5, <2>1, ReleaseOK
<1>7. buf' = new /\ queue' = left /\ pool' = p /\ Used' = others /\ leaked' = l
  BY <1>3, <1>4
<1>8. Pooled'
  BY <1>6, <1>7 DEF Pooled
<1>9. Separate'
  <2>1. \A j \in Held' : job'[j].buf \in others
    BY <1>7 DEF Used
  <2>2. \A j \in Held' : buf'[job'[j].buf].size = buf[job'[j].buf].size
    BY <1>4, <1>6, <1>7, <2>1 DEF SameSizes
  <2> QED BY <1>1, <2>2 DEF IInv, Separate
<1>10. queue' \in Seq(Buffers)
  BY <1>6, <1>7 DEF PoolOK
<1>11. buf' \in [Buffers -> [size : Sizes \cup {0}, pool : Nat]]
  <2>1. /\ new \in [Buffers -> [size : Sizes \cup {0}, pool : {0, p.gen}]]
        /\ p.gen \in Nat
    BY <1>6 DEF PoolOK
  <2> QED BY <1>7, <2>1
<1> QED
  BY <1>8, <1>9, <1>10, <1>11

(* on_work_done completes the job after seq_tail, wakes the ones that sleep *)
(* and hands over the composite that is due.                                *)
LEMMA DoneJob ==
  ASSUME IInv, NEW kept \in BOOLEAN, OnWorkDone(kept), NEW k, k = tail + 1
  PROVE  /\ k \in Seqs /\ k <= head /\ job[k].st = "finished" /\ holders[k] = {"job"}
         /\ Head(posted) = k /\ posted' = << >> /\ tail' = k
         /\ job' \in [Seqs -> [st : JobStates, src : 0..MaxFeeds,
                               buf : Buffers \cup {0}, size : Sizes \cup {0}]]
         /\ job'[k].st = "done"
         /\ \A j \in Seqs :
              /\ job'[j].src = job[j].src /\ job'[j].buf = job[j].buf
              /\ job'[j].size = job[j].size
              /\ j # k => \/ job'[j].st = job[j].st
                          \/ job[j].st = "asleep" /\ job'[j].st = "running"
<1>1. /\ posted # << >>
      /\ job' = [Broadcast(job) EXCEPT ![Head(posted)].st = "done"]
      /\ posted' = Tail(posted) /\ tail' = Head(posted)
  BY DEF OnWorkDone
<1>2. /\ posted = <<k>> /\ k \in Seqs /\ job[k].st = "finished"
  BY <1>1 DEF IInv, JobOrder
<1>3. Head(posted) = k /\ posted' = << >> /\ tail' = k
  BY <1>1, <1>2
<1>4. holders[k] = {"job"}
  BY <1>2 DEF IInv, Holding, InFlight
<1>5. k <= head
  <2>1. head \in Nat /\ (head < k => job[k].st = "none")
    BY <1>2 DEF IInv, TypeOK, JobOrder
  <2> QED BY <1>2, <2>1 DEF Seqs
<1>6. job \in [Seqs -> [st : JobStates, src : 0..MaxFeeds,
                        buf : Buffers \cup {0}, size : Sizes \cup {0}]]
  BY DEF IInv, TypeOK
<1>7. /\ Broadcast(job) \in [Seqs -> [st : JobStates, src : 0..MaxFeeds,
                                      buf : Buffers \cup {0}, size : Sizes \cup {0}]]
      /\ \A j \in Seqs :
           Broadcast(job)[j] = IF job[j].st = "asleep"
                               THEN [job[j] EXCEPT !.st = "running"] ELSE job[j]
  BY <1>6 DEF Broadcast, JobStates
<1>8. job' = [Broadcast(job) EXCEPT ![k].st = "done"]
  BY <1>1, <1>3
<1>9. /\ job' \in [Seqs -> [st : JobStates, src : 0..MaxFeeds,
                            buf : Buffers \cup {0}, size : Sizes \cup {0}]]
      /\ job'[k] = [Broadcast(job)[k] EXCEPT !.st = "done"]
      /\ \A j \in Seqs \ {k} : job'[j] = Broadcast(job)[j]
  BY <1>2, <1>7, <1>8 DEF JobStates
<1>10. \A j \in Seqs :
         /\ job'[j].src = job[j].src /\ job'[j].buf = job[j].buf
         /\ job'[j].size = job[j].size
         /\ j # k => \/ job'[j].st = job[j].st
                     \/ job[j].st = "asleep" /\ job'[j].st = "running"
  BY <1>6, <1>7, <1>9, SMTT(40)
<1>11. job'[k].st = "done"
  BY <1>2, <1>7, <1>9
<1> QED
  BY <1>2, <1>3, <1>4, <1>5, <1>9, <1>10, <1>11

LEMMA OnWorkDoneStep ==
  ASSUME IInv, NEW kept \in BOOLEAN, OnWorkDone(kept)
  PROVE  IInv'
<1>0. PICK k : k = tail + 1
  OBVIOUS
<1>1. /\ k \in Seqs /\ k <= head /\ job[k].st = "finished" /\ holders[k] = {"job"}
      /\ Head(posted) = k /\ posted' = << >> /\ tail' = k
      /\ job' \in [Seqs -> [st : JobStates, src : 0..MaxFeeds,
                            buf : Buffers \cup {0}, size : Sizes \cup {0}]]
      /\ job'[k].st = "done"
      /\ \A j \in Seqs :
           /\ job'[j].src = job[j].src /\ job'[j].buf = job[j].buf
           /\ job'[j].size = job[j].size
           /\ j # k => \/ job'[j].st = job[j].st
                       \/ job[j].st = "asleep" /\ job'[j].st = "running"
  BY <1>0, DoneJob
<1>2. /\ UNCHANGED <<fed, accepted, head, work, pool, leaked, state>>
      /\ IF state = "open"
         THEN delivered' = Append(delivered, job[k].src)
         ELSE delivered' = delivered
  BY <1>1 DEF OnWorkDone
<1>3. /\ head \in Nat /\ tail \in Nat /\ tail <= head /\ fed \in Nat
      /\ delivered \in Seq(Seqs) /\ accepted \in Seq(Seqs)
      /\ k \in Nat /\ holders \in [Seqs -> SUBSET {"job", "encoder"}]
      /\ list \subseteq Seqs
  BY <1>0 DEF IInv, TypeOK
<1>4. k \in Held
  BY <1>1 DEF Held
<1>5. /\ holders' = [holders EXCEPT ![k] = IF kept THEN {"encoder"} ELSE {}]
      /\ list' = IF kept THEN list \cup {k} ELSE (list \cup {k}) \ {k}
      /\ unlinked' = unlinked
      /\ kept => UNCHANGED <<buf, queue>>
      /\ ~kept => /\ buf' = BufferUnref(job[k].buf, buf, queue).bufs
                  /\ queue' = BufferUnref(job[k].buf, buf, queue).queue
  <2>1. CASE kept
    BY <1>1, <2>1 DEF OnWorkDone
  <2>2. CASE ~kept
    <3>1. FrameUnref(k, "job", list \cup {k})
      BY <1>1, <2>2 DEF OnWorkDone
    <3>2. holders[k] \ {"job"} = {} /\ k \in list \cup {k}
      BY <1>1
    <3> QED BY <2>2, <3>1, <3>2 DEF FrameUnref
  <2> QED BY <2>1, <2>2
<1>6. /\ holders' \in [Seqs -> SUBSET {"job", "encoder"}]
      /\ holders'[k] = (IF kept THEN {"encoder"} ELSE {})
      /\ \A j \in Seqs \ {k} : holders'[j] = holders[j]
      /\ list' \subseteq Seqs /\ (kept => k \in list')
      /\ \A j \in Seqs \ {k} : j \in list => j \in list'
  BY <1>1, <1>3, <1>5
<1>7. /\ Pooled' /\ Separate'
      /\ queue' \in Seq(Buffers)
      /\ buf' \in [Buffers -> [size : Sizes \cup {0}, pool : Nat]]
  <2>1. CASE kept
    <3>1. Held' = Held /\ Held \subseteq Seqs
      BY <1>1, <1>6, <2>1, ZenonT(40) DEF Held
    <3>2. Used' = Used
      BY <1>1, <3>1 DEF Used
    <3>3. Pooled'
      BY <1>2, <1>5, <2>1, <3>2 DEF IInv, Pooled
    <3>4. Separate'
      BY <1>1, <1>5, <2>1, <3>1 DEF IInv, Separate
    <3> QED BY <1>5, <2>1, <3>3, <3>4 DEF IInv, TypeOK
  <2>2. CASE ~kept
    <3>1. /\ holders' = [holders EXCEPT ![k] = {}]
          /\ buf' = BufferUnref(job[k].buf, buf, queue).bufs
          /\ queue' = BufferUnref(job[k].buf, buf, queue).queue
      BY <1>5, <2>2
    <3>2. UNCHANGED <<pool, leaked>>
      BY <1>2
    <3>3. \A j \in Seqs : job'[j].buf = job[j].buf /\ job'[j].size = job[j].size
      BY <1>1
    <3> QED BY <1>4, <3>1, <3>2, <3>3, LastUnref
  <2> QED BY <2>1, <2>2
<1>8. delivered' \in Seq(Seqs)
  <2>1. job[k].src \in Seqs
    BY <1>1 DEF IInv, JobOrder
  <2> QED BY <1>2, <1>3, <2>1, SMTT(40)
<1>9. TypeOK'
  <2>1. tail' \in 0..head'
    BY <1>1, <1>2, <1>3
  <2>2. posted' \in Seq(Seqs)
    BY <1>1
  <2>3. touched' \subseteq Seqs
    <3>1. touched' = touched \/ FrameUnref(k, "job", list \cup {k})
      BY <1>1 DEF OnWorkDone
    <3> QED BY <1>1, <3>1 DEF FrameUnref, IInv, TypeOK
  <2> QED BY <1>1, <1>2, <1>5, <1>6, <1>7, <1>8, <2>1, <2>2, <2>3 DEF IInv, TypeOK
<1>10. JobOrder'
  <2>1. \A j \in Seqs :
          /\ j <= tail' => job'[j].st = "done"
          /\ tail' < j /\ j <= head' => job'[j].st \in InFlight \cup {"lost"}
          /\ head' < j => job'[j].st = "none"
          /\ job'[j].st # "none" => job'[j].src \in Seqs /\ job'[j].buf \in Buffers
    <3>1. TAKE j \in Seqs
    <3>2. /\ j <= tail => job[j].st = "done"
          /\ tail < j /\ j <= head => job[j].st \in InFlight \cup {"lost"}
          /\ head < j => job[j].st = "none"
          /\ job[j].st # "none" => job[j].src \in Seqs /\ job[j].buf \in Buffers
      BY DEF IInv, JobOrder
    <3>3. CASE j = k
      BY <1>1, <1>2, <1>3, <3>2, <3>3
    <3>4. CASE j # k
      BY <1>0, <1>1, <1>2, <1>3, <3>2, <3>4 DEF InFlight, Seqs
    <3> QED BY <3>3, <3>4
  <2> QED BY <1>1, <1>2, <2>1 DEF IInv, JobOrder
<1>11. WorkQueue'
  <2>1. \A i \in 1..Len(work) : job[work[i]].st = "queued" /\ work[i] \in Seqs
    BY ElementOfSeq DEF IInv, WorkQueue, TypeOK
  <2>2. \A i \in 1..Len(work) : job'[work[i]].st = "queued"
    BY <1>1, <2>1
  <2> QED BY <1>2, <2>2 DEF IInv, WorkQueue
<1>12. Holding'
  <2>1. \A j \in Seqs \ {k} :
          (job'[j].st \in InFlight <=> job[j].st \in InFlight)
          /\ (job'[j].st = "done" <=> job[j].st = "done")
    BY <1>1 DEF InFlight
  <2>2. job'[k].st \notin InFlight
    BY <1>1 DEF InFlight
  <2>3. \A j \in Seqs \ {k} :
          /\ job[j].st \in InFlight => holders[j] = {"job"}
          /\ holders[j] # {} =>
               \/ holders[j] = {"job"} /\ job[j].st \in InFlight
               \/ holders[j] = {"encoder"} /\ job[j].st = "done" /\ j \in list
    BY DEF IInv, Holding
  <2>4. \A j \in Seqs \ {k} :
          /\ job'[j].st \in InFlight => holders'[j] = {"job"}
          /\ holders'[j] # {} =>
               \/ holders'[j] = {"job"} /\ job'[j].st \in InFlight
               \/ holders'[j] = {"encoder"} /\ job'[j].st = "done" /\ j \in list'
    BY <1>6, <2>1, <2>3
  <2> QED BY <1>1, <1>6, <2>2, <2>4 DEF Holding
<1>13. (unlinked \subseteq Lost)'
  BY <1>1, <1>5 DEF IInv, Lost
<1>14. (state = "open" => Order)'
  <2>0. SUFFICES ASSUME state = "open" PROVE Order'
    BY <1>2
  <2>1. /\ Len(delivered) <= Len(accepted)
        /\ \A i \in 1..Len(delivered) : delivered[i] = accepted[i]
        /\ \A j \in Seqs : tail < j /\ j <= head /\ NoneLost(j) =>
             /\ Len(delivered) + (j - tail) <= Len(accepted)
             /\ accepted[Len(delivered) + (j - tail)] = job[j].src
        /\ NoneLost(head) => Len(accepted) = Len(delivered) + (head - tail)
    BY <2>0 DEF IInv, Order
  <2>2. /\ delivered' = Append(delivered, job[k].src) /\ accepted' = accepted
        /\ Len(delivered') = Len(delivered) + 1
        /\ delivered'[Len(delivered) + 1] = job[k].src
        /\ \A i \in 1..Len(delivered) : delivered'[i] = delivered[i]
        /\ Len(delivered) \in Nat /\ Len(accepted) \in Nat
    BY <1>2, <1>3, <2>0, SMTT(40)
  <2>3. \A j \in Seqs : NoneLost(j)' => NoneLost(j)
    BY <1>0, <1>1, <1>3 DEF NoneLost, Seqs
  <2>4. NoneLost(head)' => NoneLost(head)
    BY <1>0, <1>1, <1>2, <1>3 DEF NoneLost, Seqs
  <2>5. NoneLost(k)
    BY <1>0, <1>1, <1>3 DEF NoneLost, Seqs
  <2>6. Len(delivered) + 1 <= Len(accepted) /\ accepted[Len(delivered) + 1] = job[k].src
    <3>1. k - tail = 1 /\ tail < k
      BY <1>0, <1>3
    <3> QED BY <1>1, <2>1, <2>5, <3>1
  <2>7. \A i \in 1..Len(delivered') : delivered'[i] = accepted'[i]
    <3>1. TAKE i \in 1..Len(delivered')
    <3>2. CASE i \in 1..Len(delivered)
      BY <2>1, <2>2, <3>2
    <3>3. CASE i = Len(delivered) + 1
      BY <2>2, <2>6, <3>3
    <3> QED BY <2>2, <3>2, <3>3
  <2>8. ASSUME NEW j \in Seqs, tail' < j, j <= head', NoneLost(j)'
        PROVE  /\ Len(delivered') + (j - tail') <= Len(accepted')
               /\ accepted'[Len(delivered') + (j - tail')] = job'[j].src
    <3>1. tail < j /\ j <= head /\ NoneLost(j) /\ j \in Nat
      BY <1>0, <1>1, <1>2, <1>3, <2>3, <2>8 DEF Seqs
    <3>2. Len(delivered') + (j - tail') = Len(delivered) + (j - tail)
      BY <1>0, <1>1, <1>3, <2>2, <3>1
    <3> QED BY <1>1, <2>1, <2>2, <3>1, <3>2
  <2>9. NoneLost(head)' => Len(accepted') = Len(delivered') + (head' - tail')
    <3>1. Len(delivered') + (head' - tail') = Len(delivered) + (head - tail)
      BY <1>0, <1>1, <1>2, <1>3, <2>2
    <3> QED BY <2>1, <2>2, <2>4, <3>1
  <2>10. Len(delivered') <= Len(accepted')
    BY <2>2, <2>6
  <2> QED BY <2>7, <2>8, <2>9, <2>10 DEF Order
<1>15. Ends'
  BY <1>0, <1>1, <1>2, <1>3 DEF IInv, Ends
<1> QED
  BY <1>7, <1>9, <1>10, <1>11, <1>12, <1>13, <1>14, <1>15 DEF IInv

LEMMA EncoderUnrefStep ==
  ASSUME IInv, NEW k \in Seqs, EncoderUnref(k)
  PROVE  IInv'
<1>1. holders[k] = {"encoder"} /\ job[k].st = "done" /\ k \in list /\ k \in Held
  BY DEF IInv, Holding, EncoderUnref, Held
<1>2. UNCHANGED <<fed, accepted, delivered, head, tail, job, work, posted,
                  pool, leaked, state>>
  BY DEF EncoderUnref
<1>3. /\ holders' = [holders EXCEPT ![k] = {}]
      /\ list' = list \ {k} /\ unlinked' = unlinked
      /\ buf' = BufferUnref(job[k].buf, buf, queue).bufs
      /\ queue' = BufferUnref(job[k].buf, buf, queue).queue
  <2>1. holders[k] \ {"encoder"} = {}
    BY <1>1
  <2> QED BY <1>1, <2>1 DEF EncoderUnref, FrameUnref
<1>4. /\ Pooled' /\ Separate'
      /\ queue' \in Seq(Buffers)
      /\ buf' \in [Buffers -> [size : Sizes \cup {0}, pool : Nat]]
  <2>1. /\ UNCHANGED <<pool, leaked>>
        /\ \A j \in Seqs : job'[j].buf = job[j].buf /\ job'[j].size = job[j].size
    BY <1>2
  <2> QED BY <1>1, <1>3, <2>1, LastUnref
<1>5. /\ holders' \in [Seqs -> SUBSET {"job", "encoder"}]
      /\ holders'[k] = {} /\ \A j \in Seqs \ {k} : holders'[j] = holders[j]
  BY <1>3 DEF IInv, TypeOK
<1>6. TypeOK'
  <2>1. touched' \subseteq Seqs
    BY DEF EncoderUnref, FrameUnref, IInv, TypeOK
  <2> QED BY <1>2, <1>3, <1>4, <1>5, <2>1 DEF IInv, TypeOK
<1>7. JobOrder' /\ WorkQueue' /\ (unlinked \subseteq Lost)' /\ Ends'
  BY <1>2, <1>3 DEF IInv, JobOrder, WorkQueue, Lost, Ends
<1>8. Holding'
  <2>1. job'[k].st \notin InFlight
    BY <1>1, <1>2 DEF InFlight
  <2> QED BY <1>2, <1>3, <1>5, <2>1 DEF IInv, Holding
<1>9. (state = "open" => Order)'
  BY <1>2 DEF IInv, Order, NoneLost
<1> QED
  BY <1>4, <1>6, <1>7, <1>8, <1>9 DEF IInv

LEMMA DestroyBeginStep ==
  ASSUME IInv, DestroyBegin
  PROVE  IInv'
<1>1. /\ state' = "draining"
      /\ UNCHANGED <<fed, accepted, delivered, head, tail, job, work, posted,
                     holders, list, unlinked, pool, queue, buf, leaked, touched>>
  BY DEF DestroyBegin
<1>2. TypeOK'
  BY <1>1 DEF IInv, TypeOK
<1>3. JobOrder' /\ WorkQueue' /\ Holding' /\ (unlinked \subseteq Lost)'
  BY <1>1 DEF IInv, JobOrder, WorkQueue, Holding, Lost
<1>4. Pooled' /\ Separate'
  BY <1>1 DEF IInv, Pooled, Separate, Held, Used
<1> QED BY <1>1, <1>2, <1>3, <1>4 DEF IInv, Ends

LEMMA DestroyEndStep ==
  ASSUME IInv, DestroyEnd
  PROVE  IInv'
<1>1. /\ state' = "freed" /\ tail = head /\ queue' = << >> /\ buf' = PoolDestroyed(buf)
      /\ UNCHANGED <<fed, accepted, delivered, head, tail, job, work, posted,
                     holders, list, unlinked, pool, leaked, touched>>
  BY DEF DestroyEnd, Idle
<1>2. Held' = Held /\ Used' = Used
  BY <1>1 DEF Held, Used
<1>3. /\ PoolOK(PoolDestroyed(buf), << >>, pool, Used, leaked)
      /\ \A b \in Used \cup leaked : PoolDestroyed(buf)[b].size = buf[b].size
  BY DestroyOK DEF IInv
<1>4. Pooled'
  BY <1>1, <1>2, <1>3 DEF Pooled
<1>5. Separate'
  <2>1. \A k \in Held : job[k].buf \in Used
    BY DEF Used
  <2> QED BY <1>1, <1>2, <1>3, <2>1 DEF IInv, Separate
<1>6. TypeOK'
  <2>1. buf' \in [Buffers -> [size : Sizes \cup {0}, pool : Nat]]
    <3>1. /\ buf' \in [Buffers -> [size : Sizes \cup {0}, pool : {0, pool.gen}]]
          /\ pool.gen \in Nat
      BY <1>1, <1>3 DEF PoolOK
    <3> QED BY <3>1
  <2> QED BY <1>1, <2>1 DEF IInv, TypeOK
<1>7. JobOrder' /\ WorkQueue' /\ Holding' /\ (unlinked \subseteq Lost)'
  BY <1>1 DEF IInv, JobOrder, WorkQueue, Holding, Lost
<1> QED BY <1>1, <1>4, <1>5, <1>6, <1>7 DEF IInv, Ends

LEMMA StutterStep ==
  ASSUME IInv, UNCHANGED vars
  PROVE  IInv'
<1>1. TypeOK' /\ JobOrder' /\ WorkQueue' /\ Holding'
  BY DEF IInv, vars, TypeOK, JobOrder, WorkQueue, Holding
<1>2. Pooled' /\ Separate'
  BY DEF IInv, vars, Pooled, Separate, Held, Used
<1>3. (unlinked \subseteq Lost)' /\ (state = "open" => Order)' /\ Ends'
  BY DEF IInv, vars, Lost, Order, NoneLost, Ends
<1> QED BY <1>1, <1>2, <1>3 DEF IInv

(* Every step keeps the inductive invariant. *)
LEMMA NextIInv == IInv /\ [Next]_vars => IInv'
<1> SUFFICES ASSUME IInv, [Next]_vars PROVE IInv'
  OBVIOUS
<1>1. CASE FeedDirect
  BY <1>1, FeedDirectStep
<1>2. CASE \E s \in Sizes : FeedNoBuffer(s)
  BY <1>2, FeedNoBufferStep
<1>3. CASE \E s \in Sizes, b \in Buffers : FeedJob(s, b)
  BY <1>3, FeedJobStep
<1>4. CASE \E s \in Sizes, b \in Buffers : FeedLost(s, b)
  BY <1>4, FeedLostStep
<1>5. CASE \E s \in Sizes, b \in Buffers : FeedNoFrame(s, b)
  BY <1>5, FeedNoFrameStep
<1>6. CASE \E s \in Sizes, b \in Buffers : FeedNoSideData(s, b)
  BY <1>6, FeedNoSideDataStep
<1>7. CASE WorkerTake
  BY <1>7, WorkerTakeStep
<1>8. CASE \E k \in Seqs : WorkerCheck(k)
  BY <1>8, WorkerCheckStep
<1>9. CASE \E kept \in BOOLEAN : OnWorkDone(kept)
  BY <1>9, OnWorkDoneStep
<1>10. CASE \E k \in Seqs : EncoderUnref(k)
  BY <1>10, EncoderUnrefStep
<1>11. CASE DestroyBegin
  BY <1>11, DestroyBeginStep
<1>12. CASE DestroyEnd
  BY <1>12, DestroyEndStep
<1>13. CASE UNCHANGED vars
  BY <1>13, StutterStep
<1> QED
  BY <1>1, <1>2, <1>3, <1>4, <1>5, <1>6, <1>7, <1>8, <1>9, <1>10, <1>11, <1>12,
     <1>13 DEF Next, Feed, Worker, Dispatch

LEMMA Invariance == Spec => []IInv
BY InitIInv, NextIInv, PTL DEF Spec

-----------------------------------------------------------------------------
(* The state of the compositor, of its jobs and of the pools stays of the   *)
(* right type: compositor.c, frame-pool.c, buffer-pool.c.                   *)
THEOREM TypeCorrect == Spec => []TypeOK
<1>1. IInv => TypeOK
  BY DEF IInv
<1> QED BY <1>1, Invariance, PTL

(* The invariant implies that buffers are exclusive. *)
LEMMA IInvExclusive == IInv => BufferExclusive
<1> SUFFICES ASSUME IInv PROVE BufferExclusive
  OBVIOUS
<1>1. \A b : b \in Waiting <=> \E i \in 1..Len(queue) : queue[i] = b
  BY DEF IInv, Pooled, PoolOK, Waiting
<1>2. \A k \in Seqs : holders[k] # {} <=> k \in Held
  BY DEF Held
<1>3. \A k \in Held : job[k].buf \in Used
  BY DEF Used
<1>4. \A b \in Used : b \notin Waiting
  BY <1>1 DEF IInv, Pooled, PoolOK
<1>5. \A k \in Seqs : holders[k] # {} =>
        /\ job[k].buf \notin Waiting
        /\ buf[job[k].buf].size = job[k].size
        /\ \A j \in Seqs \ {k} : holders[j] # {} => job[j].buf # job[k].buf
  BY <1>2, <1>3, <1>4 DEF IInv, Separate
<1>6. \A b \in Waiting : buf[b].size = pool.size
  BY <1>1 DEF IInv, Pooled, PoolOK
<1>7. \A b \in Used : InUse(b)
  BY DEF Used, InUse, Held
<1>8. \A b \in Buffers : Allocated(b) => InUse(b) \/ b \in Waiting \cup leaked
  BY <1>1, <1>7 DEF IInv, Pooled, PoolOK, Allocated
<1> QED BY <1>5, <1>6, <1>8 DEF BufferExclusive

(* No two composites that are drawn or encoded share a buffer, none of them *)
(* uses one that waits in the pool, each has a buffer of its own size, and  *)
(* no buffer is lost but those of the error path without side data          *)
(* (nvnc_buffer_unref, nvnc_frame_pool_resize, compositor_feed).            *)
THEOREM BuffersExclusive == Spec => []BufferExclusive
BY Invariance, IInvExclusive, PTL

(* The invariant implies the order of the completions. *)
LEMMA IInvInOrder == IInv => JobsInOrder
<1> SUFFICES ASSUME IInv PROVE JobsInOrder
  OBVIOUS
<1>1. posted # << >> => Head(posted) = tail + 1
  BY DEF IInv, JobOrder
<1>2. state = "freed" => \A k \in Seqs : job[k].st \notin InFlight
  <2>1. ASSUME state = "freed", NEW k \in Seqs
        PROVE  job[k].st \notin InFlight
    <3>1. tail = head /\ tail \in Nat /\ k \in Nat
      BY <2>1 DEF IInv, TypeOK, Ends, Seqs
    <3>2. job[k].st = "done" \/ job[k].st = "none"
      BY <3>1 DEF IInv, JobOrder
    <3> QED BY <3>2 DEF InFlight
  <2> QED BY <2>1
<1>3. state = "freed" => Busy = {}
  BY <1>2 DEF Busy, InFlight
<1>4. state = "freed" => work = << >>
  <2>1. work \in Seq(Seqs)
    BY DEF IInv, TypeOK
  <2>2. work # << >> => work[1] \in Seqs /\ job[work[1]].st = "queued"
    <3>1. work # << >> => 1 \in 1..Len(work)
      BY <2>1, EmptySeq
    <3> QED BY <2>1, <3>1, ElementOfSeq DEF IInv, WorkQueue
  <2> QED BY <1>2, <2>2 DEF InFlight
<1>5. state = "freed" => posted = << >>
  BY <1>2 DEF IInv, JobOrder, InFlight
<1> QED BY <1>1, <1>3, <1>4, <1>5 DEF IInv, JobsInOrder

(* The assertion of on_work_done holds, side data leaves the list only      *)
(* while it is in it, and compositor_destroy leaves no job behind that      *)
(* would use the compositor.                                                *)
THEOREM CompletionsInOrder == Spec => []JobsInOrder
BY Invariance, IInvInOrder, PTL

-----------------------------------------------------------------------------
(* The compositor implements the ordered pipeline.  A composite that passes *)
(* through finds that nothing is in flight, and so nothing is undelivered;  *)
(* the job that on_work_done completes is that of the oldest composite      *)
(* which has not been handed over.                                          *)
LEMMA StepRefines ==
  ASSUME IInv, [Next]_vars
  PROVE  [Ordered!OJNext]_(Ordered!OJvars)
<1> USE DEF Ordered!OJvars
<1>1. CASE FeedDirect
  <2>1. /\ state = "open" /\ state' = state /\ tail = head /\ fed' = fed + 1
        /\ accepted' = Append(accepted, fed') /\ delivered' = Append(delivered, fed')
        /\ fed < MaxFeeds
    BY <1>1 DEF FeedDirect, Idle
  <2>2. fed' \in Seqs
    BY <2>1, CompositorConstants DEF IInv, TypeOK, Seqs
  <2>3. delivered = accepted
    <3>1. /\ delivered \in Seq(Seqs) /\ accepted \in Seq(Seqs) /\ head \in Nat
          /\ Len(delivered) \in Nat
      BY DEF IInv, TypeOK
    <3>2. NoneLost(head)
      BY <2>1, <3>1 DEF NoneLost, Seqs
    <3>3. /\ Len(accepted) = Len(delivered) + (head - tail)
          /\ \A i \in 1..Len(delivered) : delivered[i] = accepted[i]
      BY <2>1, <3>2 DEF IInv, Order
    <3>4. Len(accepted) = Len(delivered)
      BY <2>1, <3>1, <3>3
    <3> QED BY <3>1, <3>3, <3>4, SeqEqual
  <2>4. Ordered!PassThrough
    BY <2>1, <2>2, <2>3 DEF Ordered!PassThrough
  <2> QED BY <2>4 DEF Ordered!OJNext
<1>2. CASE \E s \in Sizes, b \in Buffers : FeedJob(s, b)
  <2>1. /\ state = "open" /\ state' = state /\ fed' = fed + 1 /\ fed < MaxFeeds
        /\ accepted' = Append(accepted, fed') /\ delivered' = delivered
    BY <1>2 DEF FeedJob
  <2>2. fed' \in Seqs
    BY <2>1, CompositorConstants DEF IInv, TypeOK, Seqs
  <2>3. Ordered!Accept
    BY <2>1, <2>2 DEF Ordered!Accept
  <2> QED BY <2>3 DEF Ordered!OJNext
<1>3. CASE \E kept \in BOOLEAN : OnWorkDone(kept)
  <2>1. PICK kept \in BOOLEAN : OnWorkDone(kept)
    BY <1>3
  <2>2. PICK k : k = tail + 1
    OBVIOUS
  <2>3. k \in Seqs /\ k <= head /\ job[k].st = "finished" /\ Head(posted) = k
    BY <2>1, <2>2, DoneJob
  <2>4. CASE state # "open"
    <3>1. UNCHANGED <<accepted, delivered, state>>
      BY <2>1, <2>4 DEF OnWorkDone
    <3> QED BY <3>1
  <2>5. CASE state = "open"
    <3>1. /\ delivered' = Append(delivered, job[k].src)
          /\ UNCHANGED <<accepted, state>>
      BY <2>1, <2>3, <2>5 DEF OnWorkDone
    <3>2. tail \in Nat /\ Len(delivered) \in Nat /\ Len(accepted) \in Nat
      BY DEF IInv, TypeOK
    <3>3. NoneLost(k)
      BY <2>2, <2>3, <3>2 DEF NoneLost, Seqs
    <3>4. k - tail = 1 /\ tail < k
      BY <2>2, <3>2
    <3>5. /\ Len(delivered) + (k - tail) <= Len(accepted)
          /\ accepted[Len(delivered) + (k - tail)] = job[k].src
      BY <2>3, <2>5, <3>3, <3>4 DEF IInv, Order
    <3>6. Len(delivered) < Len(accepted)
      BY <3>2, <3>4, <3>5
    <3>7. Ordered!Deliver
      BY <2>5, <3>1, <3>4, <3>5, <3>6 DEF Ordered!Deliver
    <3> QED BY <3>7 DEF Ordered!OJNext
  <2> QED BY <2>4, <2>5
<1>4. CASE DestroyBegin
  <2>1. Ordered!Close
    BY <1>4 DEF DestroyBegin, Ordered!Close
  <2> QED BY <2>1 DEF Ordered!OJNext
<1>5. CASE DestroyEnd
  <2>1. UNCHANGED <<accepted, delivered>> /\ state # "open" /\ state' # "open"
    BY <1>5 DEF DestroyEnd
  <2> QED BY <2>1
<1>6. CASE \/ \E s \in Sizes : FeedNoBuffer(s)
           \/ \E s \in Sizes, b \in Buffers :
                FeedLost(s, b) \/ FeedNoFrame(s, b) \/ FeedNoSideData(s, b)
  <2>1. UNCHANGED <<accepted, delivered, state>>
    BY <1>6 DEF FeedNoBuffer, FeedLost, FeedNoFrame, FeedNoSideData, FeedFailed
  <2> QED BY <2>1
<1>7. CASE Worker \/ \E k \in Seqs : EncoderUnref(k)
  <2>1. UNCHANGED <<accepted, delivered, state>>
    BY <1>7 DEF Worker, WorkerTake, WorkerCheck, EncoderUnref
  <2> QED BY <2>1
<1>8. CASE UNCHANGED vars
  BY <1>8 DEF vars
<1> QED
  BY <1>1, <1>2, <1>3, <1>4, <1>5, <1>6, <1>7, <1>8 DEF Next, Feed, Dispatch

(* Composites are handed to the encoder once, in the order in which         *)
(* compositor_feed took them, whatever the worker threads do, also when     *)
(* some pass straight through, and none after compositor_destroy.           *)
THEOREM RefinesOrderedJobs == Spec => ImplementsOrderedJobs
<1>1. Init => Ordered!OJInit
  BY DEF Init, Ordered!OJInit
<1>2. IInv /\ [Next]_vars => [Ordered!OJNext]_(Ordered!OJvars)
  BY StepRefines
<1> QED
  BY <1>1, <1>2, Invariance, PTL DEF Spec, ImplementsOrderedJobs, Ordered!OJSpec

=============================================================================
