----------------------------- MODULE Compositor -----------------------------
(***************************************************************************)
(* The compositor of a client (compositor.c) with the frame pool and the   *)
(* buffer pool it draws into (frame-pool.c, buffer-pool.c, buffer.c).  The *)
(* main thread feeds it; jobs run on worker threads, wait there for the    *)
(* jobs before them, and are completed by the main thread, which hands the *)
(* composite to an encoder.  The encoder may keep it after the compositor  *)
(* has been destroyed.  compositor_destroy runs the event loop until every *)
(* job has been completed.                                                 *)
(*                                                                         *)
(* Job k is the one with sequence number k; its destination frame and the  *)
(* side data of that frame are named k too: nvnc_frame_pool_acquire makes  *)
(* a new frame for each job, only the buffers are used again.              *)
(***************************************************************************)
EXTENDS Naturals, Sequences, FiniteSets

CONSTANTS
  Workers,    \* the number of worker threads that this compositor may use
  Sizes,      \* sizes of composites (the dimensions and format of the pool);
              \* 0 stands for no dimensions
  Buffers,    \* bound: the buffers there can be at a time
  MaxFeeds    \* bound: the composites that are fed

ASSUME CompositorConstants ==
  /\ Workers \in Nat \ {0}
  /\ MaxFeeds \in Nat
  /\ IsFiniteSet(Buffers)
  /\ 0 \notin Sizes

VARIABLES
  fed,        \* bound: the calls of compositor_feed
  accepted,   \* the composites it returned 0 for, in order
  delivered,  \* the composites that on_done was called with, in order
  head,       \* seq_head
  tail,       \* seq_tail
  job,        \* the jobs by sequence number
  work,       \* the pool's queue of jobs that no worker has taken
  posted,     \* jobs whose completion is due on the main thread
  holders,    \* who holds a reference to each destination frame
  list,       \* fb_side_data_list: the frames whose side data is linked
  unlinked,   \* frames whose side data was removed when it was not linked
  pool,       \* the frame pool: its size, and which buffer pool it uses
  queue,      \* the buffers that wait in that buffer pool
  buf,        \* each buffer: its size and the pool it observes, 0 for none
  leaked,     \* buffers of frames that nobody holds and nobody freed
  touched,    \* not in the code: the frames that used the list head after it
              \* was freed
  state       \* "open", "draining" (in compositor_destroy) or "freed"

vars == <<fed, accepted, delivered, head, tail, job, work, posted, holders,
          list, unlinked, pool, queue, buf, leaked, touched, state>>

Seqs == 1..MaxFeeds
JobStates == {"none", "queued", "running", "asleep", "finished", "done", "lost"}
NoJob == [st |-> "none", src |-> 0, buf |-> 0, size |-> 0]
NoBuf == [size |-> 0, pool |-> 0]

(* compositor_create: the pool starts without dimensions. *)
Init ==
  /\ fed = 0
  /\ accepted = << >> /\ delivered = << >>
  /\ head = 0 /\ tail = 0
  /\ job = [k \in Seqs |-> NoJob]
  /\ work = << >> /\ posted = << >>
  /\ holders = [k \in Seqs |-> {}]
  /\ list = {} /\ unlinked = {}
  /\ pool = [size |-> 0, gen |-> 1]
  /\ queue = << >>
  /\ buf = [b \in Buffers |-> NoBuf]
  /\ leaked = {}
  /\ touched = {}
  /\ state = "open"

Idle == tail = head

Allocated(b) == buf[b].size # 0
InUse(b) == \E k \in Seqs : holders[k] # {} /\ job[k].buf = b

-----------------------------------------------------------------------------
(* The pools.  nvnc_frame_pool_resize: new dimensions get a new buffer      *)
(* pool.  The old one frees the buffers that wait in it and tells the       *)
(* others that it is gone (weakref_subject_deinit).                         *)
Resized(size) == size # pool.size

Waiting == {queue[i] : i \in DOMAIN queue}

PoolDestroyed(bufs) ==
  [b \in Buffers |->
     IF b \in Waiting THEN NoBuf
     ELSE IF bufs[b].pool = pool.gen THEN [bufs[b] EXCEPT !.pool = 0]
     ELSE bufs[b]]

PoolAfter(size) ==
  IF Resized(size) THEN [size |-> size, gen |-> pool.gen + 1] ELSE pool

QueueAfter(size) == IF Resized(size) THEN << >> ELSE queue

BufAfter(size) == IF Resized(size) THEN PoolDestroyed(buf) ELSE buf

(* nvnc_buffer_pool_acquire: the first of the queue, or a new buffer.  A    *)
(* buffer observes the pool while it is out of it.                          *)
Acquirable(size) ==
  IF QueueAfter(size) # << >> THEN {Head(QueueAfter(size))}
  ELSE {b \in Buffers : BufAfter(size)[b].size = 0}

AcquiredBuf(b, size) ==
  LET bufs == BufAfter(size)
  IN  [bufs EXCEPT ![b] =
         [size |-> IF bufs[b].size = 0 THEN size ELSE bufs[b].size,
          pool |-> PoolAfter(size).gen]]

QueueAfterAcquire(size) ==
  IF QueueAfter(size) = << >> THEN << >> ELSE Tail(QueueAfter(size))

-----------------------------------------------------------------------------
(* Mutant: it takes a buffer back into whatever pool there is now. *)
BufferToAnyPool(b, bufs, q) ==
  [bufs |-> [bufs EXCEPT ![b].pool = 0], queue |-> Append(q, b)]

(* nvnc_buffer_unref of the last reference: back to the pool that it still  *)
(* observes, or freed.                                                      *)
BufferUnref(b, bufs, q) ==
  IF bufs[b].pool # 0
  THEN [bufs |-> [bufs EXCEPT ![b].pool = 0], queue |-> Append(q, b)]
  ELSE [bufs |-> [bufs EXCEPT ![b] = NoBuf], queue |-> q]

(* Composites enter the list at its head, in order. *)
IsFirst(k, links) == \A j \in links : j <= k

(* nvnc_frame_unref by who.  The last one destroys the frame's side data,   *)
(* which takes itself out of the list, and gives the buffer back.  The head *)
(* of the list is in the compositor: when that was freed, the first one in  *)
(* the list writes to freed memory (touched).  What else is stored there    *)
(* by then is not followed.                                                 *)
FrameUnref(k, who, links) ==
  LET left == holders[k] \ {who}
      back == BufferUnref(job[k].buf, buf, queue)
  IN  /\ holders' = [holders EXCEPT ![k] = left]
      /\ IF left = {}
         THEN /\ list' = links \ {k}
              /\ unlinked' = IF k \in links THEN unlinked ELSE unlinked \cup {k}
              /\ buf' = back.bufs
              /\ queue' = back.queue
         ELSE /\ list' = links
              /\ UNCHANGED <<unlinked, buf, queue>>
      /\ touched' = touched \cup {j \in {k} : left = {} /\ state = "freed" /\ IsFirst(k, links)}

-----------------------------------------------------------------------------
(* Mutant: a composite passes by the jobs that are in flight. *)
PassBy ==
  /\ state = "open" /\ fed < MaxFeeds
  /\ fed' = fed + 1
  /\ accepted' = Append(accepted, fed')
  /\ delivered' = Append(delivered, fed')
  /\ UNCHANGED <<head, tail, job, work, posted, holders, list, unlinked,
                 pool, queue, buf, leaked, touched, state>>

(* compositor_feed, on the main thread, of a composite for which            *)
(* is_compositing_needed is false: with no job in flight it passes straight *)
(* through, else it is a job like the others.                               *)
FeedDirect ==
  /\ state = "open" /\ fed < MaxFeeds
  /\ Idle
  /\ fed' = fed + 1
  /\ accepted' = Append(accepted, fed')
  /\ delivered' = Append(delivered, fed')
  /\ UNCHANGED <<head, tail, job, work, posted, holders, list, unlinked,
                 pool, queue, buf, leaked, touched, state>>

(* The side data of the new frame is put into the list, damaged with the    *)
(* others, and taken out until the job is done.                             *)
FeedJob(size, b) ==
  /\ state = "open" /\ fed < MaxFeeds
  /\ b \in Acquirable(size)
  /\ fed' = fed + 1
  /\ pool' = PoolAfter(size)
  /\ queue' = QueueAfterAcquire(size)
  /\ buf' = AcquiredBuf(b, size)
  /\ head' = head + 1
  /\ job' = [job EXCEPT ![head'] =
               [st |-> "queued", src |-> fed', buf |-> b, size |-> size]]
  /\ holders' = [holders EXCEPT ![head'] = {"job"}]
  /\ work' = Append(work, head')
  /\ accepted' = Append(accepted, fed')
  /\ UNCHANGED <<delivered, tail, posted, list, unlinked, leaked, touched, state>>

(* compositor_feed fails: the pool keeps its new dimensions. *)
FeedFailed(size, bufs, q, lk) ==
  /\ state = "open" /\ fed < MaxFeeds
  /\ fed' = fed + 1
  /\ pool' = PoolAfter(size)
  /\ buf' = bufs /\ queue' = q /\ leaked' = lk
  /\ UNCHANGED <<accepted, delivered, head, tail, job, work, posted, holders,
                 list, unlinked, touched, state>>

(* No memory for the buffer, or for the frame that would own it. *)
FeedNoBuffer(size) ==
  /\ QueueAfter(size) = << >>
  /\ FeedFailed(size, BufAfter(size), << >>, leaked)

FeedNoFrame(size, b) ==
  /\ b \in Acquirable(size)
  /\ LET back == BufferUnref(b, AcquiredBuf(b, size), QueueAfterAcquire(size))
     IN  FeedFailed(size, back.bufs, back.queue, leaked)

(* No memory for the side data: the error path frees the work context only. *)
FeedNoSideData(size, b) ==
  /\ b \in Acquirable(size)
  /\ FeedFailed(size, AcquiredBuf(b, size), QueueAfterAcquire(size),
                leaked \cup {b})

(* No memory for the work object: the frame is given up again, its side     *)
(* data for the second time, but the sequence number has been used.         *)
FeedLost(size, b) ==
  /\ state = "open" /\ fed < MaxFeeds
  /\ b \in Acquirable(size)
  /\ fed' = fed + 1
  /\ pool' = PoolAfter(size)
  /\ LET back == BufferUnref(b, AcquiredBuf(b, size), QueueAfterAcquire(size))
     IN  buf' = back.bufs /\ queue' = back.queue
  /\ head' = head + 1
  /\ job' = [job EXCEPT ![head'] =
               [st |-> "lost", src |-> fed', buf |-> b, size |-> size]]
  /\ unlinked' = unlinked \cup {head'}
  /\ UNCHANGED <<accepted, delivered, tail, work, posted, holders, list, leaked,
                 touched, state>>

Lost == {k \in Seqs : job[k].st = "lost"}

-----------------------------------------------------------------------------
Busy == {k \in Seqs : job[k].st \in {"running", "asleep"}}

(* A worker takes the first job of the queue. *)
WorkerTake ==
  /\ work # << >>
  /\ Cardinality(Busy) < Workers
  /\ job' = [job EXCEPT ![Head(work)].st = "running"]
  /\ work' = Tail(work)
  /\ UNCHANGED <<fed, accepted, delivered, head, tail, posted, holders, list,
                 unlinked, pool, queue, buf, leaked, touched, state>>

(* The end of do_work: composite_buffer_now has drawn into the buffer; with *)
(* the mutex held the job goes on if it is the next one, or sleeps on the   *)
(* condition.                                                               *)
WorkerCheck(k) ==
  /\ job[k].st = "running"
  /\ IF tail + 1 = k
     THEN /\ job' = [job EXCEPT ![k].st = "finished"]
          /\ posted' = Append(posted, k)
     ELSE /\ job' = [job EXCEPT ![k].st = "asleep"]
          /\ UNCHANGED posted
  /\ UNCHANGED <<fed, accepted, delivered, head, tail, work, holders, list,
                 unlinked, pool, queue, buf, leaked, touched, state>>

-----------------------------------------------------------------------------
(* Mutant: the condition is not broadcast. *)
NoBroadcast(jobs) == jobs

(* pthread_cond_broadcast: every job that sleeps looks again. *)
Broadcast(jobs) ==
  [j \in Seqs |-> IF jobs[j].st = "asleep"
                  THEN [jobs[j] EXCEPT !.st = "running"] ELSE jobs[j]]

(* on_work_done, then compositor_work_free, on the main thread: of the      *)
(* event loop, or of the one inside of compositor_destroy.  The encoder     *)
(* that gets the composite takes a reference or is done with it at once.    *)
OnWorkDone(kept) ==
  /\ posted # << >>
  /\ LET k == Head(posted) IN
     /\ posted' = Tail(posted)
     /\ tail' = k
     /\ job' = [Broadcast(job) EXCEPT ![k].st = "done"]
     /\ IF state = "open"
        THEN delivered' = Append(delivered, job[k].src)
        ELSE ~kept /\ UNCHANGED delivered
     /\ IF kept
        THEN /\ holders' = [holders EXCEPT ![k] = {"encoder"}]
             /\ list' = list \cup {k}
             /\ UNCHANGED <<unlinked, buf, queue, touched>>
        ELSE FrameUnref(k, "job", list \cup {k})
  /\ UNCHANGED <<fed, accepted, head, work, pool, leaked, state>>

(* The encoder lets go of a composite, at any time. *)
EncoderUnref(k) ==
  /\ "encoder" \in holders[k]
  /\ FrameUnref(k, "encoder", list)
  /\ UNCHANGED <<fed, accepted, delivered, head, tail, job, work, posted,
                 pool, leaked, state>>

-----------------------------------------------------------------------------
(* compositor_destroy: jobs that are left are completed without on_done. *)
DestroyBegin ==
  /\ state = "open"
  /\ state' = "draining"
  /\ UNCHANGED <<fed, accepted, delivered, head, tail, job, work, posted,
                 holders, list, unlinked, pool, queue, buf, leaked, touched>>

(* Mutant: the loop is left when the queue of the pool is empty. *)
DestroyEarly ==
  /\ state = "draining"
  /\ work = << >>
  /\ state' = "freed"
  /\ buf' = PoolDestroyed(buf)
  /\ queue' = << >>
  /\ UNCHANGED <<fed, accepted, delivered, head, tail, job, work, posted,
                 holders, list, unlinked, pool, leaked, touched>>

DestroyEnd ==
  /\ state = "draining"
  /\ Idle
  /\ state' = "freed"
  /\ buf' = PoolDestroyed(buf)
  /\ queue' = << >>
  /\ UNCHANGED <<fed, accepted, delivered, head, tail, job, work, posted,
                 holders, list, unlinked, pool, leaked, touched>>

-----------------------------------------------------------------------------
Feed ==
  \/ FeedDirect
  \/ \E s \in Sizes :
       \/ FeedNoBuffer(s)
       \/ \E b \in Buffers : \/ FeedJob(s, b)
                             \/ FeedLost(s, b)
                             \/ FeedNoFrame(s, b)
                             \/ FeedNoSideData(s, b)

Dispatch == \E kept \in BOOLEAN : OnWorkDone(kept)

Worker == WorkerTake \/ \E k \in Seqs : WorkerCheck(k)

Next ==
  \/ Feed
  \/ Worker
  \/ Dispatch
  \/ \E k \in Seqs : EncoderUnref(k)
  \/ DestroyBegin
  \/ DestroyEnd

Spec == Init /\ [][Next]_vars

(* Workers run, and the loop inside of compositor_destroy dispatches what   *)
(* is due and ends when it can.                                             *)
FairSpec ==
  /\ Spec
  /\ WF_vars(WorkerTake)
  /\ \A k \in Seqs : WF_vars(WorkerCheck(k))
  /\ WF_vars(Dispatch)
  /\ WF_vars(DestroyEnd)

-----------------------------------------------------------------------------
TypeOK ==
  /\ fed \in 0..MaxFeeds
  /\ accepted \in Seq(Seqs) /\ delivered \in Seq(Seqs)
  /\ head \in 0..MaxFeeds /\ tail \in 0..head
  /\ job \in [Seqs -> [st : JobStates, src : 0..MaxFeeds,
                       buf : Buffers \cup {0}, size : Sizes \cup {0}]]
  /\ work \in Seq(Seqs) /\ posted \in Seq(Seqs)
  /\ holders \in [Seqs -> SUBSET {"job", "encoder"}]
  /\ pool \in [size : Sizes \cup {0}, gen : Nat \ {0}]
  /\ queue \in Seq(Buffers)
  /\ buf \in [Buffers -> [size : Sizes \cup {0}, pool : Nat]]
  /\ leaked \subseteq Buffers /\ touched \subseteq Seqs
  /\ list \subseteq Seqs /\ unlinked \subseteq Seqs
  /\ state \in {"open", "draining", "freed"}

(* The composites that are drawn or encoded use different buffers, none of  *)
(* which waits in the pool, and each buffer has the size that its composite *)
(* needs, although the pool may have been resized since                     *)
(* (nvnc_buffer_unref, nvnc_frame_pool_resize).  Every other buffer waits   *)
(* in the pool or is free memory, but for those that compositor_feed loses  *)
(* when there is no memory for the side data.                               *)
BufferExclusive ==
  /\ \A k \in Seqs : holders[k] # {} =>
       /\ job[k].buf \notin Waiting
       /\ buf[job[k].buf].size = job[k].size
       /\ \A j \in Seqs \ {k} : holders[j] # {} => job[j].buf # job[k].buf
  /\ \A b \in Waiting : buf[b].size = pool.size
  /\ \A b \in Buffers : Allocated(b) => InUse(b) \/ b \in Waiting \cup leaked

(* on_work_done finds the sequence number it asserts, side data is taken    *)
(* out of the list only while it is in it (but for jobs that could not be   *)
(* started), and no job is left that uses a compositor that was freed.      *)
JobsInOrder ==
  /\ posted # << >> => Head(posted) = tail + 1
  /\ unlinked \subseteq Lost
  /\ state = "freed" => Busy = {} /\ work = << >> /\ posted = << >>

Ordered == INSTANCE OrderedJobs WITH Items <- Seqs, closed <- state # "open"

(* The compositor is an ordered pipeline: composites are handed over once,  *)
(* in the order they were fed, also when some of them pass straight through,*)
(* and none after compositor_destroy has begun.                             *)
ImplementsOrderedJobs == Ordered!OJSpec

(* compositor_destroy comes back: the loop inside of it sees the end of     *)
(* every job, unless one could not be started after its number was used.    *)
DestroyReturns == (state = "draining" /\ Lost = {}) ~> (state = "freed")
=============================================================================
