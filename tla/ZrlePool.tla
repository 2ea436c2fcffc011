------------------------------ MODULE ZrlePool ------------------------------
(***************************************************************************)
(* ZRLE encoders that share the event loop's pool of worker threads        *)
(* (enc/zrle.c).  The job that encodes a frame runs on a worker and, for   *)
(* each rectangle, schedules deflate jobs on the same pool and then blocks *)
(* its worker until they are done.  Which bytes they carry and in which    *)
(* order they are put out is the subject of ParallelDeflate.               *)
(***************************************************************************)
EXTENDS Integers, Sequences, FiniteSets

CONSTANTS
  Encoders,    \* one for each client that uses ZRLE
  Workers,     \* the threads of the pool
  MaxRects,    \* bound: rectangles of a frame
  MaxBlocks,   \* bound: deflate jobs of a rectangle
  MaxFrames    \* bound: frames per encoder

ASSUME ZrlePoolConstants ==
  /\ IsFiniteSet(Encoders) /\ IsFiniteSet(Workers)
  /\ MaxRects \in Nat \ {0}
  /\ MaxBlocks \in Nat \ {0}
  /\ MaxFrames \in Nat

VARIABLES
  work,      \* the pool's queue of jobs that no worker has taken
  running,   \* what each worker does
  stage,     \* what each encoder does, see Stages
  rects,     \* the rectangles of its frame not yet begun
  blocks,    \* the deflate jobs of its rectangle not yet scheduled
  open,      \* the deflate jobs scheduled and not done
  frames     \* bound: frames encoded

poolVars == <<work, running, stage, rects, blocks, open, frames>>

(* "idle": no frame (current_fb is empty); "queued": its job waits for a    *)
(* worker; "feeding" and "syncing": its job is in the tiles of a rectangle, *)
(* or blocked in parallel_deflate_sync; "done": zrle_encoder_on_done is due *)
(* on the main thread.                                                      *)
Stages == {"idle", "queued", "feeding", "syncing", "done"}

NoTask == [type |-> "none"]
Encode(e) == [type |-> "encode", enc |-> e]
Deflate(e) == [type |-> "deflate", enc |-> e]
Tasks == {NoTask} \cup {Encode(e) : e \in Encoders}
                  \cup {Deflate(e) : e \in Encoders}

PoolInit ==
  /\ work = << >>
  /\ running = [w \in Workers |-> NoTask]
  /\ stage = [e \in Encoders |-> "idle"]
  /\ rects = [e \in Encoders |-> 0]
  /\ blocks = [e \in Encoders |-> 0]
  /\ open = [e \in Encoders |-> 0]
  /\ frames = [e \in Encoders |-> 0]

(* zrle_encoder_encode, on the main thread. *)
EncodeFrame(e) ==
  /\ stage[e] = "idle"
  /\ frames[e] < MaxFrames
  /\ \E n \in 1..MaxRects : rects' = [rects EXCEPT ![e] = n]
  /\ frames' = [frames EXCEPT ![e] = @ + 1]
  /\ stage' = [stage EXCEPT ![e] = "queued"]
  /\ work' = Append(work, Encode(e))
  /\ UNCHANGED <<running, blocks, open>>

(* A worker takes the first job of the queue. *)
TakeWork(w) ==
  /\ running[w] = NoTask
  /\ work # << >>
  /\ running' = [running EXCEPT ![w] = Head(work)]
  /\ work' = Tail(work)
  /\ UNCHANGED <<stage, rects, blocks, open, frames>>

(* The frame is new, or parallel_deflate_sync has returned. *)
RectIsDone(e) == stage[e] = "queued" \/ (stage[e] = "syncing" /\ open[e] = 0)

(* zrle_encode_frame goes on to the next rectangle. *)
NextRect(w, e) ==
  /\ running[w] = Encode(e)
  /\ RectIsDone(e)
  /\ rects[e] > 0
  /\ rects' = [rects EXCEPT ![e] = @ - 1]
  /\ \E n \in 1..MaxBlocks : blocks' = [blocks EXCEPT ![e] = n]
  /\ stage' = [stage EXCEPT ![e] = "feeding"]
  /\ UNCHANGED <<work, running, open, frames>>

(* schedule_deflate_job, for a full block or for what is left at the end. *)
ScheduleBlock(w, e) ==
  /\ running[w] = Encode(e)
  /\ stage[e] = "feeding" /\ blocks[e] > 0
  /\ blocks' = [blocks EXCEPT ![e] = @ - 1]
  /\ open' = [open EXCEPT ![e] = @ + 1]
  /\ work' = Append(work, Deflate(e))
  /\ UNCHANGED <<running, stage, rects, frames>>

(* parallel_deflate_flush begins to wait. *)
BeginSync(w, e) ==
  /\ running[w] = Encode(e)
  /\ stage[e] = "feeding" /\ blocks[e] = 0
  /\ stage' = [stage EXCEPT ![e] = "syncing"]
  /\ UNCHANGED <<work, running, rects, blocks, open, frames>>

FrameIsComplete(e) == stage[e] = "syncing" /\ rects[e] = 0 /\ open[e] = 0

(* zrle_encoder_do_work returns, and the main thread is notified. *)
EndOfFrame(w, e) ==
  /\ running[w] = Encode(e)
  /\ FrameIsComplete(e)
  /\ running' = [running EXCEPT ![w] = NoTask]
  /\ stage' = [stage EXCEPT ![e] = "done"]
  /\ UNCHANGED <<work, rects, blocks, open, frames>>

(* Mutant: the deflated chunk is lost. *)
RunDeflateLost(w, e) ==
  /\ running[w] = Deflate(e)
  /\ running' = [running EXCEPT ![w] = NoTask]
  /\ UNCHANGED <<work, stage, rects, blocks, open, frames>>

(* do_work of a deflate job. *)
RunDeflate(w, e) ==
  /\ running[w] = Deflate(e)
  /\ running' = [running EXCEPT ![w] = NoTask]
  /\ open' = [open EXCEPT ![e] = @ - 1]
  /\ UNCHANGED <<work, stage, rects, blocks, frames>>

(* zrle_encoder_on_done, on the main thread. *)
OnDone(e) ==
  /\ stage[e] = "done"
  /\ stage' = [stage EXCEPT ![e] = "idle"]
  /\ UNCHANGED <<work, running, rects, blocks, open, frames>>

WorkerStep(w) ==
  \/ TakeWork(w)
  \/ \E e \in Encoders :
       \/ NextRect(w, e) \/ ScheduleBlock(w, e) \/ BeginSync(w, e)
       \/ EndOfFrame(w, e) \/ RunDeflate(w, e)

PoolNext ==
  \/ \E e \in Encoders : EncodeFrame(e) \/ OnDone(e)
  \/ \E w \in Workers : WorkerStep(w)

PoolSpec == PoolInit /\ [][PoolNext]_poolVars

(* Threads that can run do, and the main loop sees the jobs that are done. *)
PoolFairness ==
  /\ \A w \in Workers : WF_poolVars(WorkerStep(w))
  /\ \A e \in Encoders : WF_poolVars(OnDone(e))

FairPoolSpec == PoolSpec /\ PoolFairness

-----------------------------------------------------------------------------
PoolTypeOK ==
  /\ work \in Seq(Tasks \ {NoTask})
  /\ running \in [Workers -> Tasks]
  /\ stage \in [Encoders -> Stages]
  /\ rects \in [Encoders -> 0..MaxRects]
  /\ blocks \in [Encoders -> 0..MaxBlocks]
  /\ open \in [Encoders -> 0..MaxBlocks]
  /\ frames \in [Encoders -> 0..MaxFrames]

(* Every worker runs the job of a frame that is blocked in                  *)
(* parallel_deflate_sync, and none is left to run the deflate jobs that     *)
(* they wait for.                                                           *)
Deadlock ==
  \A w \in Workers :
    \E e \in Encoders :
      running[w] = Encode(e) /\ stage[e] = "syncing" /\ open[e] > 0

(* Every frame given to zrle_encoder_encode is encoded at last, unless      *)
(* each worker waits for deflate jobs that no worker is left to run: with   *)
(* the two workers that zrle_encoder_new asks for and two clients, that is  *)
(* the one way in which the pool can hang.                                  *)
FramesEncoded ==
  \A e \in Encoders : stage[e] = "queued" ~> (stage[e] = "idle" \/ Deadlock)

=============================================================================
