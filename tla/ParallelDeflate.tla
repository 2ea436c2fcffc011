-------------------------- MODULE ParallelDeflate --------------------------
(***************************************************************************)
(* One zlib stream that is deflated in parallel (parallel-deflate.c).  The *)
(* thread of a ZRLE encoding job feeds bytes and syncs; the bytes are cut  *)
(* into blocks, each deflated by a job of the worker pool; the results are *)
(* collected in a list that is sorted by sequence number and are put out   *)
(* in that order.                                                          *)
(*                                                                         *)
(* Bytes are counted, not stored: a piece [n, from, to] holds the bytes    *)
(* from+1..to of what has been fed, and a piece without bytes is the end   *)
(* chunk of a flush.  n counts the pieces without bound; the program only  *)
(* has its uint32_t image Seq32(n), which is what it compares.             *)
(***************************************************************************)
EXTENDS Integers, Sequences, FiniteSets

CONSTANTS
  BlockSize,   \* INPUT_BLOCK_SIZE
  MaxFeed,     \* bound: bytes in one call of parallel_deflate_feed
  MaxBytes,    \* bound: bytes fed altogether
  SeqMod,      \* the number of values of a uint32_t
  MaxPieces    \* the most pieces that one rectangle is cut into

(* A rectangle has at most 2^16 * 2^16 pixels, far fewer blocks than 2^32. *)
ASSUME ParallelDeflateConstants ==
  /\ BlockSize \in Nat \ {0}
  /\ MaxFeed \in Nat
  /\ MaxBytes \in Nat
  /\ SeqMod \in Nat \ {0}
  /\ MaxPieces \in Nat
  /\ MaxPieces < SeqMod

VARIABLES
  fed,       \* bytes given to parallel_deflate_feed
  synced,    \* how many of them before the last parallel_deflate_sync
  cut,       \* bytes handed to deflate jobs; self->input holds fed - cut
  issued,    \* pieces numbered so far: self->seq is Seq32(issued)
  taken,     \* pieces put out so far: self->start_seq is Seq32(taken)
  isAtStart, \* self->is_at_start
  jobs,      \* pieces being deflated by a worker or waiting for one
  chunks,    \* self->output_chunks
  phase,     \* what the feeding thread does, see Phases
  haveEnd,   \* have_end_chunk of consolidate_complete_chunk_segments
  closing,   \* the flush is that of parallel_deflate_destroy
  out        \* the pieces put out; head: after the two bytes of a zlib header

vars == <<fed, synced, cut, issued, taken, isAtStart, jobs, chunks, phase,
          haveEnd, closing, out>>

(* "feed": outside of this module or in parallel_deflate_feed; "scan": in   *)
(* consolidate_complete_chunk_segments, with the mutex; "wait": in          *)
(* pthread_cond_wait; "woken": signalled, without the mutex yet; "freed":   *)
(* after parallel_deflate_destroy.                                          *)
Phases == {"feed", "scan", "wait", "woken", "freed"}

Piece(n, from, to) == [n |-> n, from |-> from, to |-> to]
IsEnd(p) == p.from = p.to

(* Mutant: a sequence number one bit too short. *)
SeqShort(n) == n % (SeqMod \div 2)

Seq32(n) == n % SeqMod

(* c is the first chunk of the list, which insert_output_chunk keeps sorted. *)
IsFirst(c) == \A d \in chunks : Seq32(c.n) <= Seq32(d.n)

Produced == IF out = << >> THEN 0 ELSE out[Len(out)].to

-----------------------------------------------------------------------------
Init ==
  /\ fed = 0 /\ synced = 0 /\ cut = 0 /\ issued = 0 /\ taken = 0
  /\ isAtStart = TRUE
  /\ jobs = {} /\ chunks = {}
  /\ phase = "feed" /\ haveEnd = FALSE /\ closing = FALSE
  /\ out = << >>

(* The full blocks in the input once n bytes have been added to it. *)
Blocks(n) == (fed + n - cut) \div BlockSize

(* parallel_deflate_feed of n bytes: every full block becomes a job. *)
Feed(n) ==
  LET blocks == Blocks(n) IN
  /\ phase = "feed"
  /\ n > 0
  /\ fed + n <= MaxBytes
  /\ issued + blocks + 2 <= taken + MaxPieces
  /\ jobs' = jobs \cup
       {Piece(issued + i, cut + i * BlockSize, cut + (i + 1) * BlockSize) :
          i \in 0..(blocks - 1)}
  /\ issued' = issued + blocks
  /\ cut' = cut + blocks * BlockSize
  /\ fed' = fed + n
  /\ UNCHANGED <<synced, taken, isAtStart, chunks, phase, haveEnd, closing,
                 out>>

(* Mutant: the rest of the input is forgotten. *)
ScheduleNothing == UNCHANGED <<cut, jobs>> /\ issued' = issued + 1

(* parallel_deflate_sync makes a last job of the input that is left. *)
ScheduleRest ==
  /\ cut' = fed
  /\ jobs' = jobs \cup (IF fed > cut THEN {Piece(issued, cut, fed)} ELSE {})
  /\ issued' = issued + (IF fed > cut THEN 2 ELSE 1)

(* parallel_deflate_sync, up to the loop of parallel_deflate_flush: the     *)
(* last job, then the end chunk, which goes straight to the output list.    *)
(* zrle_encode_box syncs after it has fed at least one tile.                *)
Sync ==
  /\ phase = "feed"
  /\ fed > synced
  /\ synced' = fed
  /\ ScheduleRest
  /\ chunks' = chunks \cup {Piece(issued' - 1, cut', cut')}
  /\ phase' = "scan"
  /\ UNCHANGED <<fed, taken, isAtStart, haveEnd, closing, out>>

(* parallel_deflate_destroy: a flush without output.  What is left of the   *)
(* input is not scheduled.  The encoder that owns the object is only        *)
(* destroyed between two frames, when the last rectangle has been synced.   *)
Destroy ==
  /\ phase = "feed"
  /\ fed = synced
  /\ chunks' = chunks \cup {Piece(issued, cut, cut)}
  /\ issued' = issued + 1
  /\ closing' = TRUE
  /\ phase' = "scan"
  /\ UNCHANGED <<fed, synced, cut, taken, isAtStart, jobs, haveEnd, out>>

(* Mutant: the feeding thread is not signalled. *)
SignalNobody == phase

(* The effect of pthread_cond_signal on the feeding thread. *)
Signal == IF phase = "wait" THEN "woken" ELSE phase

(* do_work: a worker deflates a piece and inserts it into the list. *)
DoWork ==
  /\ phase # "scan"
  /\ \E p \in jobs :
       /\ jobs' = jobs \ {p}
       /\ chunks' = chunks \cup {p}
  /\ phase' = Signal
  /\ UNCHANGED <<fed, synced, cut, issued, taken, isAtStart, haveEnd, closing,
                 out>>

(* The feeding thread leaves pthread_cond_wait, with the mutex. *)
WakeUp ==
  /\ phase = "woken"
  /\ phase' = "scan"
  /\ UNCHANGED <<fed, synced, cut, issued, taken, isAtStart, jobs, chunks,
                 haveEnd, closing, out>>

(* It may also do so without having been signalled. *)
SpuriousWakeUp ==
  /\ phase = "wait"
  /\ phase' = "scan"
  /\ UNCHANGED <<fed, synced, cut, issued, taken, isAtStart, jobs, chunks,
                 haveEnd, closing, out>>

(* Mutant: the first chunk is taken whatever its number is. *)
IsAlwaysDue(c) == TRUE

(* c is the next piece of the output. *)
IsDue(c) == Seq32(c.n) = Seq32(taken)

(* The loop body of consolidate_complete_chunk_segments. *)
TakeChunk ==
  /\ phase = "scan"
  /\ \E c \in chunks :
       /\ IsFirst(c)
       /\ IsDue(c)
       /\ chunks' = chunks \ {c}
       /\ haveEnd' = (haveEnd \/ IsEnd(c))
       /\ out' = IF closing THEN out
                 ELSE Append(out, [from |-> c.from, to |-> c.to,
                                   head |-> isAtStart])
  /\ taken' = taken + 1
  /\ isAtStart' = FALSE
  /\ UNCHANGED <<fed, synced, cut, issued, jobs, phase, closing>>

(* Mutant: the flush does not wait for the jobs. *)
FlushIsOverEarly == TRUE

FlushIsOver == haveEnd

(* Its end, and the condition of the loop of parallel_deflate_flush. *)
ScanEnds ==
  /\ phase = "scan"
  /\ \A c \in chunks : IsFirst(c) => ~IsDue(c)
  /\ phase' = IF ~FlushIsOver THEN "wait" ELSE IF closing THEN "freed" ELSE "feed"
  /\ haveEnd' = FALSE
  /\ UNCHANGED <<fed, synced, cut, issued, taken, isAtStart, jobs, chunks,
                 closing, out>>

Next ==
  \/ \E n \in 1..MaxFeed : Feed(n)
  \/ Sync \/ Destroy \/ DoWork \/ WakeUp \/ SpuriousWakeUp
  \/ TakeChunk \/ ScanEnds

Spec == Init /\ [][Next]_vars

(* Workers run their jobs, and the feeding thread runs when it can.  Strong  *)
(* fairness: a worker gets the mutex in the end although spurious wake-ups   *)
(* of the feeding thread may take it from under its nose.                    *)
Fairness ==
  SF_vars(DoWork) /\ WF_vars(WakeUp) /\ WF_vars(TakeChunk) /\ WF_vars(ScanEnds)

FairSpec == Spec /\ Fairness

-----------------------------------------------------------------------------
Pieces == [n : Nat, from : Nat, to : Nat]
Output == [from : Nat, to : Nat, head : BOOLEAN]

TypeOK ==
  /\ fed \in Nat /\ synced \in Nat /\ cut \in Nat
  /\ issued \in Nat /\ taken \in Nat
  /\ synced <= fed /\ cut <= fed /\ taken <= issued
  /\ isAtStart \in BOOLEAN
  /\ jobs \subseteq Pieces /\ chunks \subseteq Pieces
  /\ phase \in Phases
  /\ haveEnd \in BOOLEAN /\ closing \in BOOLEAN
  /\ out \in Seq(Output)

(* The output of consolidate_complete_chunk_segments is the bytes fed, in   *)
(* order, without gap or repetition, whichever job ends first, behind one   *)
(* zlib header.                                                             *)
OutputInOrder ==
  \A i \in DOMAIN out :
    /\ out[i].from = (IF i = 1 THEN 0 ELSE out[i - 1].to)
    /\ out[i].head = (i = 1)

(* parallel_deflate_sync returns only when everything that has been fed is  *)
(* in the output.                                                           *)
SyncFlushes ==
  [][phase = "scan" /\ phase' = "feed" => Produced = fed]_phase

(* The assertion of insert_output_chunk: a chunk that is inserted, now or   *)
(* later, has the sequence number of no chunk in the list, also while the   *)
(* numbers of the pieces that are under way run over the end of a uint32_t. *)
NoSeqClash ==
  \A c \in chunks, d \in chunks \cup jobs :
    c # d => Seq32(c.n) # Seq32(d.n)

(* A worker never touches a parallel_deflate that has been destroyed: its   *)
(* jobs are done, and their chunks are freed.                               *)
NoUseAfterFree == phase = "freed" => jobs = {} /\ chunks = {}

(* The numbers run over the end of a uint32_t between the next piece of the *)
(* output and the end chunk of the flush.  insert_output_chunk then sorts   *)
(* the end chunk before the next piece.                                     *)
Wraps == issued > taken /\ Seq32(issued - 1) < Seq32(taken)

(* parallel_deflate_flush returns, whichever jobs end first and whatever    *)
(* wake-ups are spurious, unless the sequence numbers wrap in what it waits *)
(* for: that is the one way in which it can hang.                           *)
SyncReturns == phase = "scan" ~> (phase \in {"feed", "freed"} \/ Wraps)

=============================================================================
