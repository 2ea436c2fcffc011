------------------------------ MODULE MCDeflate ------------------------------
(* One compressed stream, or the pool of workers that several share: a       *)
(* behaviour is one of ParallelDeflate or one of ZrlePool.  The pool has the *)
(* two workers that zrle_encoder_new asks the event loop for, and as many    *)
(* encoders.                                                                 *)
EXTENDS ParallelDeflate, ZrlePool

CONSTANTS e1, e2, w1, w2

TwoEncoders == {e1, e2}
TwoWorkers == {w1, w2}

VARIABLE side

MCInit == side \in {"stream", "pool"} /\ Init /\ PoolInit

MCNext ==
  /\ \/ side = "stream" /\ Next /\ UNCHANGED poolVars
     \/ side = "pool" /\ PoolNext /\ UNCHANGED vars
  /\ UNCHANGED side

MCSpec ==
  MCInit /\ [][MCNext]_<<side, vars, poolVars>> /\ Fairness /\ PoolFairness
=============================================================================
