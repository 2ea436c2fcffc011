---------------------------- MODULE OrderedJobs ----------------------------
(***************************************************************************)
(* What a pipeline of jobs promises to the one who feeds it, whatever the  *)
(* threads behind it do: each result is handed over once, in the order in  *)
(* which the inputs were accepted, and nothing is handed over once the     *)
(* pipeline is closed.                                                     *)
(***************************************************************************)
EXTENDS Naturals, Sequences

CONSTANT Items  \* what can be fed

VARIABLES
  accepted,   \* the inputs that were taken, in order
  delivered,  \* the results that were handed over, in order
  closed      \* whether the pipeline has been closed

OJvars == <<accepted, delivered, closed>>

OJInit ==
  /\ accepted = << >>
  /\ delivered = << >>
  /\ closed = FALSE

Accept ==
  /\ ~closed
  /\ \E x \in Items : accepted' = Append(accepted, x)
  /\ UNCHANGED <<delivered, closed>>

Deliver ==
  /\ ~closed
  /\ Len(delivered) < Len(accepted)
  /\ delivered' = Append(delivered, accepted[Len(delivered) + 1])
  /\ UNCHANGED <<accepted, closed>>

(* An idle pipeline may hand its input over at once. *)
PassThrough ==
  /\ ~closed
  /\ delivered = accepted
  /\ \E x \in Items : accepted' = Append(accepted, x)
  /\ delivered' = accepted'
  /\ UNCHANGED closed

Close ==
  /\ ~closed
  /\ closed' = TRUE
  /\ UNCHANGED <<accepted, delivered>>

OJNext == Accept \/ Deliver \/ PassThrough \/ Close

OJSpec == OJInit /\ [][OJNext]_OJvars
=============================================================================
