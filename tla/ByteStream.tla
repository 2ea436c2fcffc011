----------------------------- MODULE ByteStream -----------------------------
(***************************************************************************)
(* What one direction of a stream promises: the units (bytes) that were    *)
(* accepted arrive in order, once each and unaltered, as far as they       *)
(* arrive; whoever sent a message is told at most once what became of it,  *)
(* "done" only when all of it was passed on and "failed" only once the     *)
(* stream is closed; nothing is accepted, and nothing arrives, after that. *)
(***************************************************************************)
EXTENDS Integers, Sequences, SequencesExt

VARIABLES
  accepted,  \* the units that were accepted
  arrived,   \* the units that were passed on
  told,      \* told[m]: "none", "done" or "failed"
  open

bsVars == <<accepted, arrived, told, open>>

BSInit ==
  /\ accepted = << >> /\ arrived = << >> /\ open = TRUE
  /\ \A m \in DOMAIN told : told[m] = "none"

(* All units <<m, i>> of a message m that were accepted have arrived. *)
AllArrived(m, a, r) ==
  \A k \in DOMAIN a : a[k][1] = m => k <= Len(r)

BSNext ==
  /\ IsPrefix(accepted, accepted') /\ IsPrefix(arrived, arrived')
  /\ IsPrefix(arrived', accepted')
  /\ DOMAIN told' = DOMAIN told
  /\ \A m \in DOMAIN told :
       told'[m] # told[m] =>
         /\ told[m] = "none"
         /\ \/ told'[m] = "done" /\ AllArrived(m, accepted', arrived')
            \/ told'[m] = "failed" /\ ~open'
  /\ open' => open
  /\ ~open => UNCHANGED <<accepted, arrived>>

BSSpec == BSInit /\ [][BSNext]_bsVars
=============================================================================
