----------------------------- MODULE StreamTcp -----------------------------
(***************************************************************************)
(* The sending side of a plain TCP stream (src/src/stream/tcp.c): a queue  *)
(* of requests, the interest in "writable" events that the event loop      *)
(* polls for, and the cork that keeps a flush from being entered again     *)
(* while it runs the completion callbacks of the requests it has sent.     *)
(*                                                                         *)
(* A request is a record [kind, fresh]: kind is "frame" for the encoded    *)
(* frame of an update, the only request with an on_done callback, and      *)
(* "update", "fence", "ping" or "other" for the messages sent without one; *)
(* fresh belongs to the client of the stream.  Bytes are abstracted to     *)
(* whole requests plus one bit: whether the first request left in the      *)
(* queue was sent in part.                                                 *)
(***************************************************************************)
EXTENDS Integers, Sequences, FiniteSets

CONSTANTS
  Congestion,   \* TRUE: sendmsg may take less than the whole queue
  Disconnects,  \* TRUE: the peer may go away (EPIPE, or a read of 0 bytes)
  SendErrors    \* TRUE: sendmsg may fail with an errno the code does not handle

ASSUME StreamSwitches ==
  /\ Congestion \in BOOLEAN
  /\ Disconnects \in BOOLEAN
  /\ SendErrors \in BOOLEAN

VARIABLES
  state,     \* stream->state: "normal" or "closed"
  queue,     \* stream->send_queue
  pollout,   \* the handler's event mask contains AML_EVENT_WRITE
  cork       \* stream->cork

streamVars == <<state, queue, pollout, cork>>

IsFrame(req) == req.kind = "frame"

(* Where in q the requests with an on_done callback are. *)
Callbacks(q) == {i \in DOMAIN q : IsFrame(q[i])}

StreamInit ==
  /\ state = "normal"
  /\ queue = << >>
  /\ pollout = FALSE
  /\ cork = FALSE

(***************************************************************************)
(* The four ways in which the sendmsg of a flush of q can end.  In each,   *)
(* "rest" is the queue afterwards and "sent" the requests whose on_done is *)
(* run with STREAM_REQ_DONE while the stream is corked.                    *)
(***************************************************************************)

(* sendmsg took k whole requests of q and, if partly, some of the next.    *)
(* Nothing at all is EAGAIN.  stream__poll_rw is called for a request that *)
(* is left partly sent and for EAGAIN; in every other case bytes_left is 0 *)
(* and stream__poll_r is called, whatever the queue still holds.           *)
SendTakes(q, k, partly) ==
  /\ Congestion \/ k = Len(q)
  /\ partly => k < Len(q)
  /\ k = 0 /\ q # << >> => partly
  /\ queue' = SubSeq(q, k + 1, Len(q))
  /\ pollout' = partly
  /\ UNCHANGED state

(* EPIPE: stream__remote_closed closes the stream, which finishes every    *)
(* queued request with STREAM_REQ_FAILED.                                  *)
StreamClose ==
  /\ state' = "closed"
  /\ queue' = << >>
  /\ pollout' = FALSE
  /\ cork' = TRUE

(* Any other errno: the request stays queued and -1 is returned. *)
SendFails(q) ==
  /\ SendErrors
  /\ queue' = q
  /\ UNCHANGED <<state, pollout, cork>>

=============================================================================
