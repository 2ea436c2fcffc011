------------------------------ MODULE FbUpdate ------------------------------
(***************************************************************************)
(* One client of the server after the handshake (VNC_CLIENT_STATE_READY):  *)
(* its message loop, its framebuffer update pipeline and its fences, on    *)
(* top of the TCP stream.  Everything here runs on the thread of the event *)
(* loop, except the compositing and encoding jobs, which end at any time   *)
(* and report back through the event loop.                                 *)
(*                                                                         *)
(* The handlers call each other recursively: sending can complete a frame, *)
(* completing a frame can start the next update, starting an update can    *)
(* answer a fence, answering a fence can resume the message loop, and the  *)
(* message loop sends.  The variable stack is the C call stack, innermost  *)
(* call first: while it is not empty the thread is inside a handler and    *)
(* only its head can take a step.                                          *)
(***************************************************************************)
EXTENDS StreamTcp

CONSTANTS
  Areas,       \* the parts of the framebuffer that are damaged separately
  Msgs,        \* the messages the client may send
  EncodingSets,\* the sets of encodings the client may have announced at first
  Events,      \* the calls the application may make
  MaxMsgs,     \* bound: messages the client sends
  MaxEvents,   \* bound: calls the application makes
  BufferSize,  \* MSG_BUFFER_SIZE, in messages
  Pipelines,   \* subset of {"direct", "composite"}
  EncodeFaults,\* subset of {"feed", "setup", "encode", "cursor"}: what may
               \* fail of compositor_feed, ensure_encoder, encoder_encode
               \* and cursor_encode
  Throttle,    \* TRUE: the bandwidth estimate may hold an update back
  NDEBUG       \* TRUE: assert() is compiled out (release builds)

Encodings == {"fence", "resize", "cursor", "name", "led", "ext", "cu"}

FenceFlags == {"before", "after", "sync"}

(* The client messages whose handlers touch the state modelled here; "bad"  *)
(* is one of an unknown type, or a fence that is too long.                  *)
Messages ==
  [type : {"fbu"}, inc : BOOLEAN, area : SUBSET Areas]
    \cup [type : {"setEncodings"}, encs : SUBSET Encodings]
    \cup [type : {"setPixelFormat"}, palette : BOOLEAN]
    \cup [type : {"cu"}, on : BOOLEAN, area : SUBSET Areas]
    \cup [type : {"fence"}, flags : SUBSET FenceFlags]
    \cup [type : {"pong", "bad"}]

ASSUME FbUpdateConstants ==
  /\ Msgs \subseteq Messages
  /\ EncodingSets \subseteq SUBSET Encodings
  /\ Events \subseteq {"damage", "cursor", "name", "led", "resize", "close"}
  /\ MaxMsgs \in Nat
  /\ MaxEvents \in Nat
  /\ BufferSize \in Nat \ {0}
  /\ Pipelines \subseteq {"direct", "composite"}
  /\ EncodeFaults \subseteq {"feed", "setup", "encode", "cursor"}
  /\ Throttle \in BOOLEAN
  /\ NDEBUG \in BOOLEAN

VARIABLES
  stack,        \* the call stack of the event loop's thread
  net,          \* messages on their way from the client
  buffer,       \* client->msg_buffer: received, not yet processed
  isProcessing, \* client->is_processing_messages
  encodings,    \* client->encodings
  formatsChanged,
  cuNotified,   \* client->is_continuous_updates_notified
  cu,           \* client->continuous_updates_enabled
  cuArea,       \* client->continuous_updates: its rectangle
  nPending,     \* client->n_pending_requests
  isUpdating,   \* client->is_updating
  damage,       \* client->damage
  due,          \* pseudo-rectangles not sent yet: see Sendable
  layout,       \* the desktop layout of the displays' current buffers
  knownLayout,  \* client->known_layout
  job,          \* the frame being composited or encoded; fenced is a ghost:
                \* a fence came in for it from on_client_event
  onDone,       \* client->encoder->on_done is set
  inflight,     \* client->inflight_bytes, in frames
  fence,        \* client->pending_fence: n is its n_pending_requests
  isBlocked,    \* client->is_blocked_by_fence
  mustBlock,    \* client->must_block_after_next_message
  closeTask,    \* client->close_task is scheduled
  life,         \* where client_close is: "open" before it, "drain" and
                \* "destroy" in the event loops of client_drain_encoder and
                \* compositor_destroy, "freed" after it
  aborted,      \* an assert() has failed
  nMsgs, nEvents,   \* what has been used of MaxMsgs and MaxEvents
  pings,        \* pings the client has received and not answered
  stale,        \* ghost: the areas where the client shows old contents
  owed,         \* ghost: requests accepted minus updates queued, or given
                \* up with a cursor that could not be encoded
  cuEver        \* ghost: continuous updates have been enabled at some time

loopVars == <<net, buffer, isProcessing, nMsgs>>
fenceVars == <<fence, isBlocked, mustBlock>>
formatVars == <<encodings, formatsChanged, cuNotified, cu, cuArea>>
envVars == <<nEvents, pings, layout, cuEver>>
updateVars == <<nPending, isUpdating, damage, due, knownLayout, job, onDone,
                inflight, stale, owed>>
lifeVars == <<closeTask, life, aborted>>
vars == <<streamVars, stack, loopVars, fenceVars, formatVars, envVars,
          updateVars, lifeVars>>

-----------------------------------------------------------------------------
(* The call stack. *)

(* The four notifications of process_fb_update_requests, in its order. *)
Notification == <<"ext", "cursor", "name", "led">>

(* "pfb": process_fb_update_requests before its at-th notification, 0 being *)
(* its entry and 5 the frame; "dec" and "dec2": decrement_pending_requests  *)
(* after the at-th notification, before and after it processes the pending  *)
(* fence; "complete": complete_fb_update; "uncork": the end of a flush;     *)
(* "ping": finish_fb_update after the frame is queued; "ppf" and "ppf2":    *)
(* process_pending_fence before and after it sends the fence; "loop":       *)
(* process_client_messages.                                                 *)
Calls == {"pfb", "dec", "dec2", "complete", "uncork", "ping", "ppf", "ppf2",
          "loop"}

Call(op) == [op |-> op, at |-> 0]
CallAt(op, at) == [op |-> op, at |-> at]

Running(op) ==
  stack # << >> /\ Head(stack).op = op /\ ~aborted /\ life # "freed"

(* The thread is in the event loop, where it takes the next event: in the   *)
(* outermost one, or in one that client_close runs until the update is over *)
(* (is_closing) and then until the compositor has nothing left to do.       *)
Idle ==
  /\ stack = << >> /\ ~aborted
  /\ \/ life = "open"
     \/ life = "drain" /\ isUpdating
     \/ life = "destroy" /\ job.stage = "composite"
Caller == Tail(stack)

NoJob == [stage |-> "none", fresh |-> {}, layout |-> 0, fenced |-> FALSE]

(* A frame that is_updating still stands for although setting it up failed. *)
LostJob == [NoJob EXCEPT !.stage = "lost"]
NoFence == [n |-> 0, flags |-> {}]
NoLayout == 2
Layouts == {0, 1}

Item(kind) == [kind |-> kind, fresh |-> {}]

-----------------------------------------------------------------------------
(* Sending. *)

(* The client sees what the stream hands to the network: frames refresh    *)
(* their areas, and a ping will be answered.                               *)
Deliver(items) ==
  /\ stale' = stale \ UNION {items[i].fresh : i \in DOMAIN items}
  /\ pings' = pings + Cardinality({i \in DOMAIN items : items[i].kind = "ping"})

(* stream_tcp__flush of q, then "ok" or, when it returns an error, "bad".  *)
(* The callbacks of completed frames (on_write_frame_done) run inside.     *)
Flush(q, ok, bad) ==
  \/ \E k \in 0..Len(q), partly \in BOOLEAN :
       LET done == Callbacks(SubSeq(q, 1, k)) IN
       /\ SendTakes(q, k, partly)
       /\ Deliver(SubSeq(q, 1, k))
       /\ cork' = (done # {})
       /\ stack' = IF done = {} THEN ok
                   ELSE [i \in 1..Cardinality(done) |-> Call("complete")]
                          \o <<Call("uncork")>> \o ok
       /\ UNCHANGED <<isUpdating, closeTask>>
  \/ /\ Disconnects
     /\ StreamClose
     /\ isUpdating' = (isUpdating /\ Callbacks(q) = {})
     /\ closeTask' = TRUE
     /\ stack' = bad
     /\ UNCHANGED <<stale, pings>>
  \/ /\ SendFails(q)
     /\ stack' = bad
     /\ UNCHANGED <<isUpdating, closeTask, stale, pings>>

(* stream_send: queue the items, and flush unless a flush is under way. *)
Send(items, ok, bad) ==
  \/ /\ state = "closed"
     /\ stack' = bad
     /\ UNCHANGED <<streamVars, isUpdating, closeTask, stale, pings>>
  \/ /\ state = "normal"
     /\ cork
     /\ queue' = queue \o items
     /\ stack' = ok
     /\ UNCHANGED <<state, pollout, cork, isUpdating, closeTask, stale, pings>>
  \/ /\ state = "normal"
     /\ ~cork
     /\ Flush(queue \o items, ok, bad)

(* What Send leaves to the handler that calls it. *)
NoSend == UNCHANGED <<streamVars, isUpdating, closeTask, stale, pings>>

Assert(holds, then) ==
  IF holds \/ NDEBUG
    THEN stack' = then /\ aborted' = aborted
    ELSE stack' = stack /\ aborted' = TRUE

-----------------------------------------------------------------------------
(* Fences. *)

(* A call of process_client_messages: it returns at once inside of itself. *)
ProcessMessages(rest) ==
  /\ isProcessing' = TRUE
  /\ stack' = IF isProcessing THEN rest ELSE <<Call("loop")>> \o rest

(* process_pending_fence, up to the sending of the fence. *)
ProcessPendingFence ==
  /\ Running("ppf")
  /\ \/ /\ fence.n = 0
        /\ Assert(~isBlocked, Caller)
        /\ NoSend
        /\ UNCHANGED fence
     \/ /\ fence.n > 1
        /\ fence' = [fence EXCEPT !.n = @ - 1]
        /\ stack' = Caller
        /\ NoSend
        /\ UNCHANGED aborted
     \/ /\ fence.n = 1
        /\ fence' = [fence EXCEPT !.n = 0]
        /\ Send(<<Item("fence")>>, <<Call("ppf2")>> \o Caller,
                <<Call("ppf2")>> \o Caller)
        /\ UNCHANGED aborted
  /\ UNCHANGED <<loopVars, isBlocked, mustBlock, formatVars, nEvents, layout,
                 cuEver, nPending, damage, due, knownLayout, job, onDone,
                 inflight, owed, life>>

(* The rest of it: forget the fence, unblock, resume the message loop. *)
ResumeAfterFence ==
  /\ Running("ppf2")
  /\ fence' = NoFence
  /\ isBlocked' = FALSE
  /\ ProcessMessages(Caller)
  /\ NoSend
  /\ UNCHANGED <<net, buffer, nMsgs, mustBlock, formatVars, nEvents, layout,
                 cuEver, nPending, damage, due, knownLayout, job, onDone,
                 inflight, owed, life, aborted>>

-----------------------------------------------------------------------------
(* The update pipeline. *)

PfbVars == <<loopVars, fenceVars, encodings, cuNotified, cu, cuArea, nEvents,
             layout, cuEver, knownLayout, inflight, life>>

(* Mutant: an update is started while one is under way. *)
ReturnsAtOnceUnlessIdle == state = "closed" \/ (~cu /\ nPending = 0)

(* The early returns at the top of process_fb_update_requests; the displays *)
(* have buffers from the first frame on (have_display_buffers).             *)
ReturnsAtOnce == state = "closed" \/ isUpdating \/ (~cu /\ nPending = 0)

EnterUpdate ==
  /\ Running("pfb") /\ Head(stack).at = 0
  /\ stack' = IF ReturnsAtOnce THEN Caller
                               ELSE <<CallAt("pfb", 1)>> \o Caller
  /\ NoSend
  /\ UNCHANGED <<PfbVars, formatsChanged, nPending, damage, due, job, onDone,
                 owed, aborted>>

(* The at-th notification is due and the client understands it.  The name   *)
(* is only marked for clients that do.                                      *)
Sendable(at) ==
  /\ Notification[at] \in due
  /\ Notification[at] \in encodings \cup {"name"}

(* The next notification, sent as an update of its own.  The extension      *)
(* support frame counts as sent even if there was nothing to send.  A       *)
(* cursor that cannot be encoded is not sent and stays due, and a request   *)
(* is taken off for it all the same.                                        *)
SendNotification ==
  /\ Running("pfb") /\ Head(stack).at \in 1..4
  /\ LET ready == {i \in Head(stack).at..4 : Sendable(i)} IN
     \/ /\ ready = {}
        /\ due' = due \ {"ext"}
        /\ stack' = <<CallAt("pfb", 5)>> \o Caller
        /\ NoSend
        /\ UNCHANGED owed
     \/ \E i \in ready :
        /\ \A j \in ready : i <= j
        /\ owed' = owed - 1
        /\ \/ /\ due' = due \ {"ext", Notification[i]}
              /\ Send(<<Item("update")>>, <<CallAt("dec", i)>> \o Caller,
                      <<CallAt("dec", i)>> \o Caller)
           \/ /\ "cursor" \in EncodeFaults /\ Notification[i] = "cursor"
              /\ due' = due \ {"ext"}
              /\ stack' = <<CallAt("dec", i)>> \o Caller
              /\ NoSend
  /\ UNCHANGED <<PfbVars, formatsChanged, nPending, damage, job, onDone,
                 aborted>>

(* decrement_pending_requests: it does not count under continuous updates. *)
BeginDecrement ==
  /\ Running("dec")
  /\ LET at == Head(stack).at IN
     Assert(~isUpdating,
            IF cu THEN <<CallAt("pfb", at + 1)>> \o Caller
                  ELSE <<Call("ppf"), CallAt("dec2", at)>> \o Caller)
  /\ NoSend
  /\ UNCHANGED <<PfbVars, formatsChanged, nPending, damage, due, job, onDone,
                 owed>>

EndDecrement ==
  /\ Running("dec2")
  /\ nPending' = nPending - 1
  /\ stack' = IF nPending - 1 <= 0 THEN Caller
                ELSE <<CallAt("pfb", Head(stack).at + 1)>> \o Caller
  /\ NoSend
  /\ UNCHANGED <<PfbVars, formatsChanged, damage, due, job, onDone, owed,
                 aborted>>

(* client_has_damage *)
HasDamage == damage # {} /\ (cu => damage \cap cuArea # {})

(* Mutant: the frame does not count as an answer. *)
RequestKept == nPending

(* The request that an encoded frame answers is taken off; under continuous *)
(* updates there may be none.                                               *)
RequestTaken == IF nPending > 0 THEN nPending - 1 ELSE nPending

(* on_compositing_done for the frame f: set up the encoder, start it, and  *)
(* take one request off the count.  "changed" is formats_changed.          *)
StartEncoding(f, changed) ==
  \/ /\ "setup" \in EncodeFaults
     /\ job' = LostJob
     /\ onDone' = FALSE
     /\ isUpdating' = TRUE
     /\ formatsChanged' = changed
     /\ UNCHANGED nPending
  \/ /\ "encode" \in EncodeFaults
     /\ job' = NoJob
     /\ onDone' = TRUE
     /\ isUpdating' = FALSE
     /\ formatsChanged' = FALSE
     /\ UNCHANGED nPending
  \/ /\ job' = [f EXCEPT !.stage = "encode"]
     /\ onDone' = TRUE
     /\ isUpdating' = TRUE
     /\ formatsChanged' = changed
     /\ nPending' = RequestTaken

(* The last part of process_fb_update_requests: the frame itself. *)
StartFrame ==
  /\ Running("pfb") /\ Head(stack).at = 5
  /\ stack' = Caller
  /\ \/ /\ ~HasDamage \/ (Throttle /\ inflight > 0)
        /\ UNCHANGED <<formatsChanged, nPending, isUpdating, damage, job,
                       onDone>>
     \/ /\ HasDamage
        /\ damage' = {}
        /\ \E p \in Pipelines :
             LET f == [stage |-> p, fresh |-> damage, layout |-> layout,
                       fenced |-> FALSE] IN
             \/ /\ p = "direct"
                /\ StartEncoding(f, FALSE)
             \/ /\ p = "composite"
                /\ \/ job' = f
                   \/ "feed" \in EncodeFaults /\ job' = LostJob
                /\ isUpdating' = TRUE
                /\ formatsChanged' = FALSE
                /\ UNCHANGED <<onDone, nPending>>
  /\ UNCHANGED <<streamVars, closeTask, stale, pings, PfbVars, due, owed,
                 aborted>>

(* The compositor's job has ended and its on_work_done runs.  It does not   *)
(* call on_compositing_done once the compositor is being destroyed.         *)
CompositeDone ==
  /\ Idle
  /\ job.stage = "composite"
  /\ \/ life # "destroy" /\ StartEncoding(job, formatsChanged)
     \/ /\ life = "destroy"
        /\ job' = NoJob
        /\ UNCHANGED <<onDone, isUpdating, formatsChanged, nPending>>
  /\ UNCHANGED <<streamVars, stack, closeTask, stale, pings, PfbVars, damage,
                 due, owed, aborted>>

(* client_close up to the first event loop it may run.  The stream is       *)
(* closed, which completes the frames in its queue.  The calls below it do  *)
(* nothing until it returns, when the client has been freed, and are not    *)
(* followed.                                                                *)
ClientClose(loop) ==
  /\ StreamClose
  /\ isUpdating' = (isUpdating /\ Callbacks(queue) = {})
  /\ closeTask' = FALSE
  /\ life' = loop
  /\ stack' = << >>

ClosingFrame == <<loopVars, fenceVars, formatVars, nEvents, pings, layout,
                  cuEver, nPending, damage, due, knownLayout, inflight, stale,
                  owed, aborted>>

(* client_drain_encoder is done: the update is complete, or a second has    *)
(* gone by ("Encoder stalled while closing").                               *)
DrainEnds ==
  /\ stack = << >> /\ ~aborted
  /\ life = "drain"
  /\ life' = "destroy"
  /\ UNCHANGED <<ClosingFrame, streamVars, stack, isUpdating, job, onDone,
                 closeTask>>

(* Mutant: the client is freed while the compositor works for it. *)
DestroyEndsAtOnce ==
  /\ stack = << >> /\ ~aborted
  /\ life = "destroy"
  /\ onDone' = FALSE
  /\ life' = "freed"
  /\ UNCHANGED <<ClosingFrame, streamVars, stack, isUpdating, job, closeTask>>

(* compositor_destroy is done, and the rest of client_close: the encoder is *)
(* told to forget the client, which is freed.                               *)
DestroyEnds ==
  /\ stack = << >> /\ ~aborted
  /\ life = "destroy"
  /\ job.stage # "composite"
  /\ onDone' = FALSE
  /\ life' = "freed"
  /\ UNCHANGED <<ClosingFrame, streamVars, stack, isUpdating, job, closeTask>>

(* The frame was encoded for formats that are no longer the client's, and   *)
(* there is no fence by which the client could tell.                        *)
IsDropped == formatsChanged /\ "fence" \notin encodings

(* on_encode_frame_done and finish_fb_update, up to the sending of the     *)
(* frame.  The update's header, its resize rectangle and its pixels are    *)
(* one request here.                                                       *)
FinishUpdate ==
  /\ Idle
  /\ job.stage = "encode" /\ onDone
  /\ job' = NoJob
  /\ onDone' = FALSE
  /\ LET resized == knownLayout # job.layout
         dropped == IsDropped IN
     \/ /\ state = "closed"
        /\ stack' = <<Call("complete")>>
        /\ NoSend
        /\ UNCHANGED <<nPending, damage, knownLayout, owed, life>>
     \/ /\ state = "normal" /\ dropped
        /\ nPending' = nPending + 1
        /\ stack' = <<Call("complete")>>
        /\ NoSend
        /\ UNCHANGED <<damage, knownLayout, owed, life>>
     \/ /\ state = "normal" /\ ~dropped /\ resized /\ "resize" \notin encodings
        /\ ClientClose("destroy")
        /\ UNCHANGED <<nPending, damage, knownLayout, owed, stale, pings>>
     \/ /\ state = "normal" /\ ~dropped /\ (resized => "resize" \in encodings)
        /\ damage' = IF resized THEN Areas ELSE damage
        /\ knownLayout' = job.layout
        /\ owed' = owed - 1
        /\ Send(<<[kind |-> "frame", fresh |-> job.fresh]>>,
                <<Call("ping"), Call("ppf")>>, <<Call("complete")>>)
        /\ UNCHANGED <<nPending, life>>
  /\ UNCHANGED <<loopVars, fenceVars, formatVars, nEvents, layout, cuEver,
                 due, inflight, aborted>>

(* send_ping, for clients that have announced the fence extension. *)
SendPing ==
  /\ Running("ping")
  /\ \/ /\ "fence" \in encodings
        /\ inflight' = inflight + 1
        /\ Send(<<Item("ping")>>, Caller, Caller)
     \/ /\ "fence" \notin encodings
        /\ stack' = Caller
        /\ NoSend
        /\ UNCHANGED inflight
  /\ UNCHANGED <<loopVars, fenceVars, formatVars, nEvents, layout, cuEver,
                 nPending, damage, due, knownLayout, job, onDone, owed, life,
                 aborted>>

(* complete_fb_update *)
CompleteUpdate ==
  /\ Running("complete")
  /\ isUpdating' = FALSE
  /\ stack' = IF isUpdating THEN <<CallAt("pfb", 0)>> \o Caller ELSE Caller
  /\ UNCHANGED <<streamVars, closeTask, stale, pings, PfbVars, formatsChanged,
                 nPending, damage, due, job, onDone, owed, aborted>>

(* Mutant: the stream stays corked. *)
EndFlushCorked ==
  /\ Running("uncork")
  /\ stack' = Caller
  /\ UNCHANGED <<streamVars, isUpdating, closeTask, stale, pings, PfbVars,
                 formatsChanged, nPending, damage, due, job, onDone, owed,
                 aborted>>

(* The end of stream_tcp__flush. *)
EndFlush ==
  /\ Running("uncork")
  /\ cork' = FALSE
  /\ stack' = Caller
  /\ UNCHANGED <<state, queue, pollout, isUpdating, closeTask, stale, pings,
                 PfbVars, formatsChanged, nPending, damage, due, job, onDone,
                 owed, aborted>>

-----------------------------------------------------------------------------
(* The message loop. *)

(* What the message handlers below leave alone. *)
HandlerFrame == <<net, nMsgs, isProcessing, nEvents, layout, onDone, life,
                  aborted>>

(* The loop takes the next message: the condition of the while, what it    *)
(* does first, and the dispatch of on_client_message.                      *)
NextMessage(type) ==
  /\ Running("loop")
  /\ ~isBlocked
  /\ state = "normal"
  /\ buffer # << >>
  /\ Head(buffer).type = type

(* The handler accepts the message and goes on with the calls. *)
Accept(calls) == buffer' = Tail(buffer) /\ stack' = calls \o stack

(* For handlers that are not about fences. *)
BlockIfMust == isBlocked' = mustBlock /\ mustBlock' = FALSE /\ UNCHANGED fence

(* The loop ends: blocked, no complete message, or the stream is closed. *)
LoopEnds ==
  /\ Running("loop")
  /\ \/ isBlocked /\ UNCHANGED <<isBlocked, mustBlock, fence>>
     \/ ~isBlocked /\ (state = "closed" \/ buffer = << >>) /\ BlockIfMust
  /\ isProcessing' = FALSE
  /\ stack' = Caller
  /\ NoSend
  /\ UNCHANGED <<net, buffer, nMsgs, formatVars, nEvents, layout, cuEver,
                 nPending, damage, due, knownLayout, job, onDone, inflight,
                 owed, life, aborted>>

(* on_client_fb_update_request returns 0 for an incremental request while  *)
(* continuous updates are enabled, which ends the loop and leaves the      *)
(* message in the buffer.                                                  *)
IgnoreRequest ==
  /\ NextMessage("fbu")
  /\ Head(buffer).inc /\ cu
  /\ BlockIfMust
  /\ isProcessing' = FALSE
  /\ stack' = Caller
  /\ NoSend
  /\ UNCHANGED <<net, buffer, nMsgs, formatVars, nEvents, layout, cuEver,
                 nPending, damage, due, knownLayout, job, onDone, inflight,
                 owed, life, aborted>>

OnFbUpdateRequest ==
  /\ NextMessage("fbu")
  /\ LET m == Head(buffer) IN
     /\ ~(m.inc /\ cu)
     /\ damage' = IF m.inc THEN damage ELSE damage \cup m.area
     /\ knownLayout' = IF ~m.inc /\ "resize" \in encodings
                         THEN NoLayout ELSE knownLayout
  /\ nPending' = nPending + 1
  /\ owed' = owed + 1
  /\ BlockIfMust
  /\ Accept(<<CallAt("pfb", 0)>>)
  /\ NoSend
  /\ UNCHANGED <<HandlerFrame, job, formatVars, cuEver, due, inflight>>

(* The messages that SetEncodings may trigger: the end-of-continuous-      *)
(* updates notice, once, and a ping without a frame.                       *)
OnSetEncodings ==
  /\ NextMessage("setEncodings")
  /\ LET e == Head(buffer).encs
         notify == "cu" \in e /\ ~cuNotified IN
     /\ encodings' = e
     /\ cuNotified' = (cuNotified \/ notify)
     /\ buffer' = Tail(buffer)
     /\ IF notify \/ "fence" \in e
          THEN Send(<<Item("other")>>, stack, stack)
          ELSE stack' = stack /\ NoSend
  /\ formatsChanged' = TRUE
  /\ BlockIfMust
  /\ UNCHANGED <<HandlerFrame, job, cu, cuArea, cuEver, nPending, damage, due,
                 knownLayout, inflight, owed>>

(* A client without true colour is sent a colour map. *)
OnSetPixelFormat ==
  /\ NextMessage("setPixelFormat")
  /\ formatsChanged' = TRUE
  /\ BlockIfMust
  /\ buffer' = Tail(buffer)
  /\ IF Head(buffer).palette THEN Send(<<Item("other")>>, stack, stack)
                             ELSE stack' = stack /\ NoSend
  /\ UNCHANGED <<HandlerFrame, job, encodings, cuNotified, cu, cuArea, cuEver,
                 nPending, damage, due, knownLayout, inflight, owed>>

OnEnableContinuousUpdates ==
  /\ NextMessage("cu")
  /\ cu' = Head(buffer).on
  /\ cuEver' = (cuEver \/ cu')
  /\ BlockIfMust
  /\ buffer' = Tail(buffer)
  /\ \/ /\ cu'
        /\ cuArea' = Head(buffer).area
        /\ stack' = <<CallAt("pfb", 0)>> \o stack
        /\ NoSend
     \/ /\ ~cu'
        /\ cuArea' = {}
        /\ Send(<<Item("other")>>, stack, stack)
  /\ UNCHANGED <<HandlerFrame, job, encodings, formatsChanged, cuNotified,
                 nPending, damage, due, knownLayout, inflight, owed>>

(* Mutant: an update that was held back is not started again. *)
OnFenceResponseOnly ==
  /\ NextMessage("pong")
  /\ inflight' = inflight - 1
  /\ BlockIfMust
  /\ Accept(<< >>)
  /\ NoSend
  /\ UNCHANGED <<HandlerFrame, job, formatVars, cuEver, nPending, damage, due,
                 knownLayout, owed>>

(* on_fence_response to the ping of a frame.  The answer to the ping of     *)
(* SetEncodings, which is for no bytes, changes nothing and is left out; so *)
(* is a negative round trip, which takes an answer 2^31 us late.            *)
OnFenceResponse ==
  /\ NextMessage("pong")
  /\ inflight' = inflight - 1
  /\ BlockIfMust
  /\ Accept(<<CallAt("pfb", 0)>>)
  /\ NoSend
  /\ UNCHANGED <<HandlerFrame, job, formatVars, cuEver, nPending, damage, due,
                 knownLayout, owed>>

(* on_fence_request returns false: the request stays in the buffer. *)
RefuseFence ==
  /\ NextMessage("fence")
  /\ nPending > 0
  /\ isBlocked' = TRUE
  /\ mustBlock' = FALSE
  /\ isProcessing' = FALSE
  /\ stack' = Caller
  /\ NoSend
  /\ UNCHANGED <<net, buffer, nMsgs, fence, formatVars, nEvents, layout,
                 cuEver, nPending, damage, due, knownLayout, job, onDone,
                 inflight, owed, life, aborted>>

(* The number of updates that the fence with these flags waits for. *)
FenceWaitsFor(flags) ==
  LET running == IF isUpdating THEN 1 ELSE 0 IN
  IF "before" \in flags /\ nPending + running > 0 THEN nPending + running
  ELSE IF "sync" \in flags /\ isUpdating THEN 1
  ELSE fence.n

(* For the ghost job.fenced: no frame is in flight but the job's. *)
OnlyJobInFlight == job.stage # "none" /\ isUpdating /\ Callbacks(queue) = {}

OnFenceRequest ==
  /\ NextMessage("fence")
  /\ nPending <= 0
  /\ LET flags == Head(buffer).flags
         n == FenceWaitsFor(flags)
         before == "before" \in flags /\ nPending + (IF isUpdating THEN 1 ELSE 0) > 0 IN
     /\ mustBlock' = (~before /\ isUpdating /\ {"sync", "after"} \subseteq flags)
     /\ buffer' = Tail(buffer)
     /\ \/ /\ n = 0
           /\ isBlocked' = mustBlock
           /\ Send(<<Item("fence")>>, stack, stack)
           /\ UNCHANGED <<fence, job>>
        \/ /\ n # 0
           /\ isBlocked' = (flags = {"before", "after"})
           /\ fence' = [n |-> n, flags |-> flags]
           /\ job' = [job EXCEPT !.fenced = OnlyJobInFlight /\ Len(stack) = 1]
           /\ stack' = stack
           /\ NoSend
  /\ UNCHANGED <<HandlerFrame, formatVars, cuEver, nPending, damage, due,
                 knownLayout, inflight, owed>>

(* on_client_message and on_client_fence close the client at once. *)
OnBadMessage ==
  /\ NextMessage("bad")
  /\ ClientClose("destroy")
  /\ BlockIfMust
  /\ UNCHANGED <<loopVars, formatVars, nEvents, pings, layout, cuEver, nPending,
                 damage, due, knownLayout, job, onDone, inflight, stale, owed,
                 aborted>>

-----------------------------------------------------------------------------
(* Events. *)

EventFrame == <<fenceVars, formatVars, cuEver, nPending, knownLayout, onDone,
                inflight, owed, life, aborted>>

(* The room that is left in msg_buffer. *)
Space == BufferSize - Len(buffer)

(* on_client_event: read what fits into the buffer and process it.  Reading *)
(* into a full buffer asks for 0 bytes, and the 0 that read() then returns  *)
(* is taken for the end of the connection.                                  *)
OnClientEvent ==
  /\ Idle
  /\ state = "normal"
  /\ net # << >>
  /\ \/ /\ Space = 0
        /\ StreamClose
        /\ isUpdating' = (isUpdating /\ Callbacks(queue) = {})
        /\ closeTask' = TRUE
        /\ UNCHANGED <<net, buffer, isProcessing, stack, stale, pings>>
     \/ \E k \in 1..Len(net) :
        /\ k <= Space
        /\ buffer' = buffer \o SubSeq(net, 1, k)
        /\ net' = SubSeq(net, k + 1, Len(net))
        /\ ProcessMessages(<< >>)
        /\ NoSend
  /\ UNCHANGED <<EventFrame, nMsgs, nEvents, layout, damage, due, job>>

(* The peer hangs up: a read of 0 bytes. *)
RemoteClosed ==
  /\ Idle
  /\ state = "normal" /\ Disconnects
  /\ StreamClose
  /\ isUpdating' = (isUpdating /\ Callbacks(queue) = {})
  /\ closeTask' = TRUE
  /\ UNCHANGED <<EventFrame, loopVars, nEvents, layout, damage, due, job,
                 stack, stale, pings>>

(* client_close as an event of its own. *)
CloseNow(loop) ==
  /\ Idle /\ life = "open"
  /\ ClientClose(loop)
  /\ UNCHANGED <<ClosingFrame, job, onDone>>

DeferredClose == closeTask /\ CloseNow("destroy")

(* on_client_event: stream_read has failed. *)
ReadError == state = "normal" /\ Disconnects /\ CloseNow("destroy")

(* nvnc_del, which has set is_closing. *)
ServerClose == "close" \in Events /\ CloseNow("drain")

(* stream_tcp__on_writable: the socket takes at least one request. *)
OnWritable ==
  /\ Idle
  /\ state = "normal" /\ pollout
  /\ Flush(queue, << >>, << >>)
  /\ state' = "normal" => queue' # queue
  /\ UNCHANGED <<EventFrame, loopVars, nEvents, layout, damage, due, job>>

(* Mutant: damage is ignored during an update. *)
DamageIfIdle(hit) == IF isUpdating THEN damage ELSE damage \cup hit

(* nvnc__damage_region for this client. *)
DamageRegion(hit) == IF state = "closed" THEN damage ELSE damage \cup hit

(* nvnc_set_cursor with an image that is not equal to the last one (with an *)
(* equal one nothing is sent), nvnc_set_name and nvnc_client_set_led_state: *)
(* what the next update has to announce.                                    *)
DueAfter(n) ==
  IF n = "name" /\ n \notin encodings THEN due ELSE due \cup {n}

(* The application hands over a frame with damage, of another size after a *)
(* resize, or changes the cursor, the name or the LEDs.                    *)
ApplicationCall ==
  /\ Idle
  /\ nEvents < MaxEvents
  /\ nEvents' = nEvents + 1
  /\ \/ \E a \in Areas, resize \in BOOLEAN :
          LET hit == IF resize THEN Areas ELSE {a} IN
          /\ (IF resize THEN "resize" ELSE "damage") \in Events
          /\ layout' = IF resize THEN 1 - layout ELSE layout
          /\ damage' = DamageRegion(hit)
          /\ stale' = stale \cup hit
          /\ job' = [job EXCEPT !.fresh = @ \ hit]
          /\ queue' = [i \in DOMAIN queue |->
                         [queue[i] EXCEPT !.fresh = @ \ hit]]
          /\ UNCHANGED due
     \/ \E n \in {"cursor", "name", "led"} \cap Events :
          /\ due' = DueAfter(n)
          /\ UNCHANGED <<layout, damage, stale, job, queue>>
  /\ stack' = <<CallAt("pfb", 0)>>
  /\ UNCHANGED <<EventFrame, loopVars, state, pollout, cork, isUpdating,
                 closeTask, pings>>

(* The client: it sends messages, and answers the pings it receives. *)
ClientSends ==
  /\ Idle
  /\ state = "normal"
  /\ \/ /\ nMsgs < MaxMsgs
        /\ \E m \in Msgs : net' = Append(net, m)
        /\ nMsgs' = nMsgs + 1
        /\ UNCHANGED pings
     \/ /\ pings > 0
        /\ net' = Append(net, [type |-> "pong"])
        /\ pings' = pings - 1
        /\ UNCHANGED nMsgs
  /\ UNCHANGED <<streamVars, stack, EventFrame, buffer, isProcessing, nEvents,
                 layout, isUpdating, damage, due, job, closeTask, stale>>

-----------------------------------------------------------------------------
Init ==
  /\ StreamInit
  /\ stack = << >>
  /\ net = << >> /\ buffer = << >> /\ isProcessing = FALSE /\ nMsgs = 0
  /\ fence = NoFence /\ isBlocked = FALSE /\ mustBlock = FALSE
  /\ encodings \in EncodingSets
  /\ formatsChanged = TRUE
  /\ cuNotified = ("cu" \in encodings)
  /\ cu = FALSE /\ cuArea = {}
  /\ nEvents = 0 /\ pings = 0 /\ layout = 0 /\ cuEver = FALSE
  /\ nPending = 0 /\ isUpdating = FALSE
  /\ damage = {} /\ due = {"ext", "led"} /\ knownLayout = 0
  /\ job = NoJob /\ onDone = FALSE /\ inflight = 0
  /\ stale = {} /\ owed = 0
  /\ closeTask = FALSE /\ life = "open" /\ aborted = FALSE

(* What the thread does inside a handler. *)
Handler ==
  \/ ProcessPendingFence \/ ResumeAfterFence
  \/ EnterUpdate \/ SendNotification \/ BeginDecrement \/ EndDecrement
  \/ StartFrame \/ SendPing \/ CompleteUpdate \/ EndFlush
  \/ LoopEnds \/ IgnoreRequest \/ OnFbUpdateRequest \/ OnSetEncodings
  \/ OnSetPixelFormat \/ OnEnableContinuousUpdates \/ OnFenceResponse
  \/ RefuseFence \/ OnFenceRequest \/ OnBadMessage

Next ==
  \/ Handler
  \/ CompositeDone \/ FinishUpdate \/ OnClientEvent \/ RemoteClosed
  \/ DeferredClose \/ ReadError \/ ServerClose \/ DrainEnds \/ DestroyEnds
  \/ OnWritable \/ ApplicationCall \/ ClientSends

Spec == Init /\ [][Next]_vars


(* The event loop runs, jobs end, the socket drains, the client reads and  *)
(* answers pings; the application and the client's requests need not come. *)
Fairness ==
  /\ WF_vars(Handler) /\ WF_vars(CompositeDone) /\ WF_vars(FinishUpdate)
  /\ WF_vars(OnClientEvent) /\ WF_vars(OnWritable) /\ WF_vars(DeferredClose)
  /\ WF_vars(ClientSends /\ pings' < pings)

FairSpec == Spec /\ Fairness

-----------------------------------------------------------------------------
Requests == [kind : {"frame", "update", "fence", "ping", "other"},
             fresh : SUBSET Areas]
Frames == [op : {"pfb"}, at : 0..5] \cup [op : {"dec", "dec2"}, at : 1..4]
            \cup [op : Calls \ {"pfb", "dec", "dec2"}, at : {0}]
Lives == {"open", "drain", "destroy", "freed"}
Jobs == [stage : {"none", "composite", "encode", "lost"}, fresh : SUBSET Areas,
         layout : Layouts, fenced : BOOLEAN]

TypeOK ==
  /\ state \in {"normal", "closed"}
  /\ queue \in Seq(Requests)
  /\ pollout \in BOOLEAN /\ cork \in BOOLEAN
  /\ stack \in Seq(Frames)
  /\ net \in Seq(Messages)
  /\ buffer \in Seq(Messages) /\ Len(buffer) <= BufferSize
  /\ isProcessing \in BOOLEAN
  /\ nMsgs \in 0..MaxMsgs /\ nEvents \in 0..MaxEvents
  /\ fence \in [n : Nat, flags : SUBSET FenceFlags]
  /\ isBlocked \in BOOLEAN /\ mustBlock \in BOOLEAN
  /\ encodings \subseteq Encodings
  /\ formatsChanged \in BOOLEAN /\ cuNotified \in BOOLEAN
  /\ cu \in BOOLEAN /\ cuArea \subseteq Areas /\ cuEver \in BOOLEAN
  /\ layout \in Layouts /\ knownLayout \in Layouts \cup {NoLayout}
  /\ nPending \in Int /\ isUpdating \in BOOLEAN
  /\ damage \subseteq Areas /\ stale \subseteq Areas
  /\ due \subseteq {"ext", "cursor", "name", "led"}
  /\ job \in Jobs /\ onDone \in BOOLEAN
  /\ inflight \in Int /\ pings \in Int /\ owed \in Int
  /\ closeTask \in BOOLEAN /\ aborted \in BOOLEAN
  /\ life \in Lives

InFlight == Cardinality(Callbacks(queue)) + (IF job = NoJob THEN 0 ELSE 1)

(* When no handler is running, client_close included, is_updating says      *)
(* exactly whether an update is being composited, encoded or written, or    *)
(* was lost when setting it up failed, and there is never more than one: an *)
(* update is completed once, by on_write_frame_done or by an error path of  *)
(* finish_fb_update, and never by both.  process_fb_update_requests passes  *)
(* its early returns, and starts a frame, only with none in flight.         *)
OneUpdateInFlight ==
  /\ stack = << >> /\ life = "open" => InFlight = (IF isUpdating THEN 1 ELSE 0)
  /\ Running("pfb") /\ Head(stack).at > 0 => InFlight = 0

(* Without continuous updates n_pending_requests is the number of requests  *)
(* accepted and not answered: each update sent, frame or notification,      *)
(* takes off one, whatever calls of process_fb_update_requests are nested,  *)
(* and a frame dropped by finish_fb_update gives its request back.          *)
Accounting ==
  stack = << >> /\ state = "normal" /\ ~cuEver =>
    owed = nPending + (IF job.stage = "encode" THEN 1 ELSE 0)

(* An area where the client shows old contents is in client->damage or in   *)
(* an update on its way: process_fb_update_requests empties the damage when *)
(* it starts a frame, and the frame must then reach the client.             *)
NoLostDamage ==
  state = "normal" =>
    stale \subseteq damage \cup job.fresh
                      \cup UNION {queue[i].fresh : i \in DOMAIN queue}

(* No assert() of these handlers fails: decrement_pending_requests is only  *)
(* called with no update under way.  (That the client is not blocked when   *)
(* process_pending_fence finds no fence is asserted too; clients that send  *)
(* fences break it, see Unblocked, and without them it says nothing.)       *)
NoAbort == ~aborted

(* When client_close has freed the client nothing is left that will call    *)
(* back with it, whatever was composited or encoded for it when it began    *)
(* and whatever ended, or started, in the event loops it runs.              *)
NoDanglingCallback == life = "freed" => ~onDone /\ job.stage # "composite"

(* A fence that on_client_event receives while a frame, the only one in     *)
(* flight, is composited or encoded is answered by process_pending_fence    *)
(* only after finish_fb_update has queued or dropped that frame.  (A fence  *)
(* that is received by a message loop which process_pending_fence has       *)
(* resumed may be answered by the finish_fb_update that is suspended below  *)
(* it.  After a send error an earlier frame may still be queued, and        *)
(* completing that one lets the next update answer the fence.)              *)
FenceAfterFrame == [][fence.n > 0 /\ fence'.n = 0 => ~job.fenced]_fence

(* The case of tcp.c:156: sendmsg took whole requests, or the callbacks of  *)
(* a flush queued more, and the event loop does not poll for writability.   *)
Unpolled == queue # << >> /\ ~pollout /\ ~cork

(* What stream_send has accepted is written however the socket takes it, or *)
(* the stream is closed, except where the flush forgets to poll.            *)
Delivered ==
  queue # << >> ~> (queue = << >> \/ state = "closed" \/ (Idle /\ Unpolled))

(* A request is answered once there is something to show: the damage is     *)
(* sent, or the connection ends, or the flush forgets to poll.              *)
Served ==
  (nPending > 0 /\ stale # {})
    ~> (nPending = 0 \/ stale = {} \/ state = "closed" \/ (Idle /\ Unpolled))

(* A client that a fence has blocked is let go once the updates the fence   *)
(* waits for have been sent: is_blocked_by_fence is cleared again.          *)
Unblocked ==
  (isBlocked /\ nPending <= 0 /\ ~isUpdating) ~> (~isBlocked \/ state = "closed")

=============================================================================
