----------------------------- MODULE ClientInput -----------------------------
(***************************************************************************)
(* How the server reads the messages of a client that is ready, and what   *)
(* it does for the clipboard (server.c: on_client_event,                   *)
(* process_client_messages, on_client_message and the handlers that do not *)
(* belong to the framebuffer updates, nvnc_send_cut_text).                 *)
(*                                                                         *)
(* The client's messages reach the server as units (groups of bytes), in   *)
(* reads that end anywhere.  Unit <<k, i>> is the i-th one of the client's *)
(* k-th message.  A handler sees the fields of the message that its first  *)
(* unit belongs to; it returns 0, and waits for more, if there are fewer   *)
(* units in the buffer than it needs.                                      *)
(*                                                                         *)
(* A cut text that is not all in the buffer is collected in a buffer of    *)
(* its own, which later reads fill directly.  A message is a record with   *)
(* its type, the number len of units after its header, and its fields.     *)
(***************************************************************************)
EXTENDS Geometry, SequencesExt

CONSTANTS
  MsgBufferSize,  \* MSG_BUFFER_SIZE
  MaxCutText,     \* MAX_CUT_TEXT_SIZE
  Sessions,       \* bounds: what may happen in a session: the client's messages
                  \* (menu), how often the application sets its clipboard (copies)
                  \* and whether it draws (updates)
  MaxSent,        \* bound: how many messages the client may send
  Texts,          \* the application's texts, each its length, 0 for the empty one
  Displays        \* the ids of the server's displays

ASSUME ClientInputConstants ==
  /\ MsgBufferSize \in Nat \ {0} /\ MaxCutText \in Nat
  /\ MaxSent \in Nat /\ 0 \in Texts /\ Texts \subseteq Nat
  /\ \A s \in Sessions : \A m \in s.menu :
       m.len \in Nat /\ (m.type = "pointer" => m.len \in {0, 1})

VARIABLES
  session,     \* one of Sessions
  alive,       \* the client has not been closed
  hung,        \* a handler does not return
  sent,        \* the client's messages
  sock,        \* units that were not read
  buf,         \* msg_buffer, from buffer_index to buffer_len
  cut,         \* client->cut_text
  processing,  \* is_processing_messages
  update,      \* is_updating: "no", "encoding" or "sending"
  fence,       \* pending_fence.n_pending_requests > 0
  blocked,     \* is_blocked_by_fence
  blockNext,   \* must_block_after_next_message
  handled,     \* the messages that were handled, in order
  extClip,     \* client_has_encoding(EXTENDED_CLIPBOARD)
  extMouse,    \* has_ext_mouse_buttons
  caps,        \* ext_clipboard_caps and the greatest unsolicited text
  provide,     \* ext_clipboard_provide_msg: a text, or NoText
  appText,     \* the application's clipboard
  copies,      \* how often it was changed
  out          \* clipboard and NTP messages to the client

inputVars == <<sock, buf, cut, processing, blocked, blockNext, handled>>
clipVars == <<extClip, caps, provide, appText, copies, out>>
vars == <<session, alive, hung, sent, update, fence, extMouse, inputVars, clipVars>>

NoText == -1
NoCut == [length |-> 0, index |-> 0, msg |-> 0]
Garbage == <<0, 0>>

-----------------------------------------------------------------------------
(* The client sends what the protocol allows (the long form of a pointer    *)
(* event once the server has announced it, an extended clipboard message    *)
(* after it has set that encoding) or a message of a type, or a QEMU        *)
(* subtype, that the server does not know.                                  *)
SetsClipboard(m) == m.type = "encodings" /\ m.clip

MayClientSend(m) ==
  /\ m.type = "pointer" /\ m.len = 1 => extMouse
  /\ m.type = "clipboard" =>
       LET e == SelectSeq(sent, LAMBDA x : x.type = "encodings")
       IN  e # << >> /\ Last(e).clip

(* The fixed part of a message, in units. *)
HeaderSize(m) ==
  IF m.type \in {"cut_text", "clipboard", "encodings", "desktop_size", "fence"}
  THEN 1 ELSE 2

MessageSize(m) == HeaderSize(m) + m.len

ClientSend(m) ==
  /\ alive /\ Len(sent) < MaxSent /\ MayClientSend(m)
  /\ sent' = Append(sent, m)
  /\ sock' = sock \o [i \in 1..MessageSize(m) |-> <<Len(sent) + 1, i>>]
  /\ UNCHANGED <<session, alive, hung, update, fence, extMouse, buf, cut, processing, blocked,
                 blockNext, handled, clipVars>>

-----------------------------------------------------------------------------
(* The message loop.  Each turn looks at the message at the front. *)
Turn == alive /\ ~hung /\ processing /\ ~blocked

Msg == IF buf # << >> THEN sent[buf[1][1]] ELSE [type |-> "none", len |-> 0]

(* Mutant: cut text waits in msg_buffer until all of it is there. *)
NeededWhole(m) == MessageSize(m)

(* What a handler needs in the buffer before it does anything.  Cut text    *)
(* needs its header; a clipboard message with the capabilities is needed as *)
(* a whole.                                                                 *)
Needed(m) ==
  IF m.type = "cut_text" \/ (m.type = "clipboard" /\ m.action # "caps")
  THEN HeaderSize(m) ELSE MessageSize(m)

Ready(type) ==
  /\ Turn /\ buf # << >> /\ Msg.type = type
  /\ Len(buf) >= Needed(Msg)

(* A turn: n units are done with, and the message at the front was handled. *)
(* A turn that began inside of a message has misread something.             *)
Consume(n) == buf' = SubSeq(buf, n + 1, Len(buf))
Handle == handled' = Append(handled, buf[1])
EndTurn == blocked' = blockNext /\ blockNext' = FALSE
HandleMsg ==
  /\ Handle /\ Consume(MessageSize(Msg)) /\ EndTurn
  /\ UNCHANGED <<session, alive, hung, sent, update, fence, sock, cut, processing>>

(* rc = 0: an incomplete message, or nothing, or the client is blocked. *)
LeaveLoop ==
  /\ alive /\ ~hung /\ processing
  /\ \/ blocked /\ UNCHANGED <<blocked, blockNext>>
     \/ ~blocked /\ EndTurn /\ (buf = << >> \/ Len(buf) < Needed(Msg))
  /\ processing' = FALSE
  /\ UNCHANGED <<session, alive, hung, sent, update, fence, extMouse, sock, buf, cut, handled, clipVars>>

(* on_client_key_event, on_client_qemu_key_event and                        *)
(* on_client_set_pixel_format: fixed lengths.                               *)
OnFixed ==
  /\ Ready("key") /\ HandleMsg
  /\ UNCHANGED <<extMouse, clipVars>>

(* on_client_ntp: the last message of an exchange, which carries t3, is     *)
(* only looked at; another one is answered.                                 *)
OnNtp ==
  /\ Ready("ntp") /\ HandleMsg
  /\ out' = IF Msg.last THEN out ELSE Append(out, [kind |-> "ntp", text |-> NoText])
  /\ UNCHANGED <<extMouse, extClip, caps, provide, appText, copies>>

(* on_client_pointer_event: the long form is understood once the extension  *)
(* was announced.                                                           *)
OnPointer ==
  /\ Ready("pointer")
  /\ Handle /\ EndTurn
  /\ Consume(IF extMouse /\ Msg.len = 1 THEN 3 ELSE 2)
  /\ UNCHANGED <<session, alive, hung, sent, update, fence, sock, cut, processing, extMouse, clipVars>>

(* on_client_set_encodings *)
OnSetEncodings ==
  /\ Ready("encodings") /\ HandleMsg
  /\ extClip' = Msg.clip
  /\ out' = IF Msg.clip THEN Append(out, [kind |-> "caps", text |-> NoText]) ELSE out
  /\ UNCHANGED <<extMouse, caps, provide, appText, copies>>

(* send_ext_support_frame, with the encoding among the client's. *)
SendExtSupport ==
  /\ alive /\ ~hung /\ ~processing /\ ~extMouse
  /\ extMouse' = TRUE
  /\ UNCHANGED <<session, alive, hung, sent, update, fence, inputVars, clipVars>>

(* on_client_set_desktop_size_event: check_desktop_layout, which does not   *)
(* return for some layouts, and the application's answer.                   *)
OnSetDesktopSize ==
  /\ Ready("desktop_size")
  /\ LET verdict == CheckLayout(Msg.layout, Displays)
     IN  IF verdict = "hangs"
         THEN /\ hung' = TRUE
              /\ UNCHANGED <<session, alive, sent, update, fence, inputVars>>
         ELSE HandleMsg
  /\ UNCHANGED <<extMouse, clipVars>>

(* on_client_fence, for the requests of a client that asks for no updates   *)
(* itself (n_pending_requests = 0: continuous updates).  The answer to a    *)
(* fence is kept while an update is under way, or another one is kept.      *)
OnFence ==
  /\ Ready("fence")
  /\ Handle /\ Consume(MessageSize(Msg))
  /\ LET flags == Msg.flags
         before == update # "no" /\ "before" \in flags
         next == update # "no" /\ "before" \notin flags /\ "sync" \in flags
     IN  /\ fence' = (fence \/ before \/ next)
         /\ blocked' = (IF fence' THEN flags = {"before", "after"} ELSE blockNext)
         /\ blockNext' = (next /\ "after" \in flags)
  /\ UNCHANGED <<session, alive, hung, sent, update, extMouse, sock, cut, processing, clipVars>>

(* on_client_message, on_client_qemu_event and on_client_fence, of what     *)
(* they do not understand: an unknown type or subtype, or a fence of more   *)
(* than 64 bytes.                                                           *)
OnBadMessage ==
  /\ Ready("bad")
  /\ alive' = FALSE
  /\ UNCHANGED <<session, hung, sent, update, fence, extMouse, inputVars, clipVars>>

-----------------------------------------------------------------------------
(* Cut text from the client: all of it is in the buffer, or the rest is to  *)
(* be read into a buffer of its own; too much ends the connection.          *)
TakeCutText ==
  \/ /\ Msg.len > MaxCutText
     /\ alive' = FALSE
     /\ UNCHANGED <<buf, cut, handled, blocked, blockNext>>
  \/ /\ Msg.len <= MaxCutText /\ MessageSize(Msg) <= Len(buf)
     /\ Handle /\ Consume(MessageSize(Msg)) /\ EndTurn
     /\ UNCHANGED <<alive, cut>>
  \/ /\ Msg.len <= MaxCutText /\ MessageSize(Msg) > Len(buf)
     /\ cut' = [length |-> Msg.len, index |-> Len(buf) - 1, msg |-> buf[1][1]]
     /\ Consume(Len(buf)) /\ EndTurn
     /\ UNCHANGED <<alive, handled>>

(* process_client_cut_text *)
OnCutText ==
  /\ Ready("cut_text") /\ TakeCutText
  /\ UNCHANGED <<session, hung, sent, update, fence, sock, processing, extMouse, clipVars>>

(* The messages that the server sends for the clipboard. *)
ToClient(kind, text) == Append(out, [kind |-> kind, text |-> text])

(* The answer of process_client_ext_clipboard to a message that is all in   *)
(* the buffer.                                                              *)
Answer(m) ==
  CASE m.action = "request" /\ caps.provide /\ provide # NoText ->
         ToClient("provide", provide)
    [] m.action = "peek" /\ caps.notify ->
         ToClient("notify", provide)
    [] m.action = "notify" /\ caps.request ->
         ToClient("request", NoText)
    [] OTHER -> out

(* process_client_ext_clipboard *)
OnExtClipboard ==
  /\ Ready("clipboard") /\ extClip /\ TakeCutText
  /\ LET whole == MessageSize(Msg) <= Len(buf) /\ Msg.len <= MaxCutText
     IN  /\ caps' = IF whole /\ Msg.action = "caps" THEN Msg.caps ELSE caps
         /\ out' = IF whole THEN Answer(Msg) ELSE out
  /\ UNCHANGED <<session, hung, sent, update, fence, sock, processing, extMouse, extClip, provide,
                 appText, copies>>

-----------------------------------------------------------------------------
(* on_client_event: a read of what fits.  With a full buffer the read is of *)
(* 0 bytes, and its result is taken for the end of the connection.          *)
OnReadable ==
  /\ alive /\ ~hung /\ ~processing /\ sock # << >> /\ cut = NoCut
  /\ \/ /\ Len(buf) = MsgBufferSize
        /\ alive' = FALSE
        /\ UNCHANGED <<sock, buf, processing>>
     \/ \E n \in 1..Min({MsgBufferSize - Len(buf), Len(sock)}) :
          /\ buf' = buf \o SubSeq(sock, 1, n)
          /\ sock' = SubSeq(sock, n + 1, Len(sock))
          /\ processing' = TRUE
          /\ UNCHANGED alive
  /\ UNCHANGED <<session, hung, sent, update, fence, extMouse, cut, blocked, blockNext, handled, clipVars>>

(* Mutant: the rest of the cut text is not counted. *)
CutSpaceAll == MsgBufferSize

CutSpace == Min({cut.length - cut.index, MsgBufferSize})

(* process_big_cut_text: the units must be the next ones of the text.       *)
OnReadableCutText ==
  /\ alive /\ ~hung /\ ~processing /\ sock # << >> /\ cut # NoCut
  /\ \E n \in 1..Min({CutSpace, Len(sock)}) :
       LET index == cut.index + n
           right == \A i \in 1..n : sock[i] = <<cut.msg, cut.index + i + 1>>
       IN  /\ sock' = SubSeq(sock, n + 1, Len(sock))
           /\ cut' = IF index = cut.length THEN NoCut ELSE [cut EXCEPT !.index = index]
           /\ handled' = IF ~right THEN Append(handled, Garbage)
                         ELSE IF index = cut.length THEN Append(handled, <<cut.msg, 1>>)
                         ELSE handled
  /\ UNCHANGED <<session, alive, hung, sent, update, fence, extMouse, buf, processing, blocked,
                 blockNext, clipVars>>

(* An update starts, is sent and has been sent (FbUpdate has the details).  *)
UpdateStarts ==
  /\ alive /\ ~hung /\ ~processing /\ update = "no" /\ session.updates
  /\ update' = "encoding"
  /\ UNCHANGED <<session, alive, hung, sent, fence, extMouse, inputVars, clipVars>>

(* Mutant: process_pending_fence is not called. *)
FinishWithoutFence ==
  /\ alive /\ ~hung /\ ~processing /\ update = "encoding"
  /\ update' = "sending"
  /\ UNCHANGED <<session, alive, hung, sent, fence, extMouse, inputVars, clipVars>>

(* finish_fb_update with process_pending_fence: a fence that was kept is    *)
(* answered and the messages behind it are processed.                       *)
FinishUpdate ==
  /\ alive /\ ~hung /\ ~processing /\ update = "encoding"
  /\ update' = "sending"
  /\ IF fence
     THEN fence' = FALSE /\ blocked' = FALSE /\ processing' = TRUE
     ELSE UNCHANGED <<fence, blocked, processing>>
  /\ UNCHANGED <<session, alive, hung, sent, extMouse, sock, buf, cut, blockNext, handled, clipVars>>

(* complete_fb_update *)
UpdateSent ==
  /\ alive /\ ~hung /\ ~processing /\ update = "sending"
  /\ update' = "no"
  /\ UNCHANGED <<session, alive, hung, sent, fence, extMouse, inputVars, clipVars>>

-----------------------------------------------------------------------------
(* Mutant: an empty text leaves the old one to be provided. *)
SavedKeepsOld(text) == IF text = 0 THEN {provide} ELSE {text, NoText}

(* ext_clipboard_save_provide_msg; it may fail to compress the text. *)
Saved(text) == IF text = 0 THEN {NoText} ELSE {text, NoText}

(* nvnc_send_cut_text: the text is kept for later requests if any client    *)
(* (this one, or another) has the extension.                                *)
SendCutText(text, others) ==
  /\ alive /\ ~hung /\ copies < session.copies
  /\ copies' = copies + 1 /\ appText' = text
  /\ provide' \in (IF extClip \/ others THEN Saved(text) ELSE {NoText})
  /\ out' = CASE ~extClip -> ToClient("latin1", text)
              [] extClip /\ provide' = NoText -> out
              [] extClip /\ provide' # NoText /\ caps.provide /\ text <= caps.max ->
                   ToClient("provide", provide')
              [] extClip /\ provide' # NoText /\ caps.notify
                   /\ ~(caps.provide /\ text <= caps.max) ->
                   ToClient("notify", provide')
              [] OTHER -> out
  /\ UNCHANGED <<session, alive, hung, sent, update, fence, extMouse, inputVars, extClip, caps>>

-----------------------------------------------------------------------------
(* on_connection: what a client can do if it does not say. *)
DefaultCaps == [provide |-> TRUE, notify |-> TRUE, request |-> TRUE, max |-> Max(Texts)]

Init ==
  /\ session \in Sessions
  /\ alive = TRUE /\ hung = FALSE
  /\ sent = << >> /\ sock = << >> /\ buf = << >> /\ cut = NoCut
  /\ processing = FALSE /\ update = "no" /\ fence = FALSE /\ blocked = FALSE /\ blockNext = FALSE
  /\ handled = << >>
  /\ extClip = FALSE /\ extMouse = FALSE
  /\ caps = DefaultCaps /\ provide = NoText /\ appText = 0 /\ copies = 0 /\ out = << >>

LoopStep ==
  \/ LeaveLoop \/ OnFixed \/ OnNtp \/ OnPointer \/ OnSetEncodings
  \/ OnSetDesktopSize \/ OnFence \/ OnBadMessage \/ OnCutText \/ OnExtClipboard

Next ==
  \/ \E m \in session.menu : ClientSend(m)
  \/ LoopStep \/ SendExtSupport
  \/ OnReadable \/ OnReadableCutText
  \/ UpdateStarts \/ FinishUpdate \/ UpdateSent
  \/ \E text \in Texts, others \in BOOLEAN : SendCutText(text, others)

(* The event loop comes back to a readable socket, the message loop goes on *)
(* and, with an application that keeps drawing, updates start and end.      *)
Fairness ==
  /\ WF_vars(LoopStep) /\ WF_vars(OnReadable) /\ WF_vars(OnReadableCutText)
  /\ WF_vars(UpdateStarts) /\ WF_vars(FinishUpdate) /\ WF_vars(UpdateSent)

Spec == Init /\ [][Next]_vars /\ Fairness

-----------------------------------------------------------------------------
(* The types.  msg_buffer never holds more than MSG_BUFFER_SIZE. *)
Messages == UNION {s.menu : s \in Sessions}
Units == Nat \X Nat
Replies == [kind : {"ntp", "caps", "latin1", "provide", "notify", "request"},
            text : Texts \cup {NoText}]

TypeOK ==
  /\ session \in Sessions
  /\ alive \in BOOLEAN /\ hung \in BOOLEAN /\ processing \in BOOLEAN
  /\ sent \in Seq(Messages) /\ sock \in Seq(Units) /\ handled \in Seq(Units)
  /\ buf \in Seq(Units) /\ Len(buf) <= MsgBufferSize
  /\ cut \in [length : Nat, index : Nat, msg : Nat]
  /\ update \in {"no", "encoding", "sending"}
  /\ fence \in BOOLEAN /\ blocked \in BOOLEAN /\ blockNext \in BOOLEAN
  /\ extMouse \in BOOLEAN
  /\ provide \in Texts \cup {NoText} /\ appText \in Texts /\ copies \in Nat
  /\ out \in Seq(Replies)

Handled == INSTANCE ByteStream WITH
  accepted <- [k \in DOMAIN sent |-> <<k, 1>>],
  arrived <- handled, told <- [m \in {} |-> "none"], open <- alive

(* Every message is handled once and in the order in which the client sent  *)
(* them, however reads cut them, wherever a fence interrupts the loop, and  *)
(* with a long cut text collected past msg_buffer.                          *)
HandledInOrder == Handled!BSSpec

(* A clipboard text that is provided, at once or when the client asks for   *)
(* it later, is the one that the application set last.                      *)
ProvidesLatest ==
  [][out' # out /\ Last(out').kind = "provide" => Last(out').text = appText']_vars

(* The server drops a client only for a message that it does not know or a  *)
(* cut text over the limit, or if msg_buffer fills up behind a fence: a     *)
(* message that is not complete never fills it, and cut text passes it by.  *)
(* Messages fit msg_buffer (a list of more than 1023 encodings does not,    *)
(* and is waited for until the buffer is full), and there is memory for a   *)
(* cut text.                                                                *)
DroppedOnlyBlocked ==
  [][alive /\ ~alive' =>
       \/ blocked
       \/ buf # << >> /\ \/ Msg.type = "bad"
                         \/ Msg.type \in {"cut_text", "clipboard"}
                              /\ Msg.len > MaxCutText]_vars

(* Every message is handled in the end, unless the client is dropped, a     *)
(* resize request does not return (check_desktop_layout does not, for a     *)
(* layout of two displays: a defect that this property steps around), or    *)
(* the client is blocked without a fence that would unblock it (FbUpdate    *)
(* has what leads to that).                                                 *)
HandledAll ==
  \A k \in 1..MaxSent :
    Len(sent) >= k ~> Len(handled) >= k \/ ~alive \/ hung \/ (blocked /\ ~fence)
=============================================================================
