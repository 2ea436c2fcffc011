------------------------------- MODULE Streams -------------------------------
(***************************************************************************)
(* One connection's stream, of any of the four kinds (src/src/stream/):    *)
(* plain TCP (tcp.c), WebSocket (ws/), RSA-AES (rsa-aes.c) and TLS         *)
(* (gnutls.c), both ways, at the level of bytes.                           *)
(*                                                                         *)
(* A unit stands for a byte or a group of bytes that is never split.  Unit *)
(* <<m, i>> is the i-th of the payload of message m; <<m, 0, n>> stands    *)
(* for what goes in front of a payload of n units (the length and opcode   *)
(* of a WebSocket frame, the length of an RSA-AES message).                *)
(*                                                                         *)
(* The server is one thread.  A flush runs the completion callbacks of the *)
(* requests it has sent, and a callback may send; todo is the rest of what *)
(* the thread has to do before it returns to the event loop.               *)
(***************************************************************************)
EXTENDS Integers, Sequences, SequencesExt, FiniteSets, FiniteSetsExt

CONSTANTS
  Kinds,          \* the kinds of stream to look at
  Messages,       \* a set of numbers: the messages that the server sends
  Size,           \* the units in a message of the server
  Frames,         \* what the peer may send: pairs of a length and an opcode
  PeerFrames,     \* bound: how many of them
  Space,          \* MSG_BUFFER_SIZE: room for what is read
  BufferSize,     \* sizeof(ws->read_buffer), RSA_AES_BUFFER_SIZE
  KeySize         \* the bytes of a WebSocket masking key: 4

(* "bad" stands for the opcodes that are not defined, and for a message     *)
(* whose MAC is wrong.                                                      *)
Opcodes == {"cont", "text", "bin", "ping", "pong", "close", "bad"}

ASSUME StreamsConstants ==
  /\ Kinds \subseteq {"tcp", "ws", "rsa_aes", "tls"}
  /\ Messages \subseteq Nat \ {0} /\ Size \in Nat \ {0}
  /\ Frames \subseteq Nat \X Opcodes /\ PeerFrames \in Nat
  /\ Space \in Nat \ {0} /\ BufferSize \in Nat \ {0} /\ KeySize \in Nat \ {0}

VARIABLES
  kind,      \* stream->impl
  phase,     \* ws_state, and the TLS states: "handshake", "ready", "stopped"
  open,      \* stream->state # STREAM_STATE_CLOSED
  cork,      \* stream->cork
  queue,     \* stream->send_queue: [units, cb], cb = 0 for no on_done
  todo,      \* what the thread has still to do
  peer,      \* what the peer has made of the units sent
  accepted,  \* payload units of the messages that send took on
  told,      \* what on_done was told of each message
  torn,      \* not in the code: a message was sent inside of another's frame
  net,       \* units the peer has sent that were not read
  peerSent,  \* payload units of the peer's data frames
  nPeer,     \* frames the peer has sent
  message,   \* the opcode of the message that the peer may continue
  rbuf,      \* read_buffer, or the decrypted record inside of GnuTLS
  left,      \* header.payload_length
  opcode,    \* current_opcode
  room,      \* the size that a read has left, NotReading outside of a read
  got,       \* what was copied to whoever reads
  lost       \* not in the code: the WebSocket parser has lost its place

outVars == <<cork, queue, todo, peer, accepted, told, torn>>
peerVars == <<peerSent, nPeer, message>>
inVars == <<net, peerVars, rbuf, left, opcode, room, got, lost>>
vars == <<kind, phase, open, outVars, inVars>>

NotReading == -1
Idle == todo = << >> /\ room = NotReading

-----------------------------------------------------------------------------
(* Units other than payload: the lines of a WebSocket handshake and its     *)
(* reply, the payload of a pong, and what was not understood.               *)
RequestLine == <<0, -2>>
KeyLine == <<0, -3>>
OtherLine == <<0, -4>>
EmptyLine == <<0, -5>>
Reply == <<0, -6>>
Echo == <<0, -7>>
Garbled == <<0, -8>>

-----------------------------------------------------------------------------
(* Sending. *)
Payload(m) == [i \in 1..Size |-> <<m, i>>]
Req(units, cb) == [units |-> units, cb |-> cb]

(* stream_rsa_aes_send: messages of at most RSA_AES_BUFFER_SIZE, each with  *)
(* its length and its MAC, in one buffer.                                   *)
Encrypted(m) ==
  LET From(i) == (i - 1) * BufferSize
      Length(i) == Min({Size - From(i), BufferSize})
      One(i) == << <<m, 0, Length(i)>> >>
                  \o SubSeq(Payload(m), From(i) + 1, From(i) + Length(i))
                  \o << <<m, -1, 0>> >>
  IN  FlattenSeq([i \in 1..((Size + BufferSize - 1) \div BufferSize) |-> One(i)])

(* The requests that stream_send puts on the queue: stream_ws_send sends a  *)
(* header of its own.                                                       *)
Requests(m) ==
  CASE kind = "ws"      -> << Req(<< <<m, 0, Size>> >>, 0), Req(Payload(m), m) >>
    [] kind = "rsa_aes" -> << Req(Encrypted(m), m) >>
    [] OTHER            -> << Req(Payload(m), m) >>

SizeTo(q, k) == FoldSet(LAMBDA i, n : n + Len(q[i].units), 0, 1..k)
UnitsOf(q) == FlattenSeq([i \in DOMAIN q |-> q[i].units])

(* on_done of the requests of q that have one, with a status. *)
Callbacks(q, status) ==
  LET called == SelectSeq(q, LAMBDA r : r.cb # 0)
  IN  [i \in DOMAIN called |-> [do |-> "callback", cb |-> called[i].cb, status |-> status]]

Uncork == << [do |-> "uncork"] >>

(* The peer, as it takes apart what it gets: it has got the payload units   *)
(* "out", and "need" more units belong to the frame it is reading.  Before  *)
(* the first frame of a WebSocket it expects the reply to its request (need *)
(* is -1); the payload of a pong is not for the layer above.                *)
PeerTakes(p, u) ==
  CASE kind # "ws" ->
         [p EXCEPT !.out = IF Len(u) = 2 THEN Append(@, u) ELSE @]
    [] kind = "ws" /\ p.need = -1 ->
         [p EXCEPT !.need = 0, !.out = IF u = Reply THEN @ ELSE <<Garbled>>]
    [] kind = "ws" /\ p.need = 0 ->
         IF Len(u) >= 3 THEN [p EXCEPT !.need = u[3], !.pong = (Len(u) = 4)]
         ELSE [p EXCEPT !.out = Append(@, Garbled)]
    [] kind = "ws" /\ p.need > 0 ->
         [p EXCEPT !.need = @ - 1,
                   !.out = IF p.pong /\ u = Echo THEN @ ELSE Append(@, u)]

PeerGets(units) ==
  LET After[i \in 0..Len(units)] ==
        IF i = 0 THEN peer ELSE PeerTakes(After[i - 1], units[i])
  IN  After[Len(units)]

(* Mutant: a request that was sent in part is sent again from its start. *)
LeaveResend(q, n) ==
  LET k == Min({j \in 1..Len(q) : SizeTo(q, j) >= n})
      whole == IF SizeTo(q, k) = n THEN k ELSE k - 1
  IN  [done |-> SubSeq(q, 1, whole), rest |-> SubSeq(q, whole + 1, Len(q))]

(* What a flush makes of the queue when sendmsg has taken n units: the      *)
(* requests that are done, and the rest, the first of them without what was *)
(* sent.  The loop ends at the request where the count runs out.            *)
Leave(q, n) ==
  LET k == Min({j \in 1..Len(q) : SizeTo(q, j) >= n})
      whole == IF SizeTo(q, k) = n THEN k ELSE k - 1
      rest == SubSeq(q, whole + 1, Len(q))
  IN  [done |-> SubSeq(q, 1, whole),
       rest |-> IF whole = k THEN rest
                ELSE [rest EXCEPT ![1].units =
                        SubSeq(@, n - SizeTo(q, whole) + 1, Len(@))]]

(* The close functions of the streams: every request on the queue fails.    *)
CloseThen(q, after) ==
  /\ open' = FALSE
  /\ cork' = (cork \/ kind # "tls")
  /\ queue' = << >> /\ todo' = Callbacks(q, "failed") \o after
  /\ UNCHANGED peer

(* stream_tcp__flush of q, before the steps in "after": nothing if corked   *)
(* or empty, else sendmsg takes some units (none for EAGAIN), or finds that *)
(* the peer is gone (EPIPE).                                                *)
TcpFlush(q, after) ==
  \/ /\ cork \/ q = << >>
     /\ queue' = q /\ todo' = after
     /\ UNCHANGED <<open, cork, peer>>
  \/ /\ ~cork /\ q # << >> /\ UnitsOf(q) # << >>
     /\ queue' = q /\ todo' = after
     /\ UNCHANGED <<open, cork, peer>>
  \/ /\ ~cork /\ q # << >>
     /\ CloseThen(q, after)
  \/ /\ ~cork /\ q # << >>
     /\ \E n \in 0..Len(UnitsOf(q)) :
          /\ n = 0 => UnitsOf(q) = << >>
          /\ peer' = PeerGets(SubSeq(UnitsOf(q), 1, n))
          /\ queue' = Leave(q, n).rest
          /\ cork' = TRUE
          /\ todo' = Callbacks(Leave(q, n).done, "done") \o Uncork \o after
          /\ UNCHANGED open

(* One turn of the loop of stream_gnutls__flush: a record takes some of the *)
(* first request; none, or less than all, ends the loop, and a fatal error  *)
(* closes the stream.                                                       *)
TlsFlush(q, after) ==
  \/ /\ q = << >>
     /\ queue' = q /\ todo' = after
     /\ UNCHANGED <<open, cork, peer>>
  \/ q # << >> /\ CloseThen(q, after)
  \/ /\ q # << >>
     /\ \E n \in 0..Len(q[1].units) :
          /\ peer' = PeerGets(SubSeq(q[1].units, 1, n))
          /\ IF n = Len(q[1].units)
             THEN /\ queue' = Tail(q)
                  /\ todo' = Callbacks(<<q[1]>>, "done")
                             \o << [do |-> "flush"] >> \o after
             ELSE /\ queue' = [q EXCEPT ![1].units = SubSeq(@, n + 1, Len(@))]
                  /\ todo' = after
     /\ UNCHANGED <<open, cork>>

Flush(q, after) ==
  IF kind = "tls" THEN TlsFlush(q, after) ELSE TcpFlush(q, after)

(* The peer is in the middle of a frame: a WebSocket header was queued      *)
(* whose payload was not, or the payload of a ping that is being answered   *)
(* is still to come.                                                        *)
IsQueue(t) == t.do = "queue"
InFrame(after) ==
  kind = "ws" /\ (SelectSeq(after, IsQueue) # << >> \/ (opcode = "ping" /\ left > 0))

(* stream_send of m while "after" is still to be done.  The second request  *)
(* of a WebSocket message is queued when the flush of the first has         *)
(* returned.                                                                *)
SendThen(m, after) ==
  /\ accepted' = accepted \o Payload(m)
  /\ torn' = (torn \/ InFrame(after))
  /\ LET reqs == Requests(m)
         rest == [i \in 1..(Len(reqs) - 1) |-> [do |-> "queue", req |-> reqs[i + 1]]]
     IN  Flush(Append(queue, reqs[1]), rest \o after)

MaySend(m) ==
  /\ m \notin {u[1] : u \in Range(accepted)}
  /\ kind = "tls" => phase = "ready"

(* stream_send from the event loop. *)
Send(m) ==
  /\ Idle /\ open /\ MaySend(m)
  /\ SendThen(m, << >>)
  /\ UNCHANGED <<kind, phase, told, inVars>>

(* stream_tcp__on_writable and stream_gnutls__on_writable *)
OnWritable ==
  /\ Idle /\ open /\ queue # << >>
  /\ kind = "tls" => phase = "ready"
  /\ Flush(queue, << >>)
  /\ UNCHANGED <<kind, phase, accepted, told, torn, inVars>>

IsCallback(t) == t.do = "callback"

(* A callback that closes the stream: the requests whose callbacks the      *)
(* flush has not run yet fail like those that it has not sent.  (The loop   *)
(* of stream_tcp__flush then goes on with a request that is gone.)          *)
CloseInCallback ==
  LET rest == Tail(todo)
      waiting == SelectSeq(rest, IsCallback)
  IN  /\ open' = FALSE
      /\ cork' = (cork \/ kind # "tls")
      /\ queue' = << >>
      /\ todo' = [i \in DOMAIN waiting |-> [waiting[i] EXCEPT !.status = "failed"]]
                 \o Callbacks(queue, "failed")
                 \o SelectSeq(rest, LAMBDA t : ~IsCallback(t))
      /\ UNCHANGED peer

(* The next thing the thread has to do: on_done returns, sends a message or *)
(* closes the stream.                                                       *)
RunCallback ==
  /\ todo # << >> /\ todo[1].do = "callback"
  /\ told' = [told EXCEPT ![todo[1].cb] = todo[1].status]
  /\ \/ todo' = Tail(todo) /\ UNCHANGED <<open, cork, queue, peer, accepted, torn>>
     \/ /\ open
        /\ \E m \in Messages : MaySend(m) /\ SendThen(m, Tail(todo))
     \/ open /\ CloseInCallback /\ UNCHANGED <<accepted, torn>>
  /\ UNCHANGED <<kind, phase, inVars>>

RunQueue ==
  /\ todo # << >> /\ todo[1].do = "queue"
  /\ IF open THEN Flush(Append(queue, todo[1].req), Tail(todo))
             ELSE todo' = Tail(todo) /\ UNCHANGED <<open, queue, cork, peer>>
  /\ UNCHANGED <<kind, phase, accepted, told, torn, inVars>>

RunFlush ==
  /\ todo # << >> /\ todo[1].do = "flush"
  /\ Flush(queue, Tail(todo))
  /\ UNCHANGED <<kind, phase, accepted, told, torn, inVars>>

RunUncork ==
  /\ todo # << >> /\ todo[1].do = "uncork"
  /\ cork' = FALSE /\ todo' = Tail(todo)
  /\ UNCHANGED <<kind, phase, open, queue, peer, accepted, told, torn, inVars>>

-----------------------------------------------------------------------------
(* What the peer sends.  The handshake of a WebSocket is a request line, a  *)
(* line with the key, another line and the empty line; a WebSocket frame    *)
(* has a masking key, an RSA-AES message a MAC at the end.                  *)
HttpRequest == <<RequestLine, KeyLine, OtherLine, EmptyLine>>

Header(p, n, op) == <<p, 0, n, op>>
IsHead(u) == Len(u) = 4
MaskKey(p) == <<p, -1>>
Mac(p) == <<p, -1>>

Body(p, n) == [i \in 1..n |-> <<p, i>>]

Encode(p, n, op) ==
  CASE kind = "tcp"     -> Body(p, n)
    [] kind = "tls"     -> <<Header(p, n, op)>> \o Body(p, n)
    [] kind = "rsa_aes" -> <<Header(p, n, op)>> \o Body(p, n)
                             \o << IF op = "bad" THEN Garbled ELSE Mac(p) >>
    [] kind = "ws"      -> <<Header(p, n, op), MaskKey(p)>> \o Body(p, n)

(* A message of a WebSocket may have continuations, also after pings and    *)
(* pongs; the payload of binary messages is what the peer sends.            *)
PeerSend(n, op) ==
  /\ open /\ nPeer < PeerFrames
  /\ kind \in {"tcp", "tls"} => op = "bin" /\ n > 0
  /\ kind = "rsa_aes" => op \in {"bin", "bad"} /\ n > 0
  /\ kind = "tls" => phase = "ready"
  /\ nPeer' = nPeer + 1
  /\ net' = net \o Encode(nPeer + 1, n, op)
  /\ message' = IF op \in {"text", "bin"} THEN op ELSE message
  /\ peerSent' = IF op = "bin" \/ (op = "cont" /\ message = "bin")
                 THEN peerSent \o Body(nPeer + 1, n) ELSE peerSent
  /\ UNCHANGED <<kind, phase, open, outVars, rbuf, left, opcode, room, got, lost>>

-----------------------------------------------------------------------------
(* Reading. *)
Drop(s, n) == SubSeq(s, n + 1, Len(s))
Take(s, n) == SubSeq(s, 1, n)

(* stream_tcp_read *)
ReadTcp ==
  /\ Idle /\ open /\ kind = "tcp" /\ net # << >>
  /\ \E n \in 1..Min({Space, Len(net)}) :
       got' = got \o Take(net, n) /\ net' = Drop(net, n)
  /\ UNCHANGED <<kind, phase, open, outVars, peerVars, rbuf, left, opcode, room, lost>>

(* Mutant: what is left of a record is dropped. *)
ReadTlsDropsRest ==
  /\ Idle /\ open /\ kind = "tls" /\ phase = "ready" /\ net # << >>
  /\ LET n == net[1][3]
         record == IF rbuf # << >> THEN rbuf ELSE SubSeq(net, 2, n + 1)
     IN  /\ net' = IF rbuf # << >> THEN net ELSE Drop(net, n + 1)
         /\ \E size \in 1..Space :
              LET k == Min({size, Len(record)})
              IN  got' = got \o Take(record, k) /\ rbuf' = << >>
  /\ UNCHANGED <<kind, phase, open, outVars, peerVars, left, opcode, room, lost>>

(* stream_gnutls_read: gnutls_record_recv returns what is left of a record, *)
(* or else of the next one, once all of it is there.                        *)
ReadTls ==
  /\ Idle /\ open /\ kind = "tls" /\ phase = "ready" /\ net # << >>
  /\ LET n == net[1][3]
         record == IF rbuf # << >> THEN rbuf ELSE SubSeq(net, 2, n + 1)
     IN  /\ net' = IF rbuf # << >> THEN net ELSE Drop(net, n + 1)
         /\ \E size \in 1..Space :
              LET k == Min({size, Len(record)})
              IN  got' = got \o Take(record, k) /\ rbuf' = Drop(record, k)
  /\ UNCHANGED <<kind, phase, open, outVars, peerVars, left, opcode, room, lost>>

(* stream_ws_read_into_buffer and stream_rsa_aes_read_into_buffer, at the   *)
(* start of a read of some size.                                            *)
ReadIntoBuffer ==
  /\ Idle /\ open /\ kind \in {"ws", "rsa_aes"} /\ net # << >>
  /\ \E n \in 1..Min({BufferSize - Len(rbuf), Len(net)}) :
       /\ rbuf' = rbuf \o Take(net, n) /\ net' = Drop(net, n)
  /\ room' \in 1..Space
  /\ UNCHANGED <<kind, phase, open, outVars, peerVars, left, opcode, got, lost>>

(* The buffer is full: read returns 0, as it does at the end of the input.  *)
ReadNoSpace ==
  /\ Idle /\ open /\ kind \in {"ws", "rsa_aes"} /\ net # << >>
  /\ Len(rbuf) = BufferSize
  /\ CloseThen(queue, << >>)
  /\ UNCHANGED <<kind, phase, accepted, told, torn, inVars>>

(* stream_rsa_aes_read_message: one whole message, if there is room for it. *)
(* A wrong MAC is an error, and on_client_event closes the client.          *)
ReadMessage ==
  /\ todo = << >> /\ room # NotReading /\ kind = "rsa_aes"
  /\ LET n == rbuf[1][3]
         whole == Len(rbuf) > 1 /\ Len(rbuf) >= n + 2 /\ n <= room
     IN  \/ /\ whole /\ rbuf[n + 2] # Garbled
            /\ got' = got \o SubSeq(rbuf, 2, n + 1)
            /\ rbuf' = Drop(rbuf, n + 2)
            /\ room' = room - n
            /\ UNCHANGED <<open, cork, queue, todo, peer>>
         \/ /\ whole /\ rbuf[n + 2] = Garbled
            /\ room' = NotReading
            /\ CloseThen(queue, << >>)
            /\ UNCHANGED <<got, rbuf>>
         \/ /\ ~whole
            /\ room' = NotReading
            /\ UNCHANGED <<got, rbuf, open, cork, queue, todo, peer>>
  /\ UNCHANGED <<kind, phase, accepted, told, torn, net, peerVars, left, opcode, lost>>

(* http_req_parse: the length of the header, 0 if it is no request.  The    *)
(* parser takes the lines that it finds, and the empty line only if there   *)
(* is one: a header that is not all there yet is taken for a whole one.     *)
HttpLength(text) ==
  LET lines == {k \in DOMAIN text :
                  \A j \in 2..k : text[j] \in {KeyLine, OtherLine}}
      n == IF lines = {} THEN 0 ELSE Max(lines)
  IN  IF text = << >> \/ text[1] # RequestLine THEN 0
      ELSE IF n < Len(text) /\ text[n + 1] = EmptyLine THEN n + 1 ELSE n

(* ws_handshake: the length of the header, 0 without a key in it.           *)
WsHandshake(text) ==
  IF \E j \in 2..HttpLength(text) : text[j] = KeyLine THEN HttpLength(text) ELSE 0

(* stream_ws_read_handshake: the reply goes before all that was queued.  A  *)
(* header that fills the buffer closes the stream.  The parser is lost if   *)
(* the rest of the header is still to come.                                 *)
ReadHandshake ==
  /\ todo = << >> /\ room # NotReading /\ kind = "ws" /\ phase = "handshake"
  /\ LET n == WsHandshake(rbuf) IN
     \/ /\ Len(rbuf) = BufferSize
        /\ room' = NotReading
        /\ CloseThen(queue, << >>)
        /\ UNCHANGED <<phase, rbuf, lost>>
     \/ /\ Len(rbuf) < BufferSize /\ n = 0
        /\ room' = NotReading
        /\ UNCHANGED <<phase, open, cork, queue, todo, peer, rbuf, lost>>
     \/ /\ Len(rbuf) < BufferSize /\ n > 0
        /\ phase' = "ready"
        /\ lost' = (rbuf[n] # EmptyLine)
        /\ rbuf' = Drop(rbuf, n)
        /\ cork' = FALSE
        /\ queue' = << Req(<<Reply>>, 0) >> \o queue
        /\ todo' = << [do |-> "flush"] >>
        /\ UNCHANGED <<open, peer, room>>
  /\ UNCHANGED <<kind, accepted, told, torn, net, peerVars, left, opcode, got>>

(* ws_copy_payload: byte i of a chunk is unmasked with byte i % 4 of the    *)
(* key, whatever part of the frame the chunk is.  A byte that is unmasked   *)
(* with another byte of the key than it was masked with is altered.         *)
Altered(u) == <<u[1], u[2], "altered">>

Unmasked(chunk) ==
  [i \in DOMAIN chunk |->
     IF (chunk[i][2] - 1) % KeySize = (i - 1) % KeySize
     THEN chunk[i] ELSE Altered(chunk[i])]

(* The header of the pong that stream_ws_process_ping answers with, for the *)
(* payload of the ping.                                                     *)
Pong(len) == [do |-> "queue", req |-> Req(<<Header(0, len, "pong")>>, 0)]

(* stream_ws_process_payload, with the header of offset units still in the  *)
(* buffer and len units of payload to come.  An undefined opcode is an      *)
(* error, upon which on_client_event closes the client unless errno is      *)
(* still EAGAIN from an earlier call.                                       *)
ProcessPayload(op, len, offset) ==
  LET avail == Len(rbuf) - offset
      k == IF op = "bin" THEN Min({room, avail, len}) ELSE Min({avail, len})
      chunk == SubSeq(rbuf, offset + 1, offset + k)
      stays == op \in {"cont", "close", "bad"}
  IN  /\ opcode' = op
      /\ \/ /\ op = "bin"
            /\ got' = got \o Unmasked(chunk)
            /\ room' = IF k = 0 THEN NotReading ELSE room - k
            /\ UNCHANGED <<open, cork, queue, todo, peer>>
         \/ /\ op = "ping"
            /\ room' = NotReading
            /\ todo' = (IF offset > 0
                        THEN <<Pong(len)>> ELSE << >>)
                       \o << [do |-> "queue", req |-> Req([i \in 1..k |-> Echo], 0)] >>
            /\ UNCHANGED <<open, cork, queue, peer, got>>
         \/ /\ op \in {"text", "pong", "bad"}
            /\ room' = NotReading
            /\ UNCHANGED <<open, cork, queue, todo, peer, got>>
         \/ /\ stays
            /\ room' = NotReading
            /\ CloseThen(queue, << >>)
            /\ UNCHANGED got
      /\ left' = IF stays THEN len ELSE len - k
      /\ rbuf' = IF stays THEN rbuf ELSE Drop(rbuf, offset + k)

(* stream_ws_read_frame: the rest of a payload, or a new frame.             *)
(*                                                                          *)
(* The parser loses its place in two ways.  A header without its key is not *)
(* parsed, but its length is kept, and the next call takes the header for   *)
(* payload.  A continuation after a ping or a pong belongs to the message   *)
(* before, but is taken for more of the ping or the pong.                   *)
ReadFrame ==
  /\ todo = << >> /\ room # NotReading /\ kind = "ws" /\ phase = "ready" /\ ~lost
  /\ IF left > 0 THEN ProcessPayload(opcode, left, 0) /\ UNCHANGED lost
     ELSE IF Len(rbuf) < 2
     THEN /\ room' = NotReading
          /\ left' = IF rbuf = << >> THEN left ELSE rbuf[1][3]
          /\ lost' = (left' > 0)
          /\ UNCHANGED <<open, cork, queue, todo, peer, rbuf, opcode, got>>
     ELSE LET op == IF rbuf[1][4] # "cont" THEN rbuf[1][4] ELSE opcode
          IN  /\ ProcessPayload(op, rbuf[1][3], 2)
              /\ lost' = (rbuf[1][4] = "cont" /\ opcode \in {"ping", "pong"})
  /\ UNCHANGED <<kind, phase, accepted, told, torn, net, peerVars>>

(* A parser that has lost its place makes something or other of the bytes   *)
(* it reads: here, nothing, or a frame that closes the stream.              *)
ReadLost ==
  /\ todo = << >> /\ room # NotReading /\ kind = "ws" /\ phase = "ready" /\ lost
  /\ room' = NotReading
  /\ \/ UNCHANGED <<open, cork, queue, todo, peer>>
     \/ CloseThen(queue, << >>)
  /\ UNCHANGED <<kind, phase, accepted, told, torn, net, peerVars, rbuf, left, opcode, got, lost>>

-----------------------------------------------------------------------------
(* stream__try_tls_accept: the handshake is done, or fails for good, and    *)
(* then the handler is stopped.                                             *)
TlsAccept ==
  /\ Idle /\ open /\ kind = "tls" /\ phase = "handshake"
  /\ phase' \in {"ready", "stopped"}
  /\ UNCHANGED <<kind, open, outVars, inVars>>

(* stream_close, and stream__remote_closed when read returns 0. *)
Close ==
  /\ Idle /\ open
  /\ CloseThen(queue, << >>)
  /\ UNCHANGED <<kind, phase, accepted, told, torn, inVars>>

(* stream_new and stream_ws_new: a WebSocket starts corked. *)
Init ==
  /\ kind \in Kinds
  /\ phase = (IF kind \in {"ws", "tls"} THEN "handshake" ELSE "ready")
  /\ open = TRUE
  /\ cork = (kind = "ws")
  /\ queue = << >> /\ todo = << >> /\ accepted = << >>
  /\ peer = [need |-> IF kind = "ws" THEN -1 ELSE 0, pong |-> FALSE, out |-> << >>]
  /\ told = [m \in Messages |-> "none"] /\ torn = FALSE
  /\ net = (IF kind = "ws" THEN HttpRequest ELSE << >>)
  /\ peerSent = << >> /\ nPeer = 0 /\ message = "none"
  /\ rbuf = << >> /\ left = 0 /\ opcode = "cont"
  /\ room = NotReading /\ got = << >> /\ lost = FALSE

Next ==
  \/ \E m \in Messages : Send(m)
  \/ OnWritable \/ RunCallback \/ RunQueue \/ RunFlush \/ RunUncork
  \/ \E f \in Frames : PeerSend(f[1], f[2])
  \/ ReadTcp \/ ReadTls \/ ReadIntoBuffer \/ ReadNoSpace \/ ReadMessage
  \/ ReadHandshake \/ ReadFrame \/ ReadLost \/ TlsAccept \/ Close

Spec == Init /\ [][Next]_vars

-----------------------------------------------------------------------------
NobodyTold == [m \in {} |-> "none"]

(* What was received, with altered bytes for what they were. *)
Received == [i \in DOMAIN got |-> <<got[i][1], got[i][2]>>]

Out == INSTANCE ByteStream WITH arrived <- peer.out

In == INSTANCE ByteStream WITH
        accepted <- peerSent, arrived <- Received, told <- NobodyTold

(* The sending side of each stream implements ByteStream: over congestion,  *)
(* partial writes, callbacks that send or close while a flush is under way, *)
(* the cork of the WebSocket handshake, pongs between messages and a close  *)
(* at any time, the peer can take apart what is on the wire and gets the    *)
(* messages in order and unaltered; on_done runs at most once for each,     *)
(* with DONE only when all of the message was passed to the socket.  The    *)
(* exceptions (torn) are of WebSockets: a callback that sends while it is   *)
(* run by the flush of another message's header, and a message that is sent *)
(* while the payload of a ping, whose answer has begun, is still to come.   *)
SendsInOrder ==
  /\ Out!BSInit
  /\ [][torn' \/ Out!BSNext]_(Out!bsVars)

(* The receiving side of each stream implements ByteStream: what            *)
(* stream_read returns, however reads, messages and frames overlap, is what *)
(* the peer sent, in order, none missing and without the framing, until a   *)
(* WebSocket request, a frame's header or a continued message arrives in    *)
(* pieces in which the parser loses its place (lost).  No byte is altered   *)
(* but in a chunk of a WebSocket frame's payload that does not begin at a   *)
(* multiple of the key's size.                                              *)
ReadsInOrder ==
  /\ In!BSInit
  /\ [][lost' \/ In!BSNext]_(In!bsVars)
  /\ [](kind # "ws" => got = Received)
=============================================================================
