----------------------------- MODULE Handshake -----------------------------
(***************************************************************************)
(* The clients of a server from accept() to VNC_CLIENT_STATE_READY: the    *)
(* version and security messages, the five ways to hand over credentials,  *)
(* the application's verdict on them, which may come inside the callback   *)
(* or at any later time, ClientInit, and the handshake timer.              *)
(*                                                                         *)
(* A handler reads its message out of the client's buffer and interprets   *)
(* it by the client's state, so a message is only a token here, marked     *)
(* with the channel it was read from; what it says is chosen when it is    *)
(* interpreted.  Callbacks into the application are frames of the call     *)
(* stack: inside of one the application may call back into the library.    *)
(* Closing a client whose compositor works runs the event loop until the   *)
(* work is done, and any event may then come in between.                   *)
(***************************************************************************)
EXTENDS Integers, Sequences, FiniteSets

CONSTANTS
  Clients,      \* the connections, numbered as they come
  Configs,      \* the authentication settings of the server
  BufferSize,   \* MSG_BUFFER_SIZE, in messages
  MaxConns,     \* bounds: the connections, and the messages of each client,
  MaxReads      \* with (TRUE) and without (FALSE) authentication

Settings ==
  [auth : BOOLEAN, encrypt : BOOLEAN, broken : BOOLEAN, username : BOOLEAN,
   tls : BOOLEAN]

ASSUME HandshakeConstants ==
  /\ Clients \subseteq Nat
  /\ Configs \subseteq Settings
  /\ BufferSize \in Nat \ {0}
  /\ MaxConns \in [BOOLEAN -> Nat]
  /\ MaxReads \in [BOOLEAN -> [Clients -> Nat]]

VARIABLES
  config,    \* server->auth_flags and whether it has tls_creds
  cstate,    \* client->state, or "none" before its life, "closing" in the
             \* event loop of its client_close, and "closed" after it
  chan,      \* the kind of client->net_stream
  buffer,    \* client->msg_buffer: the channels its messages came from
  nRead,     \* what has been used of MaxReads
  hungUp,    \* the stream is closed and client->close_task is scheduled
  timer,     \* client->handshake_timer is running
  creds,     \* the credentials object: "none", "held" by the application, "used"
  stack,     \* the call stack of the event loop's thread
  next,      \* tmp of disconnect_all_other_clients, called for this client
  met,       \* ghost: the clients that it was called to disconnect
  accepted,  \* ghost: the application has accepted the client's credentials
  credsChan  \* ghost: the channel the credentials came from

vars == <<config, cstate, chan, buffer, nRead, hungUp, timer,
          creds, stack, next, met, accepted, credsChan>>

-----------------------------------------------------------------------------
Waiting == {"version", "security", "vencryptVersion", "vencryptSubtype",
            "vencryptPlain", "des", "appleDh", "rsaKey", "rsaChallenge",
            "rsaHash", "rsaCreds", "auth", "init"}
States == {"none", "ready", "closing", "closed"} \cup Waiting
Channels == {"plain", "tls", "aes"}

Alive(c) == cstate[c] \notin {"none", "closing", "closed"}

(* server->clients, which has the latest first *)
Listed == {c \in Clients : cstate[c] \notin {"none", "closed"}}

(* "loop": process_client_messages; "auth_fn": the application's auth_fn;   *)
(* "init": on_init_message up to new_client_fn, "new_client": in it;        *)
(* "closing": compositor_destroy within client_close; "wild": a call has    *)
(* used a client that was freed, and what follows is anyone's guess.        *)
Frame(op, c) == [op |-> op, c |-> c]
Loop(c) == Frame("loop", c)

In(op) == stack # << >> /\ Head(stack).op = op

(* The thread is in an event loop and takes the next event. *)
Idle == stack = << >> \/ In("closing")
InLoop(c) == stack # << >> /\ Head(stack) = Loop(c)
IsProcessing(c) == \E i \in DOMAIN stack : stack[i] = Loop(c)

(* init_security_types *)
SecurityTypes ==
  IF ~config.auth THEN {"none"}
  ELSE {"rsa"} \cup (IF config.tls THEN {"vencrypt"} ELSE {})
         \cup (IF config.encrypt THEN {} ELSE {"appleDh"})
         \cup (IF ~config.encrypt /\ config.broken /\ ~config.username
                 THEN {"vncAuth"} ELSE {})

(* The state in which the client of this security type is expected to answer. *)
FirstState ==
  [vencrypt |-> "vencryptVersion", rsa |-> "rsaKey", appleDh |-> "appleDh",
   vncAuth |-> "des", none |-> "init"]

-----------------------------------------------------------------------------
(* The end of clients. *)

(* client_close, with the calls in rest below it.  Only a client that is    *)
(* ready can have work in its compositor.  What refers to the client weakly *)
(* (credentials, message loops) finds out when it is used next.             *)
Close(c, rest) ==
  /\ timer' = [timer EXCEPT ![c] = FALSE]
  /\ hungUp' = [hungUp EXCEPT ![c] = FALSE]
  /\ \/ /\ cstate' = [cstate EXCEPT ![c] = "closed"]
        /\ stack' = rest
     \/ /\ cstate[c] = "ready"
        /\ cstate' = [cstate EXCEPT ![c] = "closing"]
        /\ stack' = <<Frame("closing", c)>> \o rest

ListFrame == <<next, met>>
CloseFrame == <<config, chan, nRead, creds, accepted, credsChan, ListFrame>>

(* The compositor has nothing left to do, and client_close frees the client. *)
ClosingEnds ==
  /\ In("closing")
  /\ cstate' = [cstate EXCEPT ![Head(stack).c] = "closed"]
  /\ stack' = Tail(stack)
  /\ UNCHANGED <<CloseFrame, buffer, hungUp, timer>>

(* The handler has closed its client and returns -1; the loop sees that its *)
(* weak reference is gone and returns.                                      *)
FailHandshake(c) ==
  /\ Close(c, Tail(stack))
  /\ UNCHANGED <<CloseFrame, buffer>>

-----------------------------------------------------------------------------
(* The message loop. *)

(* try_read_client_message finds a message for a client in state s. *)
Reads(c, s) ==
  /\ InLoop(c)
  /\ cstate[c] = s
  /\ ~hungUp[c]
  /\ buffer[c] # << >>

(* The handler consumes its message and the loop goes on. *)
Consume(c) == buffer' = [buffer EXCEPT ![c] = Tail(@)]

(* The handler answers and waits for the client's next message. *)
Advance(c, s) ==
  /\ Consume(c)
  /\ cstate' = [cstate EXCEPT ![c] = s]
  /\ UNCHANGED <<hungUp, timer, stack>>

(* The loop ends: no message, or one that must wait for the verdict, a      *)
(* closed stream, or a client that has been freed.  A ready client's        *)
(* messages are the subject of FbUpdate.                                    *)
LoopEnds(c) ==
  /\ InLoop(c)
  /\ \/ ~Alive(c) \/ hungUp[c] \/ buffer[c] = << >>
     \/ cstate[c] \in {"auth", "ready"}
  /\ stack' = Tail(stack)
  /\ UNCHANGED <<CloseFrame, cstate, buffer, hungUp, timer>>

(* on_version_message: an unsupported version, or RFB 3.7 and 3.8. *)
OnVersion(c) ==
  /\ Reads(c, "version")
  /\ FailHandshake(c) \/ (Advance(c, "security") /\ UNCHANGED CloseFrame)

(* on_version_message_rfb33: the server chooses. *)
OnVersion33(c) ==
  /\ Reads(c, "version")
  /\ IF config.auth /\ "vncAuth" \notin SecurityTypes
       THEN FailHandshake(c)
       ELSE /\ Advance(c, IF config.auth THEN "des" ELSE "init")
            /\ UNCHANGED CloseFrame

(* Mutant: no authentication is always allowed. *)
IsAllowedTypeOrNone(t) == t \in SecurityTypes \cup {"none"}

(* is_allowed_security_type *)
IsAllowedType(t) == t \in SecurityTypes

OnSecurity(c) ==
  /\ Reads(c, "security")
  /\ \E t \in DOMAIN FirstState :
       IF IsAllowedType(t)
         THEN Advance(c, FirstState[t]) /\ UNCHANGED CloseFrame
         ELSE FailHandshake(c)

(* A message before the credentials: the handler finds it at fault and      *)
(* closes the client, or answers and waits in state s.                      *)
Exchange(c, s) ==
  FailHandshake(c) \/ (Advance(c, s) /\ UNCHANGED CloseFrame)

OnVencryptVersion(c) == Reads(c, "vencryptVersion") /\ Exchange(c, "vencryptSubtype")
OnRsaPublicKey(c) == Reads(c, "rsaKey") /\ Exchange(c, "rsaChallenge")
OnRsaClientHash(c) == Reads(c, "rsaHash") /\ Exchange(c, "rsaCreds")

(* Mutant: data that came before the TLS upgrade is kept. *)
IsCleanAlways(c) == TRUE

(* Nothing has been received behind the message before the TLS upgrade. *)
IsClean(c) == Len(buffer[c]) = 1

(* on_vencrypt_subtype_message upgrades the stream to TLS. *)
OnVencryptSubtype(c) ==
  /\ Reads(c, "vencryptSubtype")
  /\ \/ FailHandshake(c)
     \/ /\ IsClean(c)
        /\ Advance(c, "vencryptPlain")
        /\ chan' = [chan EXCEPT ![c] = "tls"]
        /\ UNCHANGED <<config, nRead, creds, accepted, credsChan, ListFrame>>

(* on_rsa_aes_challenge upgrades the stream to AES. *)
OnRsaChallenge(c) ==
  /\ Reads(c, "rsaChallenge")
  /\ \/ FailHandshake(c)
     \/ /\ Advance(c, "rsaHash")
        /\ chan' = [chan EXCEPT ![c] = "aes"]
        /\ UNCHANGED <<config, nRead, creds, accepted, credsChan, ListFrame>>

(* Mutant: the client's state is left alone until auth_fn has returned. *)
AuthenticateLate(c) ==
  /\ creds' = [creds EXCEPT ![c] = "held"]
  /\ credsChan' = [credsChan EXCEPT ![c] = Head(buffer[c])]
  /\ Consume(c)
  /\ stack' = <<Frame("auth_fn", c)>> \o stack
  /\ UNCHANGED <<config, cstate, chan, nRead, hungUp, timer, accepted,
                 ListFrame>>

(* security_handshake_authenticate makes an object of the credentials in     *)
(* the message and calls auth_fn.                                           *)
Authenticate(c) ==
  /\ cstate' = [cstate EXCEPT ![c] = "auth"]
  /\ creds' = [creds EXCEPT ![c] = "held"]
  /\ credsChan' = [credsChan EXCEPT ![c] = Head(buffer[c])]
  /\ Consume(c)
  /\ stack' = <<Frame("auth_fn", c)>> \o stack
  /\ UNCHANGED <<config, chan, nRead, hungUp, timer, accepted, ListFrame>>

DesAuthResponse(c) == Reads(c, "des") /\ Authenticate(c)
AppleDhResponse(c) == Reads(c, "appleDh") /\ Authenticate(c)
OnRsaCredentials(c) == Reads(c, "rsaCreds") /\ Authenticate(c)

(* on_vencrypt_plain_auth_message: a name or password may be too long. *)
OnVencryptPlainAuth(c) ==
  /\ Reads(c, "vencryptPlain")
  /\ \/ Authenticate(c)
     \/ FailHandshake(c)

(* A function that is to go on with a client that no longer exists. *)
GoWild(c) ==
  /\ stack' = <<Frame("wild", c)>> \o stack
  /\ UNCHANGED <<config, cstate, chan, buffer, nRead, hungUp, timer, creds,
                 accepted, credsChan, ListFrame>>

(* The client that is next in server->clients after n, or the first one. *)
Latest(S) == {d \in S : \A e \in S : e <= d}
ListNext(n) == Latest({d \in Listed : d < n})

(* on_init_message, up to disconnect_all_other_clients. *)
OnInit(c) ==
  /\ Reads(c, "init")
  /\ \E shared \in BOOLEAN :
       /\ stack' = <<Frame("init", c)>> \o stack
       /\ next' = [next EXCEPT ![c] = IF shared THEN {} ELSE Latest(Listed)]
       /\ met' = [met EXCEPT ![c] = IF shared THEN {} ELSE Listed \ {c}]
  /\ UNCHANGED <<config, cstate, chan, buffer, nRead, hungUp, timer, creds,
                 accepted, credsChan>>

(* Mutant: only clients that are ready are disconnected. *)
IsOtherReady(c, n) == n # c /\ cstate[n] = "ready"

(* The clients that disconnect_all_other_clients closes. *)
IsOther(c, n) == n # c

(* One step of its loop.  tmp is read before the client is closed, and may  *)
(* be gone when it is used; a client that is being closed already is closed *)
(* once more.                                                               *)
DisconnectNext(c, n) ==
  \/ /\ n \notin Listed \/ (IsOther(c, n) /\ cstate[n] = "closing")
     /\ GoWild(c)
  \/ /\ n \in Listed /\ ~(IsOther(c, n) /\ cstate[n] = "closing")
     /\ next' = [next EXCEPT ![c] = ListNext(n)]
     /\ IF IsOther(c, n) THEN Close(n, stack)
                         ELSE UNCHANGED <<cstate, stack, hungUp, timer>>
     /\ UNCHANGED <<config, chan, buffer, nRead, creds, met, accepted,
                    credsChan>>

(* send_server_init_message closes the client if the displays have lost     *)
(* their buffers meanwhile; then new_client_fn is called.                   *)
ServerInit(c) ==
  \/ ~Alive(c) /\ GoWild(c)
  \/ /\ Alive(c)
     /\ Consume(c)
     /\ \/ Close(c, Tail(stack))
        \/ /\ stack' = <<Frame("new_client", c)>> \o Tail(stack)
           /\ UNCHANGED <<cstate, hungUp, timer>>
     /\ UNCHANGED CloseFrame

InitGoesOn ==
  /\ In("init")
  /\ LET c == Head(stack).c IN
     \/ \E n \in next[c] : DisconnectNext(c, n)
     \/ next[c] = {} /\ ServerInit(c)

(* auth_fn returns. *)
AuthFnReturns ==
  /\ In("auth_fn")
  /\ stack' = Tail(stack)
  /\ UNCHANGED <<CloseFrame, cstate, buffer, hungUp, timer>>

(* new_client_fn returns, and on_init_message goes on. *)
NewClientReturns ==
  /\ In("new_client")
  /\ LET c == Head(stack).c IN
     /\ Alive(c)
     /\ timer' = [timer EXCEPT ![c] = FALSE]
     /\ cstate' = [cstate EXCEPT ![c] = "ready"]
  /\ stack' = Tail(stack)
  /\ UNCHANGED <<CloseFrame, buffer, hungUp>>

-----------------------------------------------------------------------------
(* Calls of the application. *)

(* At any time from its own code in the event loop, or within auth_fn.      *)
MayCall == Idle \/ In("auth_fn")

(* Mutant: accepting does not resume the message loop. *)
ResumeNothing(c) == stack' = stack

(* process_client_messages returns at once inside of itself. *)
Resume(c) == stack' = IF IsProcessing(c) THEN stack ELSE <<Loop(c)>> \o stack

(* nvnc_auth_creds_accept *)
AcceptCreds(c) ==
  /\ MayCall
  /\ creds[c] = "held"
  /\ creds' = [creds EXCEPT ![c] = "used"]
  /\ \/ /\ ~Alive(c)
        /\ UNCHANGED <<cstate, accepted, stack>>
     \/ /\ Alive(c)
        /\ cstate' = [cstate EXCEPT ![c] = "init"]
        /\ accepted' = [accepted EXCEPT ![c] = TRUE]
        /\ Resume(c)
  /\ UNCHANGED <<config, chan, buffer, nRead, hungUp, timer, credsChan,
                 ListFrame>>

(* nvnc_auth_creds_reject *)
RejectCreds(c) ==
  /\ MayCall
  /\ creds[c] = "held"
  /\ creds' = [creds EXCEPT ![c] = "used"]
  /\ IF Alive(c) THEN Close(c, stack)
                 ELSE UNCHANGED <<cstate, hungUp, timer, stack>>
  /\ UNCHANGED <<config, chan, buffer, nRead, accepted, credsChan, ListFrame>>

(* nvnc_client_close *)
CloseClient(c) ==
  /\ MayCall
  /\ Alive(c)
  /\ Close(c, stack)
  /\ UNCHANGED <<CloseFrame, buffer>>

-----------------------------------------------------------------------------
(* Events. *)

(* Mutant: the handshake timer is not started. *)
StartNoTimer(c) == timer

StartTimer(c) == [timer EXCEPT ![c] = TRUE]

(* on_connection *)
OnConnection(c) ==
  /\ Idle
  /\ cstate[c] = "none"
  /\ \A d \in Clients : d < c => cstate[d] # "none"
  /\ c <= MaxConns[config.auth]
  /\ cstate' = [cstate EXCEPT ![c] = "version"]
  /\ timer' = StartTimer(c)
  /\ UNCHANGED <<CloseFrame, buffer, hungUp, stack>>

(* The room that is left in msg_buffer. *)
Space(c) == BufferSize - Len(buffer[c])

(* on_client_event: read what is there.  A full buffer makes it read 0      *)
(* bytes, which counts as the end of the connection.  (While a handler of   *)
(* the client is suspended the messages before it fill the buffer as well;  *)
(* what that leads to, RemoteClosed does.)                                  *)
OnClientEvent(c) ==
  /\ Idle
  /\ Alive(c) /\ ~hungUp[c]
  /\ nRead[c] < MaxReads[config.auth][c]
  /\ \/ /\ Space(c) = 0
        /\ hungUp' = [hungUp EXCEPT ![c] = TRUE]
        /\ UNCHANGED <<buffer, nRead, stack>>
     \/ \E n \in 1..Space(c) :
        /\ nRead[c] + n <= MaxReads[config.auth][c]
        /\ nRead' = [nRead EXCEPT ![c] = @ + n]
        /\ buffer' = [buffer EXCEPT ![c] = @ \o [i \in 1..n |-> chan[c]]]
        /\ Resume(c)
        /\ UNCHANGED hungUp
  /\ UNCHANGED <<config, cstate, chan, timer, creds, accepted, credsChan,
                 ListFrame>>

(* The peer is gone: the event loop or a write in a handler finds out. *)
RemoteClosed(c) ==
  /\ Idle \/ InLoop(c)
  /\ Alive(c) /\ ~hungUp[c]
  /\ hungUp' = [hungUp EXCEPT ![c] = TRUE]
  /\ UNCHANGED <<CloseFrame, cstate, buffer, timer, stack>>

(* do_deferred_client_close *)
DeferredClose(c) ==
  /\ Idle
  /\ hungUp[c]
  /\ Close(c, stack)
  /\ UNCHANGED <<CloseFrame, buffer>>

OnHandshakeTimeout(c) ==
  /\ Idle
  /\ timer[c]
  /\ Close(c, stack)
  /\ UNCHANGED <<CloseFrame, buffer>>

-----------------------------------------------------------------------------
Init ==
  /\ config \in Configs
  /\ cstate = [c \in Clients |-> "none"]
  /\ chan = [c \in Clients |-> "plain"]
  /\ buffer = [c \in Clients |-> << >>]
  /\ nRead = [c \in Clients |-> 0]
  /\ hungUp = [c \in Clients |-> FALSE]
  /\ timer = [c \in Clients |-> FALSE]
  /\ creds = [c \in Clients |-> "none"]
  /\ stack = << >>
  /\ next = [c \in Clients |-> {}]
  /\ met = [c \in Clients |-> {}]
  /\ accepted = [c \in Clients |-> FALSE]
  /\ credsChan = [c \in Clients |-> "plain"]

Handler(c) ==
  \/ LoopEnds(c) \/ OnVersion(c) \/ OnVersion33(c) \/ OnSecurity(c)
  \/ OnVencryptVersion(c) \/ OnVencryptSubtype(c) \/ OnVencryptPlainAuth(c)
  \/ OnRsaPublicKey(c) \/ OnRsaChallenge(c) \/ OnRsaClientHash(c)
  \/ OnRsaCredentials(c) \/ DesAuthResponse(c) \/ AppleDhResponse(c)
  \/ OnInit(c)

Return == AuthFnReturns \/ NewClientReturns \/ InitGoesOn \/ ClosingEnds

Next ==
  \/ Return
  \/ \E c \in Clients :
       \/ Handler(c)
       \/ AcceptCreds(c) \/ RejectCreds(c) \/ CloseClient(c)
       \/ OnConnection(c) \/ OnClientEvent(c) \/ RemoteClosed(c)
       \/ DeferredClose(c) \/ OnHandshakeTimeout(c)

Spec == Init /\ [][Next]_vars

(* Handlers and callbacks return, compositing ends, and the event loop runs *)
(* its timers and tasks.  Neither the peer nor the application need ever do *)
(* anything.                                                                *)
Fairness ==
  /\ WF_vars(Return)
  /\ \A c \in Clients :
       /\ WF_vars(Handler(c))
       /\ WF_vars(DeferredClose(c))
       /\ WF_vars(OnHandshakeTimeout(c))

FairSpec == Spec /\ Fairness

-----------------------------------------------------------------------------
Frames == [op : {"loop", "auth_fn", "init", "new_client", "closing", "wild"},
           c : Clients]

TypeOK ==
  /\ config \in Settings
  /\ cstate \in [Clients -> States]
  /\ chan \in [Clients -> Channels]
  /\ buffer \in [Clients -> Seq(Channels)]
  /\ \A c \in Clients : Len(buffer[c]) <= BufferSize
  /\ nRead \in [Clients -> Nat]
  /\ hungUp \in [Clients -> BOOLEAN]
  /\ timer \in [Clients -> BOOLEAN]
  /\ creds \in [Clients -> {"none", "held", "used"}]
  /\ stack \in Seq(Frames)
  /\ next \in [Clients -> SUBSET Clients] /\ met \in [Clients -> SUBSET Clients]
  /\ accepted \in [Clients -> BOOLEAN]
  /\ credsChan \in [Clients -> Channels]

(* Where NVNC_AUTH_REQUIRE_AUTH is set, a client gets to ClientInit and to   *)
(* VNC_CLIENT_STATE_READY only after the application has accepted its own    *)
(* credentials, whatever version and security type it has chosen.            *)
Authenticated ==
  config.auth =>
    \A c \in Clients : cstate[c] \in {"init", "ready"} => accepted[c]

(* The assertion of nvnc_auth_creds_accept and _reject: credentials that the *)
(* application still holds belong to a client in                             *)
(* VNC_CLIENT_STATE_WAITING_FOR_AUTH, or to one that is gone, and no client  *)
(* waits for a verdict on credentials that nobody holds.                     *)
CredsMatchState ==
  \A c \in Clients : Alive(c) => (creds[c] = "held" <=> cstate[c] = "auth")

(* In an event loop, no message is left in the buffer of a client whose      *)
(* handshake could go on, unless its message loop is suspended further down: *)
(* what a client sent ahead of the verdict on its credentials is processed   *)
(* by nvnc_auth_creds_accept, since no event of the stream will announce it  *)
(* again.                                                                    *)
NothingUnread ==
  Idle => \A c \in Clients :
    buffer[c] # << >> =>
      \/ hungUp[c] \/ IsProcessing(c)
      \/ cstate[c] \in {"auth", "ready", "closing", "closed"}

(* A client that asked for exclusive access becomes ready only when every    *)
(* other client that was connected then, in whatever state of its handshake, *)
(* is gone, whoever comes, goes or asks for the same in the event loops that *)
(* disconnecting them runs.  (Who connects meanwhile stays.)                 *)
ExclusiveAccess ==
  [][\A c \in Clients :
       cstate[c] # "ready" /\ cstate'[c] = "ready" => met[c] \cap Listed = {}]_cstate

(* Credentials of the VeNCrypt plain method have come through TLS: nothing   *)
(* that the client sent before the upgrade of the stream is taken for them.  *)
CredsThroughTls ==
  \A c \in Clients :
    chan[c] = "tls" /\ creds[c] # "none" => credsChan[c] = "tls"

(* A handshake comes to an end, by the timer if nothing else ends it, even   *)
(* if the application never gives its verdict.  (Unless the thread is lost   *)
(* to a client that was freed while others were disconnected.)               *)
HandshakeEnds ==
  \A c \in Clients :
    cstate[c] \in Waiting ~> (cstate[c] \notin Waiting \/ In("wild"))

=============================================================================
