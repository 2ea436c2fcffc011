-------------------------- MODULE HandshakeProofs --------------------------
(***************************************************************************)
(* Proofs about Handshake, for any number of clients, all settings and     *)
(* every size of the message buffer.                                       *)
(***************************************************************************)
EXTENDS Handshake, TLAPS, WellFoundedInduction

(* The calls on the stack s. *)
Elems(s) == {s[i] : i \in 1..Len(s)}

(* The states before a client has handed over credentials. *)
Early == (Waiting \ {"auth", "init"}) \cup {"none"}

(* Credentials do not exist before the client has handed them over, and     *)
(* nothing is received from a client that has not connected.                *)
Beginnings ==
  \A c \in Clients :
    /\ cstate[c] \in Early => creds[c] = "none"
    /\ cstate[c] = "none" => buffer[c] = << >>

(* What waits in the buffer of a client on TLS came through TLS. *)
CleanBuffer ==
  \A c \in Clients :
    chan[c] = "tls" => \A i \in 1..Len(buffer[c]) : buffer[c][i] = "tls"

(* new_client_fn is the innermost call if it is called at all, and its     *)
(* client waits in on_init_message.                                         *)
InitCall ==
  stack # << >> =>
    /\ \A f \in Elems(Tail(stack)) : f.op # "new_client"
    /\ Head(stack).op = "new_client" => cstate[Head(stack).c] = "init"

(* A call f above a call g: a client's message loop is not entered again,   *)
(* and its on_init_message is above its loop and called once.               *)
Compatible(f, g) ==
  /\ f.op \in {"loop", "init", "new_client"} => g # Frame("init", f.c)
  /\ f.op = "loop" => g # f

Ordered(s) == \A j, k \in 1..Len(s) : j < k => Compatible(s[j], s[k])

(* on_init_message of c, suspended while it disconnects the other clients:  *)
(* the loop of c is below it, the message still in the buffer, and the      *)
(* client where it was unless it has been closed.                           *)
Suspended ==
  \A c \in Clients : Frame("init", c) \in Elems(stack) =>
    /\ Loop(c) \in Elems(stack)
    /\ buffer[c] # << >>
    /\ cstate[c] \in {"init", "closing", "closed"}

(* A client with messages it could go on with has its loop on the stack. *)
Attended ==
  \A c \in Clients :
    buffer[c] # << >> =>
      hungUp[c] \/ cstate[c] \in {"auth", "ready", "closing", "closed"}
                \/ Loop(c) \in Elems(stack)

IInv ==
  /\ TypeOK /\ Authenticated /\ CredsMatchState /\ CredsThroughTls
  /\ Beginnings /\ CleanBuffer /\ InitCall /\ Attended
  /\ Ordered(stack) /\ Suspended

-----------------------------------------------------------------------------
(* Pushing a call, and returning from one. *)
LEMMA Push ==
  ASSUME NEW S, NEW s \in Seq(S), NEW f \in S
  PROVE  LET t == <<f>> \o s IN
         /\ t \in Seq(S) /\ t # << >> /\ Head(t) = f /\ Tail(t) = s
         /\ Elems(t) = {f} \cup Elems(s)
<1> DEFINE t == <<f>> \o s
<1>1. t \in Seq(S) /\ Len(t) = Len(s) + 1 /\ Len(s) \in Nat
  OBVIOUS
<1>2. t[1] = f /\ \A i \in 1..Len(s) : t[i + 1] = s[i]
  OBVIOUS
<1>3. t # << >> /\ Head(t) = f
  BY <1>1, <1>2
<1>4. Tail(t) = s
  BY <1>1, <1>2
<1>5. Elems(t) = {f} \cup Elems(s)
  <2>1. ASSUME NEW x \in Elems(t) PROVE x \in {f} \cup Elems(s)
    <3>1. PICK i \in 1..Len(t) : x = t[i]
      BY DEF Elems
    <3>2. CASE i = 1
      BY <1>2, <3>1, <3>2
    <3>3. CASE i # 1
      <4>1. i - 1 \in 1..Len(s) /\ i = (i - 1) + 1
        BY <1>1, <3>1, <3>3
      <4>2. t[i] = s[i - 1]
        BY <1>2, <4>1
      <4> QED BY <3>1, <4>1, <4>2 DEF Elems
    <3> QED BY <3>2, <3>3
  <2>2. f \in Elems(t)
    BY <1>1, <1>2 DEF Elems
  <2>3. ASSUME NEW x \in Elems(s) PROVE x \in Elems(t)
    <3>1. PICK i \in 1..Len(s) : x = s[i]
      BY DEF Elems
    <3>2. i + 1 \in 1..Len(t) /\ t[i + 1] = x
      BY <1>1, <1>2, <3>1
    <3> QED BY <3>2 DEF Elems
  <2> QED BY <2>1, <2>2, <2>3
<1> QED BY <1>1, <1>3, <1>4, <1>5

LEMMA Pop ==
  ASSUME NEW S, NEW s \in Seq(S), s # << >>
  PROVE  /\ Tail(s) \in Seq(S) /\ Head(s) \in S
         /\ Elems(s) = {Head(s)} \cup Elems(Tail(s))
<1>1. /\ Tail(s) \in Seq(S) /\ Head(s) \in S
      /\ Len(s) \in Nat /\ Len(s) > 0 /\ Len(Tail(s)) = Len(s) - 1
  OBVIOUS
<1>2. Head(s) = s[1] /\ \A i \in 1..Len(s) - 1 : Tail(s)[i] = s[i + 1]
  OBVIOUS
<1>3. ASSUME NEW x \in Elems(s) PROVE x \in {Head(s)} \cup Elems(Tail(s))
  <2>1. PICK i \in 1..Len(s) : x = s[i]
    BY DEF Elems
  <2>2. CASE i = 1
    BY <1>2, <2>1, <2>2
  <2>3. CASE i # 1
    <3>1. i - 1 \in 1..Len(s) - 1 /\ i = (i - 1) + 1
      BY <1>1, <2>1, <2>3
    <3>2. Tail(s)[i - 1] = x
      BY <1>2, <2>1, <3>1
    <3> QED BY <1>1, <3>1, <3>2 DEF Elems
  <2> QED BY <2>2, <2>3
<1>4. Head(s) \in Elems(s)
  BY <1>1, <1>2 DEF Elems
<1>5. ASSUME NEW x \in Elems(Tail(s)) PROVE x \in Elems(s)
  <2>1. PICK i \in 1..Len(Tail(s)) : x = Tail(s)[i]
    BY DEF Elems
  <2>2. i + 1 \in 1..Len(s) /\ s[i + 1] = x
    BY <1>1, <1>2, <2>1
  <2> QED BY <2>2 DEF Elems
<1> QED BY <1>1, <1>3, <1>4, <1>5

LEMMA OrderedPush ==
  ASSUME NEW S, NEW s \in Seq(S), NEW f \in S, Ordered(s),
         \A g \in Elems(s) : Compatible(f, g)
  PROVE  Ordered(<<f>> \o s)
<1> DEFINE t == <<f>> \o s
<1>1. Len(t) = Len(s) + 1 /\ Len(s) \in Nat
  OBVIOUS
<1>2. t[1] = f /\ \A i \in 1..Len(s) : t[i + 1] = s[i]
  OBVIOUS
<1> HIDE DEF t
<1>3. ASSUME NEW j \in 1..Len(t), NEW k \in 1..Len(t), j < k
      PROVE  Compatible(t[j], t[k])
  <2>1. k - 1 \in 1..Len(s) /\ k = (k - 1) + 1
    BY <1>1, <1>3
  <2>2. t[k] = s[k - 1] /\ s[k - 1] \in Elems(s)
    BY <1>2, <2>1 DEF Elems
  <2>3. CASE j = 1
    BY <1>2, <2>2, <2>3
  <2>4. CASE j # 1
    <3>1. j - 1 \in 1..Len(s) /\ j = (j - 1) + 1 /\ j - 1 < k - 1
      BY <1>1, <1>3, <2>4
    <3>2. t[j] = s[j - 1]
      BY <1>2, <3>1
    <3>3. Compatible(s[j - 1], s[k - 1])
      BY <2>1, <3>1 DEF Ordered
    <3> QED BY <2>2, <3>2, <3>3
  <2> QED BY <2>3, <2>4
<1> QED BY <1>3 DEF Ordered, t

LEMMA OrderedPop ==
  ASSUME NEW S, NEW s \in Seq(S), s # << >>, Ordered(s)
  PROVE  /\ Ordered(Tail(s))
         /\ \A g \in Elems(Tail(s)) : Compatible(Head(s), g)
<1>1. Len(s) \in Nat /\ Len(s) > 0 /\ Len(Tail(s)) = Len(s) - 1
  OBVIOUS
<1>2. Head(s) = s[1] /\ \A i \in 1..Len(s) - 1 : Tail(s)[i] = s[i + 1]
  OBVIOUS
<1>3. ASSUME NEW j \in 1..Len(Tail(s)), NEW k \in 1..Len(Tail(s)), j < k
      PROVE  Compatible(Tail(s)[j], Tail(s)[k])
  <2>1. /\ j \in 1..Len(s) - 1 /\ k \in 1..Len(s) - 1
        /\ j + 1 \in 1..Len(s) /\ k + 1 \in 1..Len(s) /\ j + 1 < k + 1
    BY <1>1, <1>3
  <2>2. Tail(s)[j] = s[j + 1] /\ Tail(s)[k] = s[k + 1]
    BY <1>2, <2>1
  <2>3. Compatible(s[j + 1], s[k + 1])
    BY <2>1 DEF Ordered
  <2> QED BY <2>2, <2>3
<1>4. ASSUME NEW g \in Elems(Tail(s)) PROVE Compatible(Head(s), g)
  <2>1. PICK k \in 1..Len(Tail(s)) : g = Tail(s)[k]
    BY DEF Elems
  <2>2. k + 1 \in 1..Len(s) /\ 1 \in 1..Len(s) /\ 1 < k + 1 /\ g = s[k + 1]
    BY <1>1, <1>2, <2>1
  <2>3. Compatible(s[1], s[k + 1])
    BY <2>2 DEF Ordered
  <2> QED BY <1>2, <2>2, <2>3
<1> QED BY <1>3, <1>4 DEF Ordered

(* Consuming a message. *)
LEMMA TailBuffer ==
  ASSUME TypeOK, NEW c \in Clients, buffer[c] # << >>, Consume(c)
  PROVE  /\ buffer' \in [Clients -> Seq(Channels)]
         /\ \A d \in Clients : Len(buffer'[d]) <= BufferSize
         /\ \A d \in Clients \ {c} : buffer'[d] = buffer[d]
         /\ Head(buffer[c]) \in Channels /\ Head(buffer[c]) = buffer[c][1]
         /\ Len(buffer[c]) \in Nat /\ Len(buffer[c]) >= 1
         /\ Len(buffer'[c]) = Len(buffer[c]) - 1
         /\ \A i \in 1..Len(buffer'[c]) :
              i + 1 \in 1..Len(buffer[c]) /\ buffer'[c][i] = buffer[c][i + 1]
<1>1. buffer[c] \in Seq(Channels) /\ Len(buffer[c]) <= BufferSize
  BY DEF TypeOK
<1>2. /\ buffer'[c] = Tail(buffer[c])
      /\ \A d \in Clients \ {c} : buffer'[d] = buffer[d]
  BY DEF TypeOK, Consume
<1>3. /\ Tail(buffer[c]) \in Seq(Channels)
      /\ Len(Tail(buffer[c])) = Len(buffer[c]) - 1
      /\ Len(buffer[c]) \in Nat /\ Len(buffer[c]) >= 1
      /\ Head(buffer[c]) \in Channels /\ Head(buffer[c]) = buffer[c][1]
      /\ \A i \in 1..Len(buffer[c]) - 1 : Tail(buffer[c])[i] = buffer[c][i + 1]
  BY <1>1
<1>4. BufferSize \in Nat
  BY HandshakeConstants
<1>5. buffer' \in [Clients -> Seq(Channels)]
  BY <1>3 DEF TypeOK, Consume
<1>6. \A d \in Clients : Len(buffer'[d]) <= BufferSize
  <2>1. Len(buffer'[c]) <= BufferSize
    BY <1>1, <1>2, <1>3, <1>4
  <2> QED BY <1>2, <2>1 DEF TypeOK
<1>7. \A i \in 1..Len(buffer'[c]) :
        i + 1 \in 1..Len(buffer[c]) /\ buffer'[c][i] = buffer[c][i + 1]
  BY <1>2, <1>3
<1> QED BY <1>2, <1>3, <1>5, <1>6, <1>7

(* Different calls, and calls for different clients, are different. *)
LEMMA DistinctCalls ==
  ASSUME NEW c, NEW d, NEW op
  PROVE  /\ Loop(c) = Loop(d) => c = d
         /\ Loop(c) = Frame(op, d) => op = "loop"
         /\ Loop(c).op = "loop" /\ Loop(c).c = c
         /\ Frame(op, d).op = op /\ Frame(op, d).c = d
<1>1. Loop(c).c = c /\ Loop(d).c = d /\ Loop(c).op = "loop"
  BY DEF Loop, Frame
<1>2. Frame(op, d).op = op /\ Frame(op, d).c = d
  BY DEF Frame
<1> QED BY <1>1, <1>2

LEMMA CallTypes ==
  ASSUME NEW c \in Clients
  PROVE  /\ Loop(c) \in Frames
         /\ \A op \in {"loop", "auth_fn", "init", "new_client", "closing", "wild"} :
              Frame(op, c) \in Frames
  BY DEF Loop, Frame, Frames

(* Pushing a call that is neither a loop nor part of on_init_message. *)
LEMMA PushOther ==
  ASSUME NEW s \in Seq(Frames), Ordered(s), NEW c \in Clients,
         NEW op \in {"auth_fn", "closing", "wild"}
  PROVE  LET t == <<Frame(op, c)>> \o s IN
         /\ t \in Seq(Frames) /\ t # << >> /\ Ordered(t)
         /\ Head(t) = Frame(op, c) /\ Tail(t) = s
         /\ Elems(t) = {Frame(op, c)} \cup Elems(s)
         /\ \A d \in Clients :
              /\ Loop(d) \in Elems(t) <=> Loop(d) \in Elems(s)
              /\ Frame("init", d) \in Elems(t) <=> Frame("init", d) \in Elems(s)
<1> DEFINE f == Frame(op, c)
<1>1. f \in Frames /\ f.op = op
  BY CallTypes, DistinctCalls
<1>2. \A d \in Clients : f # Loop(d) /\ f # Frame("init", d)
  BY <1>1, DistinctCalls
<1> HIDE DEF f
<1>3. \A g \in Elems(s) : Compatible(f, g)
  BY <1>1 DEF Compatible
<1>4. Ordered(<<f>> \o s)
  BY <1>1, <1>3, OrderedPush
<1>5. LET t == <<f>> \o s IN
      /\ t \in Seq(Frames) /\ t # << >> /\ Head(t) = f /\ Tail(t) = s
      /\ Elems(t) = {f} \cup Elems(s)
  BY <1>1, Push
<1> QED BY <1>2, <1>4, <1>5 DEF f

(* The loop of c is the innermost call, and nobody waits in new_client_fn. *)
LEMMA InnermostLoop ==
  ASSUME IInv, NEW c \in Clients, InLoop(c)
  PROVE  /\ stack # << >> /\ stack \in Seq(Frames)
         /\ Head(stack) = Loop(c)
         /\ Tail(stack) \in Seq(Frames)
         /\ Elems(stack) = {Loop(c)} \cup Elems(Tail(stack))
         /\ \A f \in Elems(stack) : f.op # "new_client"
         /\ Ordered(Tail(stack))
         /\ Loop(c) \notin Elems(Tail(stack))
         /\ Frame("init", c) \notin Elems(stack)
<1>1. stack # << >> /\ stack \in Seq(Frames) /\ Head(stack) = Loop(c)
  BY DEF InLoop, IInv, TypeOK
<1>2. /\ Tail(stack) \in Seq(Frames)
      /\ Elems(stack) = {Loop(c)} \cup Elems(Tail(stack))
  BY <1>1, Pop
<1>3. Loop(c).op = "loop" /\ Loop(c).c = c /\ Loop(c) # Frame("init", c)
  BY DistinctCalls
<1>4. /\ Ordered(Tail(stack))
      /\ \A g \in Elems(Tail(stack)) : Compatible(Loop(c), g)
  BY <1>1, OrderedPop DEF IInv
<1>5. /\ Loop(c) \notin Elems(Tail(stack))
      /\ Frame("init", c) \notin Elems(Tail(stack))
  BY <1>3, <1>4 DEF Compatible
<1> QED BY <1>1, <1>2, <1>3, <1>4, <1>5 DEF IInv, InitCall

(* With no new_client_fn on it, a stack satisfies InitCall. *)
LEMMA NoInitCall ==
  ASSUME stack' \in Seq(Frames), \A f \in Elems(stack') : f.op # "new_client"
  PROVE  InitCall'
<1> SUFFICES ASSUME stack' # << >>
             PROVE  /\ \A f \in Elems(Tail(stack')) : f.op # "new_client"
                    /\ Head(stack').op # "new_client"
  BY DEF InitCall
<1>1. Elems(stack') = {Head(stack')} \cup Elems(Tail(stack'))
  BY Pop
<1> QED BY <1>1

-----------------------------------------------------------------------------
LEMMA InitInv == Init => IInv
<1> SUFFICES ASSUME Init PROVE IInv
  OBVIOUS
<1>1. \A c \in Clients :
        /\ cstate[c] = "none" /\ buffer[c] = << >> /\ creds[c] = "none"
        /\ chan[c] = "plain"
  BY DEF Init
<1>2. TypeOK
  <2>1. << >> \in Seq(Channels) /\ << >> \in Seq(Frames) /\ Len(<< >>) = 0
    OBVIOUS
  <2>2. config \in Settings /\ BufferSize \in Nat
    BY HandshakeConstants DEF Init
  <2> QED BY <2>1, <2>2 DEF Init, TypeOK, States, Channels
<1>3. Authenticated /\ CredsMatchState /\ CredsThroughTls
  BY <1>1 DEF Authenticated, CredsMatchState, CredsThroughTls, Alive
<1>4. Beginnings /\ CleanBuffer /\ InitCall /\ Attended
  BY <1>1 DEF Init, Beginnings, CleanBuffer, InitCall, Attended
<1>5. Ordered(stack) /\ Suspended
  <2>1. stack = << >> /\ Len(<< >>) = 0
    BY DEF Init
  <2> QED BY <2>1 DEF Ordered, Suspended, Elems
<1> QED BY <1>2, <1>3, <1>4, <1>5 DEF IInv

(* A handler answers and goes on: to ClientInit only where nobody must      *)
(* authenticate, and to TLS only with nothing else in the buffer.           *)
LEMMA AdvanceInv ==
  ASSUME IInv, NEW c \in Clients, NEW s \in Early \ {"none"},
         NEW t \in Waiting \ {"auth"},
         Reads(c, s), Advance(c, t), t = "init" => ~config.auth,
         UNCHANGED <<config, nRead, creds, accepted, credsChan, ListFrame>>,
         \/ UNCHANGED chan
         \/ chan' = [chan EXCEPT ![c] = "aes"]
         \/ chan' = [chan EXCEPT ![c] = "tls"] /\ IsClean(c)
  PROVE  IInv'
<1>1. /\ InLoop(c) /\ cstate[c] = s /\ buffer[c] # << >>
      /\ cstate' = [cstate EXCEPT ![c] = t]
      /\ Consume(c) /\ UNCHANGED <<hungUp, timer, stack>>
  BY DEF Reads, Advance
<1>2. TypeOK /\ creds[c] = "none" /\ s # "ready" /\ s # "closed" /\ s # "auth"
  BY <1>1 DEF IInv, Beginnings, Early, Waiting
<1>3. /\ buffer' \in [Clients -> Seq(Channels)]
      /\ \A d \in Clients : Len(buffer'[d]) <= BufferSize
      /\ \A d \in Clients \ {c} : buffer'[d] = buffer[d]
      /\ Len(buffer[c]) \in Nat /\ Len(buffer'[c]) = Len(buffer[c]) - 1
      /\ \A i \in 1..Len(buffer'[c]) :
           i + 1 \in 1..Len(buffer[c]) /\ buffer'[c][i] = buffer[c][i + 1]
  BY <1>1, <1>2, TailBuffer
<1>4. /\ cstate'[c] = t /\ \A d \in Clients \ {c} : cstate'[d] = cstate[d]
      /\ \A d \in Clients \ {c} : chan'[d] = chan[d]
  BY <1>1, <1>2 DEF TypeOK
<1>5. TypeOK'
  <2>1. cstate' \in [Clients -> States]
    BY <1>1, <1>2 DEF TypeOK, States
  <2>2. chan' \in [Clients -> Channels]
    BY <1>2 DEF TypeOK, Channels
  <2> QED BY <1>1, <1>2, <1>3, <2>1, <2>2 DEF TypeOK, ListFrame
<1>6. Authenticated'
  BY <1>4 DEF IInv, Authenticated, Waiting
<1>7. CredsMatchState' /\ Beginnings'
  <2>1. t # "none" /\ t # "auth" /\ creds' = creds
    BY DEF Waiting
  <2>2. CredsMatchState'
    BY <1>2, <1>4, <2>1 DEF IInv, CredsMatchState, Alive
  <2>3. Beginnings'
    BY <1>2, <1>3, <1>4, <2>1 DEF IInv, Beginnings
  <2> QED BY <2>2, <2>3
<1>8. CredsThroughTls'
  BY <1>2, <1>4 DEF IInv, CredsThroughTls
<1>9. CleanBuffer'
  <2>1. ASSUME chan'[c] = "tls", NEW i \in 1..Len(buffer'[c])
        PROVE  buffer'[c][i] = "tls"
    <3>1. CASE chan[c] = "tls"
      BY <1>3, <2>1, <3>1 DEF IInv, CleanBuffer
    <3>2. CASE chan[c] # "tls"
      <4>1. IsClean(c)
        BY <1>2, <2>1, <3>2 DEF TypeOK
      <4> QED BY <1>3, <2>1, <4>1 DEF IsClean
    <3> QED BY <3>1, <3>2
  <2> QED BY <1>3, <1>4, <2>1 DEF IInv, CleanBuffer
<1>10. InitCall'
  BY <1>1, <1>2, InnermostLoop, NoInitCall DEF TypeOK
<1>11. Attended'
  BY <1>1, <1>3, <1>4, InnermostLoop DEF IInv, Attended
<1>12. Ordered(stack)' /\ Suspended'
  <2>1. Frame("init", c) \notin Elems(stack)
    BY <1>1, InnermostLoop
  <2> QED BY <1>1, <1>3, <1>4, <2>1 DEF IInv, Suspended
<1> QED BY <1>5, <1>6, <1>7, <1>8, <1>9, <1>10, <1>11, <1>12 DEF IInv

(* A client is closed, with the calls in rest going on after that. *)
LEMMA CloseInv ==
  ASSUME IInv, NEW c \in Clients, NEW rest \in Seq(Frames), Close(c, rest),
         UNCHANGED <<config, chan, nRead, accepted, credsChan, met>>,
         next' \in [Clients -> SUBSET Clients],
         buffer' \in [Clients -> Seq(Channels)],
         \A d \in Clients : Len(buffer'[d]) <= BufferSize,
         CleanBuffer',
         \A d \in Clients :
           buffer'[d] = buffer[d] \/ (d = c /\ Frame("init", c) \notin Elems(rest)),
         creds' \in [Clients -> {"none", "held", "used"}],
         \A d \in Clients : creds[d] = "none" => creds'[d] = "none",
         \A d \in Clients \ {c} : creds'[d] = creds[d],
         Ordered(rest),
         \A f \in Elems(rest) : f.op # "new_client" /\ f \in Elems(stack),
         \A d \in Clients : Frame("init", d) \in Elems(rest) => Loop(d) \in Elems(rest),
         \A d \in Clients \ {c} : Loop(d) \in Elems(stack) => Loop(d) \in Elems(rest)
  PROVE  IInv'
<1> DEFINE f == Frame("closing", c)
<1>1. /\ cstate'[c] \in {"closing", "closed"}
      /\ cstate' \in [Clients -> States]
      /\ timer' \in [Clients -> BOOLEAN] /\ hungUp' \in [Clients -> BOOLEAN]
      /\ \A d \in Clients \ {c} : cstate'[d] = cstate[d] /\ hungUp'[d] = hungUp[d]
  <2>1. PICK t \in {"closing", "closed"} : cstate' = [cstate EXCEPT ![c] = t]
    BY DEF Close
  <2>2. /\ timer' = [timer EXCEPT ![c] = FALSE]
        /\ hungUp' = [hungUp EXCEPT ![c] = FALSE]
    BY DEF Close
  <2>3. /\ cstate \in [Clients -> States] /\ timer \in [Clients -> BOOLEAN]
        /\ hungUp \in [Clients -> BOOLEAN] /\ t \in States
    BY DEF IInv, TypeOK, States
  <2> QED BY <2>1, <2>2, <2>3
<1>2. /\ stack' \in Seq(Frames) /\ Ordered(stack')
      /\ \A d \in Clients :
           /\ Loop(d) \in Elems(stack') <=> Loop(d) \in Elems(rest)
           /\ Frame("init", d) \in Elems(stack') <=> Frame("init", d) \in Elems(rest)
      /\ \A g \in Elems(stack') : g.op # "new_client"
  <2>1. CASE stack' = rest
    BY <2>1
  <2>2. CASE stack' = <<f>> \o rest
    <3>1. f.op = "closing"
      BY DEF Frame
    <3> DEFINE t == <<f>> \o rest
    <3>2. /\ t \in Seq(Frames) /\ Ordered(t) /\ Elems(t) = {f} \cup Elems(rest)
          /\ \A d \in Clients :
               /\ Loop(d) \in Elems(t) <=> Loop(d) \in Elems(rest)
               /\ Frame("init", d) \in Elems(t) <=> Frame("init", d) \in Elems(rest)
      BY PushOther
    <3> HIDE DEF t, f
    <3>3. stack' = t
      BY <2>2 DEF t
    <3> QED BY <3>1, <3>2, <3>3
  <2> QED BY <2>1, <2>2 DEF Close
<1>3. TypeOK'
  BY <1>1, <1>2 DEF IInv, TypeOK
<1>4. Authenticated'
  BY <1>1 DEF IInv, Authenticated
<1>5. CredsMatchState' /\ Beginnings'
  <2>1. CredsMatchState'
    BY <1>1 DEF IInv, CredsMatchState, Alive
  <2>2. cstate'[c] \notin Early
    BY <1>1 DEF Early, Waiting
  <2>3. \A d \in Clients : cstate'[d] = "none" => d # c
    BY <1>1
  <2>4. Beginnings'
    BY <1>1, <2>2, <2>3 DEF IInv, Beginnings
  <2> QED BY <2>1, <2>4
<1>6. CredsThroughTls'
  BY DEF IInv, CredsThroughTls
<1>7. InitCall'
  BY <1>2, NoInitCall
<1>8. Attended'
  BY <1>1, <1>2 DEF IInv, Attended
<1>9. Suspended'
  <2> SUFFICES ASSUME NEW d \in Clients, Frame("init", d) \in Elems(stack')
               PROVE  /\ Loop(d) \in Elems(stack')
                      /\ buffer'[d] # << >>
                      /\ cstate'[d] \in {"init", "closing", "closed"}
    BY DEF Suspended
  <2>1. Frame("init", d) \in Elems(rest) /\ Loop(d) \in Elems(stack')
    BY <1>2
  <2>2. Frame("init", d) \in Elems(stack) /\ buffer'[d] = buffer[d]
    BY <2>1
  <2> QED BY <1>1, <2>1, <2>2 DEF IInv, Suspended
<1> QED BY <1>2, <1>3, <1>4, <1>5, <1>6, <1>7, <1>8, <1>9 DEF IInv

(* No handler is running, or the application in auth_fn. *)
LEMMA OutsideInit ==
  ASSUME IInv, MayCall
  PROVE  /\ stack \in Seq(Frames) /\ Ordered(stack)
         /\ \A f \in Elems(stack) : f.op # "new_client"
<1>1. stack \in Seq(Frames) /\ Ordered(stack)
  BY DEF IInv, TypeOK
<1>2. CASE stack = << >>
  BY <1>1, <1>2 DEF Elems
<1>3. CASE stack # << >>
  <2>1. Head(stack).op \in {"auth_fn", "closing"}
    BY <1>3 DEF MayCall, Idle, In
  <2>2. Elems(stack) = {Head(stack)} \cup Elems(Tail(stack))
    BY <1>1, <1>3, Pop
  <2> QED BY <1>1, <1>3, <2>1, <2>2 DEF IInv, InitCall
<1> QED BY <1>2, <1>3

LEMMA FailInv ==
  ASSUME IInv, NEW c \in Clients, InLoop(c), FailHandshake(c)
  PROVE  IInv'
<1>1. /\ Tail(stack) \in Seq(Frames) /\ Ordered(Tail(stack))
      /\ Elems(stack) = {Loop(c)} \cup Elems(Tail(stack))
      /\ \A f \in Elems(stack) : f.op # "new_client"
      /\ Frame("init", c) \notin Elems(stack)
  BY InnermostLoop
<1>2. /\ Close(c, Tail(stack))
      /\ UNCHANGED <<config, chan, nRead, creds, accepted, credsChan, buffer, next, met>>
  BY DEF FailHandshake, CloseFrame, ListFrame
<1>3. \A d \in Clients \ {c} : Loop(d) # Loop(c)
  BY DistinctCalls
<1>4. /\ creds' \in [Clients -> {"none", "held", "used"}]
      /\ next' \in [Clients -> SUBSET Clients]
      /\ buffer' \in [Clients -> Seq(Channels)]
      /\ \A d \in Clients : Len(buffer'[d]) <= BufferSize
  BY <1>2 DEF IInv, TypeOK
<1>5. CleanBuffer'
  BY <1>2 DEF IInv, CleanBuffer
<1>6. \A d \in Clients \ {c} : Loop(d) \in Elems(stack) => Loop(d) \in Elems(Tail(stack))
  BY <1>1, <1>3
<1>7. \A d \in Clients :
        Frame("init", d) \in Elems(Tail(stack)) => Loop(d) \in Elems(Tail(stack))
  BY <1>1, <1>6 DEF IInv, Suspended
<1> QED BY <1>1, <1>2, <1>4, <1>5, <1>6, <1>7, CloseInv

(* A client is closed by the event loop or by the application. *)
LEMMA CloseOutside ==
  ASSUME IInv, NEW c \in Clients, Close(c, stack), MayCall,
         UNCHANGED <<config, chan, nRead, accepted, credsChan, buffer, next, met>>,
         creds' = creds \/ (creds[c] # "none" /\ creds' = [creds EXCEPT ![c] = "used"])
  PROVE  IInv'
<1>1. /\ stack \in Seq(Frames) /\ Ordered(stack)
      /\ \A f \in Elems(stack) : f.op # "new_client"
  BY OutsideInit
<1>2. /\ creds' \in [Clients -> {"none", "held", "used"}]
      /\ \A d \in Clients : creds[d] = "none" => creds'[d] = "none"
      /\ \A d \in Clients \ {c} : creds'[d] = creds[d]
  BY DEF IInv, TypeOK
<1>3. /\ next' \in [Clients -> SUBSET Clients]
      /\ buffer' \in [Clients -> Seq(Channels)]
      /\ \A d \in Clients : Len(buffer'[d]) <= BufferSize
  BY DEF IInv, TypeOK
<1>4. CleanBuffer'
  BY DEF IInv, CleanBuffer
<1>5. \A d \in Clients : Frame("init", d) \in Elems(stack) => Loop(d) \in Elems(stack)
  BY DEF IInv, Suspended
<1> QED BY <1>1, <1>2, <1>3, <1>4, <1>5, CloseInv

LEMMA CloseOutsideInv ==
  ASSUME IInv, NEW c \in Clients,
         CloseClient(c) \/ DeferredClose(c) \/ OnHandshakeTimeout(c)
  PROVE  IInv'
<1>1. /\ Close(c, stack) /\ MayCall
      /\ UNCHANGED <<config, chan, nRead, creds, accepted, credsChan, buffer, next, met>>
  BY DEF CloseClient, DeferredClose, OnHandshakeTimeout, CloseFrame, MayCall, ListFrame
<1> QED BY <1>1, CloseOutside

(* A verdict on the credentials of a client that is gone changes nothing. *)
LEMMA LateVerdict ==
  ASSUME IInv, NEW c \in Clients, MayCall, ~Alive(c), creds[c] = "held",
         creds' = [creds EXCEPT ![c] = "used"],
         UNCHANGED <<config, cstate, chan, buffer, nRead, hungUp, timer, stack,
                     accepted, credsChan, next, met>>
  PROVE  IInv'
<1>1. /\ creds' \in [Clients -> {"none", "held", "used"}]
      /\ creds'[c] = "used" /\ \A d \in Clients \ {c} : creds'[d] = creds[d]
  BY DEF IInv, TypeOK
<1>2. cstate[c] \in {"closing", "closed"}
  BY DEF IInv, Beginnings, Early, Alive
<1>3. TypeOK'
  BY <1>1 DEF IInv, TypeOK
<1>4. Authenticated' /\ CredsMatchState' /\ Beginnings' /\ Attended'
  BY <1>1, <1>2
  DEF IInv, Authenticated, CredsMatchState, Beginnings, Attended, Alive,
      Early, Waiting
<1>5. CredsThroughTls' /\ CleanBuffer'
  BY <1>1 DEF IInv, CredsThroughTls, CleanBuffer
<1>6. InitCall' /\ Ordered(stack)' /\ Suspended'
  BY DEF IInv, InitCall, Suspended
<1> QED BY <1>3, <1>4, <1>5, <1>6 DEF IInv

LEMMA RejectInv ==
  ASSUME IInv, NEW c \in Clients, RejectCreds(c)
  PROVE  IInv'
<1>1. /\ MayCall /\ creds[c] = "held"
      /\ creds' = [creds EXCEPT ![c] = "used"]
      /\ UNCHANGED <<config, chan, nRead, accepted, credsChan, buffer, next, met>>
  BY DEF RejectCreds, ListFrame
<1>2. CASE Alive(c)
  BY <1>1, <1>2, CloseOutside DEF RejectCreds
<1>3. CASE ~Alive(c)
  BY <1>1, <1>3, LateVerdict DEF RejectCreds
<1> QED BY <1>2, <1>3

(* The credentials are handed over, in the message that c has sent last. *)
LEMMA AuthenticateInv ==
  ASSUME IInv, NEW c \in Clients, NEW s \in Early \ {"none"},
         Reads(c, s), Authenticate(c)
  PROVE  IInv'
<1> DEFINE f == Frame("auth_fn", c)
<1>1. /\ InLoop(c) /\ cstate[c] = s /\ buffer[c] # << >> /\ Consume(c)
      /\ cstate' = [cstate EXCEPT ![c] = "auth"]
      /\ creds' = [creds EXCEPT ![c] = "held"]
      /\ credsChan' = [credsChan EXCEPT ![c] = Head(buffer[c])]
      /\ stack' = <<f>> \o stack
      /\ UNCHANGED <<config, chan, nRead, hungUp, timer, accepted, next, met>>
  BY DEF Reads, Authenticate, ListFrame
<1>2. TypeOK
  BY DEF IInv
<1>3. /\ buffer' \in [Clients -> Seq(Channels)]
      /\ \A d \in Clients : Len(buffer'[d]) <= BufferSize
      /\ \A d \in Clients \ {c} : buffer'[d] = buffer[d]
      /\ Head(buffer[c]) \in Channels /\ Head(buffer[c]) = buffer[c][1]
      /\ Len(buffer[c]) \in Nat /\ Len(buffer[c]) >= 1
      /\ \A i \in 1..Len(buffer'[c]) :
           i + 1 \in 1..Len(buffer[c]) /\ buffer'[c][i] = buffer[c][i + 1]
  BY <1>1, <1>2, TailBuffer
<1>4. /\ cstate'[c] = "auth" /\ creds'[c] = "held"
      /\ credsChan'[c] = Head(buffer[c])
      /\ \A d \in Clients \ {c} :
           cstate'[d] = cstate[d] /\ creds'[d] = creds[d]
             /\ credsChan'[d] = credsChan[d]
  BY <1>1, <1>2 DEF TypeOK
<1>5. /\ stack' \in Seq(Frames) /\ Elems(stack') = {f} \cup Elems(stack)
      /\ f.op = "auth_fn" /\ Ordered(stack')
      /\ \A d \in Clients :
           /\ Loop(d) \in Elems(stack') <=> Loop(d) \in Elems(stack)
           /\ Frame("init", d) \in Elems(stack') <=> Frame("init", d) \in Elems(stack)
  <2> DEFINE t == <<f>> \o stack
  <2>1. f.op = "auth_fn"
    BY DistinctCalls
  <2>2. stack \in Seq(Frames) /\ Ordered(stack)
    BY <1>2 DEF TypeOK, IInv
  <2>3. /\ t \in Seq(Frames) /\ Elems(t) = {f} \cup Elems(stack) /\ Ordered(t)
        /\ \A d \in Clients :
             /\ Loop(d) \in Elems(t) <=> Loop(d) \in Elems(stack)
             /\ Frame("init", d) \in Elems(t) <=> Frame("init", d) \in Elems(stack)
    BY <2>2, PushOther
  <2> HIDE DEF t, f
  <2>4. stack' = t
    BY <1>1 DEF t
  <2> QED BY <2>1, <2>3, <2>4
<1>6. TypeOK'
  <2>1. /\ cstate' \in [Clients -> States] /\ credsChan' \in [Clients -> Channels]
        /\ creds' \in [Clients -> {"none", "held", "used"}]
    BY <1>1, <1>2, <1>3 DEF TypeOK, States, Waiting
  <2> QED BY <1>1, <1>2, <1>3, <1>5, <2>1 DEF TypeOK
<1>7. Authenticated'
  BY <1>1, <1>4 DEF IInv, Authenticated
<1>8. CredsMatchState' /\ Beginnings'
  BY <1>3, <1>4 DEF IInv, CredsMatchState, Beginnings, Alive, Early
<1>9. CredsThroughTls' /\ CleanBuffer'
  <2>1. chan[c] = "tls" => Head(buffer[c]) = "tls"
    BY <1>3 DEF IInv, CleanBuffer
  <2>2. CredsThroughTls'
    BY <1>1, <1>4, <2>1 DEF IInv, CredsThroughTls
  <2>3. ASSUME chan[c] = "tls", NEW i \in 1..Len(buffer'[c])
        PROVE  buffer'[c][i] = "tls"
    BY <1>3, <2>3 DEF IInv, CleanBuffer
  <2>4. CleanBuffer'
    <3>1. chan' = chan
      BY <1>1
    <3>2. ASSUME NEW d \in Clients \ {c}, chan'[d] = "tls"
          PROVE  \A i \in 1..Len(buffer'[d]) : buffer'[d][i] = "tls"
      <4>1. buffer'[d] = buffer[d]
        BY <1>3
      <4> QED BY <3>1, <3>2, <4>1 DEF IInv, CleanBuffer
    <3> QED BY <2>3, <3>1, <3>2 DEF CleanBuffer
  <2> QED BY <2>2, <2>4
<1>10. InitCall'
  BY <1>1, <1>5, InnermostLoop, NoInitCall
<1>11. Attended'
  BY <1>1, <1>3, <1>4, <1>5 DEF IInv, Attended
<1>12. Suspended'
  <2>1. Frame("init", c) \notin Elems(stack)
    BY <1>1, InnermostLoop
  <2> QED BY <1>3, <1>4, <1>5, <2>1 DEF IInv, Suspended
<1> QED BY <1>5, <1>6, <1>7, <1>8, <1>9, <1>10, <1>11, <1>12 DEF IInv

(* process_client_messages is called, and returns at once inside of itself. *)
LEMMA ResumeStack ==
  ASSUME IInv, NEW c \in Clients, MayCall, Resume(c)
  PROVE  /\ stack' \in Seq(Frames) /\ Ordered(stack')
         /\ Elems(stack') = {Loop(c)} \cup Elems(stack)
         /\ \A f \in Elems(stack') : f.op # "new_client"
         /\ \A d \in Clients :
              Frame("init", d) \in Elems(stack') <=> Frame("init", d) \in Elems(stack)
<1>1. /\ stack \in Seq(Frames) /\ Ordered(stack)
      /\ \A f \in Elems(stack) : f.op # "new_client"
  BY OutsideInit
<1>2. Loop(c) \in Frames /\ Loop(c).op = "loop" /\ Loop(c).c = c
  BY CallTypes, DistinctCalls
<1>3. \A d \in Clients : Frame("init", d) # Loop(c)
  BY DistinctCalls
<1>4. CASE IsProcessing(c)
  <2>1. Loop(c) \in Elems(stack)
    BY <1>1, <1>4 DEF IsProcessing, Elems
  <2> QED BY <1>1, <1>4, <2>1 DEF Resume
<1>5. CASE ~IsProcessing(c)
  <2>1. Loop(c) \notin Elems(stack)
    BY <1>1, <1>5 DEF IsProcessing, Elems
  <2>2. Frame("init", c) \notin Elems(stack)
    BY <2>1 DEF IInv, Suspended
  <2>3. \A g \in Elems(stack) : Compatible(Loop(c), g)
    BY <1>2, <2>1, <2>2 DEF Compatible
  <2>4. Ordered(<<Loop(c)>> \o stack)
    BY <1>1, <1>2, <2>3, OrderedPush
  <2>5. /\ <<Loop(c)>> \o stack \in Seq(Frames)
        /\ Elems(<<Loop(c)>> \o stack) = {Loop(c)} \cup Elems(stack)
    BY <1>1, <1>2, Push
  <2>6. stack' = <<Loop(c)>> \o stack
    BY <1>5 DEF Resume
  <2> QED BY <1>1, <1>2, <1>3, <2>4, <2>5, <2>6
<1> QED BY <1>4, <1>5

LEMMA AcceptInv ==
  ASSUME IInv, NEW c \in Clients, AcceptCreds(c)
  PROVE  IInv'
<1>1. /\ MayCall /\ creds[c] = "held" /\ creds' = [creds EXCEPT ![c] = "used"]
      /\ UNCHANGED <<config, chan, buffer, nRead, hungUp, timer, credsChan, next, met>>
  BY DEF AcceptCreds, ListFrame
<1>2. /\ TypeOK /\ creds' \in [Clients -> {"none", "held", "used"}]
      /\ creds'[c] = "used" /\ \A d \in Clients \ {c} : creds'[d] = creds[d]
  BY <1>1 DEF IInv, TypeOK
<1>3. CredsThroughTls' /\ CleanBuffer'
  BY <1>1, <1>2 DEF IInv, CredsThroughTls, CleanBuffer
<1>4. CASE ~Alive(c)
  BY <1>1, <1>4, LateVerdict DEF AcceptCreds
<1>5. CASE Alive(c)
  <2>1. /\ cstate' = [cstate EXCEPT ![c] = "init"]
        /\ accepted' = [accepted EXCEPT ![c] = TRUE] /\ Resume(c)
    BY <1>5 DEF AcceptCreds
  <2>2. /\ cstate'[c] = "init" /\ accepted'[c] = TRUE
        /\ \A d \in Clients \ {c} :
             cstate'[d] = cstate[d] /\ accepted'[d] = accepted[d]
    BY <1>2, <2>1 DEF TypeOK
  <2>3. /\ stack' \in Seq(Frames) /\ Ordered(stack')
        /\ Elems(stack') = {Loop(c)} \cup Elems(stack)
        /\ \A f \in Elems(stack') : f.op # "new_client"
        /\ \A d \in Clients :
             Frame("init", d) \in Elems(stack') <=> Frame("init", d) \in Elems(stack)
    BY <1>1, <2>1, ResumeStack
  <2>4. TypeOK'
    <3>1. cstate' \in [Clients -> States] /\ accepted' \in [Clients -> BOOLEAN]
      BY <1>2, <2>1 DEF TypeOK, States, Waiting
    <3> QED BY <1>1, <1>2, <2>3, <3>1 DEF TypeOK
  <2>5. Authenticated' /\ CredsMatchState' /\ Beginnings'
    BY <1>1, <1>2, <2>2
    DEF IInv, Authenticated, CredsMatchState, Beginnings, Alive, Early
  <2>6. InitCall'
    BY <2>3, NoInitCall
  <2>7. Attended'
    BY <1>1, <2>2, <2>3 DEF IInv, Attended
  <2>8. Suspended'
    BY <1>1, <2>2, <2>3 DEF IInv, Suspended
  <2> QED BY <1>3, <2>3, <2>4, <2>5, <2>6, <2>7, <2>8 DEF IInv
<1> QED BY <1>4, <1>5

LEMMA LoopEndsInv ==
  ASSUME IInv, NEW c \in Clients, LoopEnds(c)
  PROVE  IInv'
<1>1. /\ InLoop(c) /\ stack' = Tail(stack)
      /\ UNCHANGED <<config, chan, nRead, creds, accepted, credsChan, cstate,
                     buffer, hungUp, timer, next, met>>
      /\ \/ cstate[c] \in {"none", "closing", "closed", "auth", "ready"}
         \/ hungUp[c] \/ buffer[c] = << >>
  BY DEF LoopEnds, CloseFrame, ListFrame, Alive
<1>2. /\ Tail(stack) \in Seq(Frames) /\ Ordered(Tail(stack))
      /\ Elems(stack) = {Loop(c)} \cup Elems(Tail(stack))
      /\ \A f \in Elems(stack) : f.op # "new_client"
      /\ Frame("init", c) \notin Elems(stack)
  BY <1>1, InnermostLoop
<1>3. TypeOK' /\ Authenticated' /\ CredsMatchState' /\ CredsThroughTls'
  BY <1>1, <1>2
  DEF IInv, TypeOK, Authenticated, CredsMatchState, CredsThroughTls, Alive
<1>4. Beginnings' /\ CleanBuffer'
  BY <1>1 DEF IInv, Beginnings, CleanBuffer
<1>5. InitCall'
  BY <1>1, <1>2, NoInitCall
<1>6. \A d \in Clients \ {c} : Loop(d) \in Elems(stack) => Loop(d) \in Elems(Tail(stack))
  BY <1>2, DistinctCalls
<1>7. Attended'
  BY <1>1, <1>6 DEF IInv, Attended, Beginnings
<1>8. Suspended'
  BY <1>1, <1>2, <1>6 DEF IInv, Suspended
<1> QED BY <1>1, <1>2, <1>3, <1>4, <1>5, <1>7, <1>8 DEF IInv

(* A call other than a loop returns.  Its client may change state. *)
LEMMA PopStack ==
  ASSUME IInv, stack # << >>, Head(stack).op # "loop"
  PROVE  /\ Tail(stack) \in Seq(Frames) /\ Head(stack) \in Frames
         /\ Head(stack).c \in Clients
         /\ Ordered(Tail(stack))
         /\ Elems(stack) = {Head(stack)} \cup Elems(Tail(stack))
         /\ \A f \in Elems(Tail(stack)) : f.op # "new_client"
         /\ \A d \in Clients : Loop(d) \in Elems(stack) <=> Loop(d) \in Elems(Tail(stack))
         /\ Head(stack).op \in {"init", "new_client"} =>
              Frame("init", Head(stack).c) \notin Elems(Tail(stack))
<1>1. stack \in Seq(Frames) /\ Ordered(stack)
  BY DEF IInv, TypeOK
<1>2. /\ Tail(stack) \in Seq(Frames) /\ Head(stack) \in Frames
      /\ Elems(stack) = {Head(stack)} \cup Elems(Tail(stack))
  BY <1>1, Pop
<1>3. /\ Ordered(Tail(stack))
      /\ \A g \in Elems(Tail(stack)) : Compatible(Head(stack), g)
  BY <1>1, OrderedPop
<1>4. Head(stack).c \in Clients
  BY <1>2 DEF Frames
<1>5. \A d \in Clients : Loop(d) # Head(stack)
  BY DistinctCalls
<1>6. Head(stack).op \in {"init", "new_client"} =>
        Frame("init", Head(stack).c) \notin Elems(Tail(stack))
  BY <1>3 DEF Compatible
<1> QED BY <1>2, <1>3, <1>4, <1>5, <1>6 DEF IInv, InitCall

LEMMA AuthFnReturnsInv == ASSUME IInv, AuthFnReturns PROVE IInv'
<1>1. /\ stack # << >> /\ Head(stack).op = "auth_fn" /\ stack' = Tail(stack)
      /\ UNCHANGED <<config, chan, nRead, creds, accepted, credsChan, cstate,
                     buffer, hungUp, timer, next, met>>
  BY DEF AuthFnReturns, CloseFrame, ListFrame, In
<1>2. /\ Tail(stack) \in Seq(Frames) /\ Ordered(Tail(stack))
      /\ Elems(stack) = {Head(stack)} \cup Elems(Tail(stack))
      /\ \A f \in Elems(Tail(stack)) : f.op # "new_client"
      /\ \A d \in Clients : Loop(d) \in Elems(stack) <=> Loop(d) \in Elems(Tail(stack))
  BY <1>1, PopStack
<1>3. TypeOK' /\ Authenticated' /\ CredsMatchState' /\ CredsThroughTls'
  BY <1>1, <1>2
  DEF IInv, TypeOK, Authenticated, CredsMatchState, CredsThroughTls, Alive
<1>4. Beginnings' /\ CleanBuffer'
  BY <1>1 DEF IInv, Beginnings, CleanBuffer
<1>5. InitCall'
  BY <1>1, <1>2, NoInitCall
<1>6. Attended' /\ Suspended'
  BY <1>1, <1>2 DEF IInv, Attended, Suspended
<1> QED BY <1>1, <1>2, <1>3, <1>4, <1>5, <1>6 DEF IInv

(* client_close frees its client at last. *)
LEMMA ClosingEndsInv == ASSUME IInv, ClosingEnds PROVE IInv'
<1> DEFINE c == Head(stack).c
<1>1. /\ stack # << >> /\ Head(stack).op = "closing" /\ stack' = Tail(stack)
      /\ cstate' = [cstate EXCEPT ![c] = "closed"]
      /\ UNCHANGED <<config, chan, nRead, creds, accepted, credsChan,
                     buffer, hungUp, timer, next, met>>
  BY DEF ClosingEnds, CloseFrame, ListFrame, In
<1>2. /\ Tail(stack) \in Seq(Frames) /\ Ordered(Tail(stack)) /\ c \in Clients
      /\ Elems(stack) = {Head(stack)} \cup Elems(Tail(stack))
      /\ \A f \in Elems(Tail(stack)) : f.op # "new_client"
      /\ \A d \in Clients : Loop(d) \in Elems(stack) <=> Loop(d) \in Elems(Tail(stack))
  BY <1>1, PopStack
<1> HIDE DEF c
<1>3. /\ cstate' \in [Clients -> States] /\ cstate'[c] = "closed"
      /\ \A d \in Clients \ {c} : cstate'[d] = cstate[d]
  BY <1>1, <1>2 DEF IInv, TypeOK, States
<1>4. TypeOK'
  BY <1>1, <1>2, <1>3 DEF IInv, TypeOK
<1>5. Authenticated' /\ CredsMatchState' /\ CredsThroughTls'
  BY <1>1, <1>3 DEF IInv, Authenticated, CredsMatchState, CredsThroughTls, Alive
<1>6. Beginnings' /\ CleanBuffer'
  BY <1>1, <1>3 DEF IInv, Beginnings, CleanBuffer, Early, Waiting
<1>7. InitCall'
  BY <1>1, <1>2, NoInitCall
<1>8. Attended' /\ Suspended'
  BY <1>1, <1>2, <1>3 DEF IInv, Attended, Suspended
<1> QED BY <1>1, <1>2, <1>4, <1>5, <1>6, <1>7, <1>8 DEF IInv

LEMMA NewClientReturnsInv == ASSUME IInv, NewClientReturns PROVE IInv'
<1> DEFINE c == Head(stack).c
<1>1. /\ stack # << >> /\ Head(stack).op = "new_client" /\ stack' = Tail(stack)
      /\ timer' = [timer EXCEPT ![c] = FALSE]
      /\ cstate' = [cstate EXCEPT ![c] = "ready"]
      /\ UNCHANGED <<config, chan, nRead, creds, accepted, credsChan, buffer,
                     hungUp, next, met>>
  BY DEF NewClientReturns, CloseFrame, ListFrame, In
<1>2. TypeOK
  BY DEF IInv
<1>3. /\ Tail(stack) \in Seq(Frames) /\ Ordered(Tail(stack)) /\ c \in Clients
      /\ Elems(stack) = {Head(stack)} \cup Elems(Tail(stack))
      /\ \A f \in Elems(Tail(stack)) : f.op # "new_client"
      /\ \A d \in Clients : Loop(d) \in Elems(stack) <=> Loop(d) \in Elems(Tail(stack))
      /\ Frame("init", c) \notin Elems(Tail(stack))
  BY <1>1, PopStack
<1>4. cstate[c] = "init"
  BY <1>1 DEF IInv, InitCall
<1> HIDE DEF c
<1>5. cstate'[c] = "ready" /\ \A d \in Clients \ {c} : cstate'[d] = cstate[d]
  BY <1>1, <1>2, <1>3 DEF TypeOK
<1>6. TypeOK'
  <2>1. cstate' \in [Clients -> States] /\ timer' \in [Clients -> BOOLEAN]
    BY <1>1, <1>2 DEF TypeOK, States
  <2> QED BY <1>1, <1>2, <1>3, <2>1 DEF TypeOK
<1>7. Authenticated' /\ CredsMatchState' /\ CredsThroughTls'
  BY <1>1, <1>3, <1>4, <1>5
  DEF IInv, Authenticated, CredsMatchState, CredsThroughTls, Alive
<1>8. Beginnings' /\ CleanBuffer'
  BY <1>1, <1>5 DEF IInv, Beginnings, CleanBuffer, Early, Waiting
<1>9. InitCall'
  BY <1>1, <1>3, NoInitCall
<1>10. Attended' /\ Suspended'
  BY <1>1, <1>3, <1>5 DEF IInv, Attended, Suspended
<1> QED BY <1>1, <1>3, <1>6, <1>7, <1>8, <1>9, <1>10 DEF IInv

(* A call is pushed that concerns nobody's loop or on_init_message. *)
LEMMA GoWildInv ==
  ASSUME IInv, NEW c \in Clients, GoWild(c), stack # << >>, Head(stack).op # "new_client"
  PROVE  IInv'
<1> DEFINE t == <<Frame("wild", c)>> \o stack
<1>1. /\ stack' = t
      /\ UNCHANGED <<config, cstate, chan, buffer, nRead, hungUp, timer, creds,
                     accepted, credsChan, next, met>>
  BY DEF GoWild, ListFrame
<1>2. stack \in Seq(Frames) /\ Ordered(stack)
  BY DEF IInv, TypeOK
<1>3. /\ t \in Seq(Frames) /\ Ordered(t)
      /\ Elems(t) = {Frame("wild", c)} \cup Elems(stack)
      /\ \A d \in Clients :
           /\ Loop(d) \in Elems(t) <=> Loop(d) \in Elems(stack)
           /\ Frame("init", d) \in Elems(t) <=> Frame("init", d) \in Elems(stack)
  BY <1>2, PushOther
<1> HIDE DEF t
<1>4. \A f \in Elems(t) : f.op # "new_client"
  <2>1. Elems(stack) = {Head(stack)} \cup Elems(Tail(stack))
    BY <1>2, Pop
  <2>2. Frame("wild", c).op = "wild"
    BY DistinctCalls
  <2> QED BY <1>3, <2>1, <2>2 DEF IInv, InitCall
<1>5. TypeOK' /\ Authenticated' /\ CredsMatchState' /\ CredsThroughTls'
  BY <1>1, <1>3
  DEF IInv, TypeOK, Authenticated, CredsMatchState, CredsThroughTls, Alive
<1>6. Beginnings' /\ CleanBuffer'
  BY <1>1 DEF IInv, Beginnings, CleanBuffer
<1>7. InitCall'
  BY <1>1, <1>3, <1>4, NoInitCall
<1>8. Attended' /\ Suspended'
  BY <1>1, <1>3 DEF IInv, Attended, Suspended
<1> QED BY <1>1, <1>3, <1>5, <1>6, <1>7, <1>8 DEF IInv

LEMMA OnInitInv ==
  ASSUME IInv, NEW c \in Clients, OnInit(c)
  PROVE  IInv'
<1> DEFINE f == Frame("init", c)
           t == <<f>> \o stack
<1>1. /\ InLoop(c) /\ cstate[c] = "init" /\ buffer[c] # << >> /\ stack' = t
      /\ UNCHANGED <<config, cstate, chan, buffer, nRead, hungUp, timer, creds,
                     accepted, credsChan>>
  BY DEF OnInit, Reads
<1>2. /\ stack \in Seq(Frames) /\ stack # << >> /\ Loop(c) \in Elems(stack)
      /\ \A g \in Elems(stack) : g.op # "new_client"
      /\ f \notin Elems(stack)
  BY <1>1, InnermostLoop
<1>3. /\ next' \in [Clients -> SUBSET Clients] /\ met' \in [Clients -> SUBSET Clients]
  <2>1. PICK shared \in BOOLEAN :
          /\ next' = [next EXCEPT ![c] = IF shared THEN {} ELSE Latest(Listed)]
          /\ met' = [met EXCEPT ![c] = IF shared THEN {} ELSE Listed \ {c}]
    BY DEF OnInit
  <2>2. Listed \subseteq Clients /\ Latest(Listed) \subseteq Clients
    BY DEF Listed, Latest
  <2> HIDE DEF t
  <2>3. next \in [Clients -> SUBSET Clients] /\ met \in [Clients -> SUBSET Clients]
    BY DEF IInv, TypeOK
  <2> QED BY <2>1, <2>2, <2>3
<1>4. f \in Frames /\ f.op = "init" /\ f.c = c
  BY CallTypes, DistinctCalls
<1>5. \A d \in Clients : Loop(d) # f /\ (Frame("init", d) = f => d = c)
  BY <1>4, DistinctCalls
<1>6. \A g \in Elems(stack) : Compatible(f, g)
  <2> HIDE DEF f
  <2> QED BY <1>2, <1>4 DEF Compatible, f
<1> HIDE DEF f
<1>7. t \in Seq(Frames) /\ Elems(t) = {f} \cup Elems(stack)
  BY <1>2, <1>4, Push
<1>8. Ordered(t)
  BY <1>2, <1>4, <1>6, OrderedPush DEF IInv
<1> HIDE DEF t
<1>9. TypeOK' /\ Authenticated' /\ CredsMatchState' /\ CredsThroughTls'
  BY <1>1, <1>3, <1>7
  DEF IInv, TypeOK, Authenticated, CredsMatchState, CredsThroughTls, Alive
<1>10. Beginnings' /\ CleanBuffer'
  BY <1>1 DEF IInv, Beginnings, CleanBuffer
<1>11. InitCall'
  BY <1>1, <1>2, <1>4, <1>7, NoInitCall
<1>12. Attended'
  BY <1>1, <1>7 DEF IInv, Attended
<1>13. Suspended'
  BY <1>1, <1>2, <1>5, <1>7 DEF IInv, Suspended
<1> QED BY <1>1, <1>8, <1>9, <1>10, <1>11, <1>12, <1>13 DEF IInv

(* disconnect_all_other_clients closes the next client. *)
LEMMA DisconnectInv ==
  ASSUME IInv, NEW c \in Clients, NEW n \in Clients, In("init"), Head(stack).c = c,
         DisconnectNext(c, n)
  PROVE  IInv'
<1>1. stack # << >> /\ Head(stack).op = "init"
  BY DEF In
<1>2. CASE GoWild(c)
  BY <1>1, <1>2, GoWildInv
<1>3. CASE ~GoWild(c)
  <2>1. /\ next' = [next EXCEPT ![c] = ListNext(n)]
        /\ \/ Close(n, stack) \/ UNCHANGED <<cstate, stack, hungUp, timer>>
        /\ UNCHANGED <<config, chan, buffer, nRead, creds, met, accepted, credsChan>>
    BY <1>3 DEF DisconnectNext
  <2>2. next' \in [Clients -> SUBSET Clients]
    <3>1. ListNext(n) \subseteq Clients
      BY DEF ListNext, Latest, Listed
    <3>2. next \in [Clients -> SUBSET Clients]
      BY DEF IInv, TypeOK
    <3> QED BY <2>1, <3>1, <3>2
  <2>3. /\ stack \in Seq(Frames) /\ Ordered(stack)
        /\ \A f \in Elems(stack) : f.op # "new_client"
    <3>1. stack \in Seq(Frames) /\ Ordered(stack)
      BY DEF IInv, TypeOK
    <3>2. /\ Elems(stack) = {Head(stack)} \cup Elems(Tail(stack))
          /\ \A f \in Elems(Tail(stack)) : f.op # "new_client"
      BY <1>1, PopStack
    <3> QED BY <1>1, <3>1, <3>2
  <2>4. CASE Close(n, stack)
    <3>1. /\ creds' \in [Clients -> {"none", "held", "used"}]
          /\ buffer' \in [Clients -> Seq(Channels)]
          /\ \A d \in Clients : Len(buffer'[d]) <= BufferSize
      BY <2>1 DEF IInv, TypeOK
    <3>2. CleanBuffer'
      BY <2>1 DEF IInv, CleanBuffer
    <3>3. \A d \in Clients : Frame("init", d) \in Elems(stack) => Loop(d) \in Elems(stack)
      BY DEF IInv, Suspended
    <3> QED BY <2>1, <2>2, <2>3, <2>4, <3>1, <3>2, <3>3, CloseInv
  <2>5. CASE UNCHANGED <<cstate, stack, hungUp, timer>>
    <3>1. TypeOK' /\ Authenticated' /\ CredsMatchState' /\ CredsThroughTls'
      BY <2>1, <2>2, <2>5
      DEF IInv, TypeOK, Authenticated, CredsMatchState, CredsThroughTls, Alive
    <3>2. Beginnings' /\ CleanBuffer' /\ InitCall' /\ Attended' /\ Suspended'
      BY <2>1, <2>5 DEF IInv, Beginnings, CleanBuffer, InitCall, Attended, Suspended
    <3>3. Ordered(stack)'
      BY <2>3, <2>5
    <3> QED BY <3>1, <3>2, <3>3 DEF IInv
  <2> QED BY <2>1, <2>4, <2>5
<1> QED BY <1>2, <1>3

(* The other clients are gone: on_init_message answers, or closes c. *)
LEMMA ServerInitInv ==
  ASSUME IInv, NEW c \in Clients, In("init"), Head(stack).c = c, ServerInit(c)
  PROVE  IInv'
<1>1. stack # << >> /\ Head(stack).op = "init"
  BY DEF In
<1>2. CASE GoWild(c)
  BY <1>1, <1>2, GoWildInv
<1>3. CASE ~GoWild(c)
  <2>1. /\ Alive(c) /\ Consume(c)
        /\ \/ Close(c, Tail(stack))
           \/ /\ stack' = <<Frame("new_client", c)>> \o Tail(stack)
              /\ UNCHANGED <<cstate, hungUp, timer>>
        /\ UNCHANGED <<config, chan, nRead, creds, accepted, credsChan, next, met>>
    BY <1>3 DEF ServerInit, CloseFrame, ListFrame
  <2>2. Head(stack) = Frame("init", c)
    <3>1. Head(stack) \in Frames
      BY <1>1, PopStack
    <3> QED BY <1>1, <3>1 DEF Frames, Frame
  <2>3. /\ Tail(stack) \in Seq(Frames) /\ Ordered(Tail(stack))
        /\ Elems(stack) = {Head(stack)} \cup Elems(Tail(stack))
        /\ \A f \in Elems(Tail(stack)) : f.op # "new_client"
        /\ \A d \in Clients : Loop(d) \in Elems(stack) <=> Loop(d) \in Elems(Tail(stack))
        /\ Frame("init", c) \notin Elems(Tail(stack))
    BY <1>1, PopStack
  <2>4. cstate[c] = "init" /\ buffer[c] # << >> /\ Loop(c) \in Elems(stack)
    BY <2>1, <2>2, <2>3 DEF IInv, Suspended, Alive
  <2>5. TypeOK
    BY DEF IInv
  <2>6. /\ buffer' \in [Clients -> Seq(Channels)]
        /\ \A d \in Clients : Len(buffer'[d]) <= BufferSize
        /\ \A d \in Clients \ {c} : buffer'[d] = buffer[d]
        /\ \A i \in 1..Len(buffer'[c]) :
             i + 1 \in 1..Len(buffer[c]) /\ buffer'[c][i] = buffer[c][i + 1]
    BY <2>1, <2>4, <2>5, TailBuffer
  <2>7. CleanBuffer'
    <3>1. ASSUME NEW d \in Clients, chan[d] = "tls", NEW i \in 1..Len(buffer'[d])
          PROVE  buffer'[d][i] = "tls"
      <4>1. CASE d = c
        BY <2>6, <3>1, <4>1 DEF IInv, CleanBuffer
      <4>2. CASE d # c
        <5>1. buffer'[d] = buffer[d]
          BY <2>6, <4>2
        <5> QED BY <3>1, <5>1 DEF IInv, CleanBuffer
      <4> QED BY <4>1, <4>2
    <3>2. chan' = chan
      BY <2>1
    <3> QED BY <3>1, <3>2 DEF CleanBuffer
  <2>8. \A d \in Clients :
          Frame("init", d) \in Elems(Tail(stack)) => Loop(d) \in Elems(Tail(stack))
    BY <2>3 DEF IInv, Suspended
  <2>9. CASE Close(c, Tail(stack))
    <3>1. /\ creds' \in [Clients -> {"none", "held", "used"}]
          /\ next' \in [Clients -> SUBSET Clients]
      BY <2>1, <2>5 DEF TypeOK
    <3> QED BY <2>1, <2>3, <2>6, <2>7, <2>8, <2>9, <3>1, CloseInv
  <2>10. CASE stack' = <<Frame("new_client", c)>> \o Tail(stack)
                /\ UNCHANGED <<cstate, hungUp, timer>>
    <3> DEFINE f == Frame("new_client", c)
               t == <<f>> \o Tail(stack)
    <3>1. f \in Frames /\ f.op = "new_client" /\ f.c = c
      BY CallTypes, DistinctCalls
    <3>2. \A d \in Clients : Loop(d) # f /\ Frame("init", d) # f
      BY DistinctCalls
    <3> HIDE DEF f
    <3>3. \A g \in Elems(Tail(stack)) : Compatible(f, g)
      BY <2>3, <3>1 DEF Compatible
    <3>4. /\ t \in Seq(Frames) /\ t # << >> /\ Head(t) = f /\ Tail(t) = Tail(stack)
          /\ Elems(t) = {f} \cup Elems(Tail(stack))
      BY <2>3, <3>1, Push
    <3>5. Ordered(t)
      BY <2>3, <3>1, <3>3, OrderedPush
    <3>6. stack' = t
      BY <2>10 DEF f
    <3> HIDE DEF t
    <3>7. TypeOK'
      BY <2>1, <2>5, <2>6, <2>10, <3>4, <3>6 DEF TypeOK
    <3>8. Authenticated' /\ CredsMatchState' /\ CredsThroughTls'
      BY <2>1, <2>10
      DEF IInv, Authenticated, CredsMatchState, CredsThroughTls, Alive
    <3>9. Beginnings'
      BY <2>1, <2>4, <2>6, <2>10 DEF IInv, Beginnings, Early
    <3>10. InitCall'
      BY <2>3, <2>4, <2>10, <3>1, <3>4, <3>6 DEF InitCall
    <3>11. Attended'
      BY <2>3, <2>4, <2>6, <2>10, <3>4, <3>6 DEF IInv, Attended
    <3>12. Suspended'
      BY <2>3, <2>6, <2>10, <3>2, <3>4, <3>6 DEF IInv, Suspended
    <3> QED BY <2>7, <3>5, <3>6, <3>7, <3>8, <3>9, <3>10, <3>11, <3>12 DEF IInv
  <2> QED BY <2>1, <2>9, <2>10
<1> QED BY <1>2, <1>3

LEMMA InitGoesOnInv == ASSUME IInv, InitGoesOn PROVE IInv'
<1> DEFINE c == Head(stack).c
<1>1. In("init") /\ c \in Clients
  BY PopStack DEF InitGoesOn, In
<1>2. \/ \E n \in next[c] : DisconnectNext(c, n)
      \/ next[c] = {} /\ ServerInit(c)
  BY DEF InitGoesOn
<1>3. next[c] \subseteq Clients
  BY <1>1 DEF IInv, TypeOK
<1>4. Head(stack).c = c
  OBVIOUS
<1> HIDE DEF c
<1> QED BY <1>1, <1>2, <1>3, <1>4, DisconnectInv, ServerInitInv

LEMMA OnConnectionInv ==
  ASSUME IInv, NEW c \in Clients, OnConnection(c)
  PROVE  IInv'
<1>1. /\ cstate[c] = "none" /\ cstate' = [cstate EXCEPT ![c] = "version"]
      /\ timer' = [timer EXCEPT ![c] = TRUE] /\ MayCall
      /\ UNCHANGED <<config, chan, nRead, creds, accepted, credsChan, buffer,
                     hungUp, stack, next, met>>
  BY DEF OnConnection, StartTimer, CloseFrame, ListFrame, MayCall
<1>2. TypeOK
  BY DEF IInv
<1>3. cstate'[c] = "version" /\ \A d \in Clients \ {c} : cstate'[d] = cstate[d]
  BY <1>1, <1>2 DEF TypeOK
<1>4. creds[c] = "none" /\ buffer[c] = << >>
  BY <1>1 DEF IInv, Beginnings, Early
<1>5. TypeOK'
  <2>1. cstate' \in [Clients -> States] /\ timer' \in [Clients -> BOOLEAN]
    BY <1>1, <1>2 DEF TypeOK, States, Waiting
  <2> QED BY <1>1, <1>2, <2>1 DEF TypeOK
<1>6. Authenticated' /\ CredsMatchState' /\ CredsThroughTls'
  BY <1>1, <1>3, <1>4
  DEF IInv, Authenticated, CredsMatchState, CredsThroughTls, Alive
<1>7. Beginnings' /\ CleanBuffer'
  BY <1>1, <1>3, <1>4 DEF IInv, Beginnings, CleanBuffer
<1>8. InitCall'
  BY <1>1, OutsideInit, NoInitCall
<1>9. Attended'
  BY <1>1, <1>3, <1>4 DEF IInv, Attended
<1>10. Ordered(stack)' /\ Suspended'
  BY <1>1, <1>3, <1>4 DEF IInv, Suspended
<1> QED BY <1>5, <1>6, <1>7, <1>8, <1>9, <1>10 DEF IInv

(* The stream of c is closed, by the peer or because the buffer is full. *)
LEMMA HangUpInv ==
  ASSUME IInv, NEW c \in Clients, Alive(c), Idle \/ InLoop(c),
         hungUp' = [hungUp EXCEPT ![c] = TRUE],
         UNCHANGED <<config, cstate, chan, buffer, nRead, timer, creds, stack,
                     accepted, credsChan, next, met>>
  PROVE  IInv'
<1>1. /\ hungUp' \in [Clients -> BOOLEAN] /\ hungUp'[c] = TRUE
      /\ \A d \in Clients \ {c} : hungUp'[d] = hungUp[d]
  BY DEF IInv, TypeOK
<1>2. TypeOK' /\ Authenticated' /\ CredsMatchState' /\ CredsThroughTls'
  BY <1>1
  DEF IInv, TypeOK, Authenticated, CredsMatchState, CredsThroughTls, Alive
<1>3. Beginnings' /\ CleanBuffer'
  BY DEF IInv, Beginnings, CleanBuffer
<1>4. InitCall' /\ Ordered(stack)' /\ Suspended'
  BY DEF IInv, InitCall, Suspended
<1>5. Attended'
  BY <1>1 DEF IInv, Attended
<1> QED BY <1>2, <1>3, <1>4, <1>5 DEF IInv

LEMMA OnClientEventInv ==
  ASSUME IInv, NEW c \in Clients, OnClientEvent(c)
  PROVE  IInv'
<1>1. /\ Idle /\ Alive(c)
      /\ UNCHANGED <<config, cstate, chan, timer, creds, accepted, credsChan, next, met>>
  BY DEF OnClientEvent, ListFrame
<1>2. CASE Space(c) = 0 /\ hungUp' = [hungUp EXCEPT ![c] = TRUE]
             /\ UNCHANGED <<buffer, nRead, stack>>
  BY <1>1, <1>2, HangUpInv
<1>3. ASSUME NEW n \in 1..Space(c),
             nRead' = [nRead EXCEPT ![c] = @ + n],
             buffer' = [buffer EXCEPT ![c] = @ \o [i \in 1..n |-> chan[c]]],
             Resume(c), UNCHANGED hungUp
      PROVE  IInv'
  <2> DEFINE new == [i \in 1..n |-> chan[c]]
  <2>1. /\ TypeOK /\ buffer[c] \in Seq(Channels) /\ chan[c] \in Channels
        /\ Len(buffer[c]) \in Nat /\ BufferSize \in Nat /\ n \in Nat
        /\ nRead[c] \in Nat
    <3>1. /\ TypeOK /\ buffer[c] \in Seq(Channels) /\ chan[c] \in Channels
          /\ nRead[c] \in Nat
      BY DEF IInv, TypeOK
    <3>2. BufferSize \in Nat /\ Len(buffer[c]) \in Nat
      BY <3>1, HandshakeConstants
    <3> QED BY <1>3, <3>1, <3>2 DEF Space
  <2>2. new \in Seq(Channels) /\ Len(new) = n
    BY <2>1
  <2>3. /\ buffer[c] \o new \in Seq(Channels)
        /\ Len(buffer[c] \o new) = Len(buffer[c]) + n
        /\ \A i \in 1..Len(buffer[c]) + n :
             \/ i \in 1..Len(buffer[c]) /\ (buffer[c] \o new)[i] = buffer[c][i]
             \/ (buffer[c] \o new)[i] = chan[c]
    <3> HIDE DEF new
    <3>1. /\ buffer[c] \o new \in Seq(Channels)
          /\ Len(buffer[c] \o new) = Len(buffer[c]) + n
          /\ \A i \in 1..Len(buffer[c]) + n :
               (buffer[c] \o new)[i] =
                 IF i <= Len(buffer[c]) THEN buffer[c][i]
                                        ELSE new[i - Len(buffer[c])]
      BY <2>1, <2>2
    <3>2. \A j \in 1..n : new[j] = chan[c]
      BY DEF new
    <3>3. \A i \in 1..Len(buffer[c]) + n :
            \/ i \in 1..Len(buffer[c])
            \/ ~(i <= Len(buffer[c])) /\ i - Len(buffer[c]) \in 1..n
      BY <2>1
    <3>4. \A i \in 1..Len(buffer[c]) : i <= Len(buffer[c])
      BY <2>1
    <3> QED BY <3>1, <3>2, <3>3, <3>4
  <2>4. /\ buffer'[c] = buffer[c] \o new
        /\ \A d \in Clients \ {c} : buffer'[d] = buffer[d]
    BY <1>3, <2>1 DEF TypeOK
  <2> HIDE DEF new
  <2>5. /\ stack' \in Seq(Frames) /\ Ordered(stack')
        /\ Elems(stack') = {Loop(c)} \cup Elems(stack)
        /\ \A f \in Elems(stack') : f.op # "new_client"
        /\ \A d \in Clients :
             Frame("init", d) \in Elems(stack') <=> Frame("init", d) \in Elems(stack)
    BY <1>1, <1>3, ResumeStack DEF MayCall
  <2>6. TypeOK'
    <3>1. Len(buffer'[c]) <= BufferSize
      BY <1>3, <2>1, <2>3, <2>4 DEF Space
    <3>2. \A d \in Clients : Len(buffer'[d]) <= BufferSize
      BY <2>1, <2>4, <3>1 DEF TypeOK
    <3>3. buffer' \in [Clients -> Seq(Channels)]
      BY <1>3, <2>1, <2>3 DEF TypeOK, new
    <3>4. nRead' \in [Clients -> Nat]
      BY <1>3, <2>1 DEF TypeOK
    <3> QED BY <1>1, <1>3, <2>1, <2>5, <3>2, <3>3, <3>4 DEF TypeOK
  <2>7. Authenticated' /\ CredsMatchState' /\ CredsThroughTls' /\ Beginnings'
    BY <1>1, <2>4
    DEF IInv, Authenticated, CredsMatchState, CredsThroughTls, Alive, Beginnings
  <2>8. CleanBuffer'
    <3>1. ASSUME NEW d \in Clients, chan[d] = "tls", NEW i \in 1..Len(buffer'[d])
          PROVE  buffer'[d][i] = "tls"
      <4>1. CASE d = c
        BY <2>3, <2>4, <3>1, <4>1 DEF IInv, CleanBuffer
      <4>2. CASE d # c
        <5>1. buffer'[d] = buffer[d]
          BY <2>4, <4>2
        <5> QED BY <3>1, <5>1 DEF IInv, CleanBuffer
      <4> QED BY <4>1, <4>2
    <3>2. chan' = chan
      BY <1>1
    <3> QED BY <3>1, <3>2 DEF CleanBuffer
  <2>9. InitCall'
    BY <2>5, NoInitCall
  <2>10. Attended'
    BY <1>1, <1>3, <2>4, <2>5 DEF IInv, Attended
  <2>11. Suspended'
    <3>1. Len(buffer'[c]) > 0
      BY <2>1, <2>3, <2>4
    <3>2. buffer'[c] # << >>
      BY <3>1
    <3> QED BY <1>1, <2>4, <2>5, <3>2 DEF IInv, Suspended
  <2> QED BY <2>5, <2>6, <2>7, <2>8, <2>9, <2>10, <2>11 DEF IInv
<1> QED BY <1>2, <1>3 DEF OnClientEvent
-----------------------------------------------------------------------------
LEMMA HandlerInv ==
  ASSUME IInv, NEW c \in Clients, Handler(c)
  PROVE  IInv'
<1>1. CASE LoopEnds(c)
  BY <1>1, LoopEndsInv
<1>2. CASE OnVersion(c)
  <2>1. Reads(c, "version") /\ InLoop(c)
    BY <1>2 DEF OnVersion, Reads
  <2>2. CASE FailHandshake(c)
    BY <2>1, <2>2, FailInv
  <2>3. CASE Advance(c, "security") /\ UNCHANGED CloseFrame
    BY <2>1, <2>3, AdvanceInv DEF CloseFrame, Early, Waiting
  <2> QED BY <1>2, <2>2, <2>3 DEF OnVersion
<1>3. CASE OnVersion33(c)
  <2>1. Reads(c, "version") /\ InLoop(c)
    BY <1>3 DEF OnVersion33, Reads
  <2>2. CASE FailHandshake(c)
    BY <2>1, <2>2, FailInv
  <2>3. CASE config.auth /\ Advance(c, "des") /\ UNCHANGED CloseFrame
    BY <2>1, <2>3, AdvanceInv DEF CloseFrame, Early, Waiting
  <2>4. CASE ~config.auth /\ Advance(c, "init") /\ UNCHANGED CloseFrame
    BY <2>1, <2>4, AdvanceInv DEF CloseFrame, Early, Waiting
  <2> QED BY <1>3, <2>2, <2>3, <2>4 DEF OnVersion33
<1>4. CASE OnSecurity(c)
  <2>1. Reads(c, "security") /\ InLoop(c)
    BY <1>4 DEF OnSecurity, Reads
  <2>2. PICK t \in DOMAIN FirstState :
          \/ FailHandshake(c)
          \/ /\ t \in SecurityTypes
             /\ Advance(c, FirstState[t]) /\ UNCHANGED CloseFrame
    BY <1>4 DEF OnSecurity, IsAllowedType
  <2>3. CASE FailHandshake(c)
    BY <2>1, <2>3, FailInv
  <2>4. CASE /\ t \in SecurityTypes
             /\ Advance(c, FirstState[t]) /\ UNCHANGED CloseFrame
    <3>1. FirstState[t] \in Waiting \ {"auth"}
      BY DEF FirstState, Waiting
    <3>2. FirstState[t] = "init" => t = "none"
      BY DEF FirstState
    <3>3. "none" \in SecurityTypes => ~config.auth
      BY DEF SecurityTypes
    <3>4. "security" \in Early \ {"none"}
      BY DEF Early, Waiting
    <3> QED BY <2>1, <2>4, <3>1, <3>2, <3>3, <3>4, AdvanceInv DEF CloseFrame
  <2> QED BY <2>2, <2>3, <2>4
<1>5. ASSUME NEW s \in Early \ {"none"}, NEW t \in Waiting \ {"auth", "init"},
             Reads(c, s), Exchange(c, t)
      PROVE  IInv'
  <2>1. CASE FailHandshake(c)
    BY <1>5, <2>1, FailInv DEF Reads
  <2>2. CASE Advance(c, t) /\ UNCHANGED CloseFrame
    BY <1>5, <2>2, AdvanceInv DEF CloseFrame
  <2> QED BY <1>5, <2>1, <2>2 DEF Exchange
<1>6. CASE OnVencryptVersion(c) \/ OnRsaPublicKey(c) \/ OnRsaClientHash(c)
  BY <1>5, <1>6
  DEF OnVencryptVersion, OnRsaPublicKey, OnRsaClientHash, Early, Waiting
<1>7. CASE OnVencryptSubtype(c)
  <2>1. Reads(c, "vencryptSubtype") /\ InLoop(c)
    BY <1>7 DEF OnVencryptSubtype, Reads
  <2>2. CASE FailHandshake(c)
    BY <2>1, <2>2, FailInv
  <2>3. CASE ~FailHandshake(c)
    <3>1. /\ IsClean(c) /\ Advance(c, "vencryptPlain")
          /\ chan' = [chan EXCEPT ![c] = "tls"]
          /\ UNCHANGED <<config, nRead, creds, accepted, credsChan, ListFrame>>
      BY <1>7, <2>3 DEF OnVencryptSubtype
    <3> QED BY <2>1, <3>1, AdvanceInv DEF Early, Waiting
  <2> QED BY <2>2, <2>3
<1>8. CASE OnRsaChallenge(c)
  <2>1. Reads(c, "rsaChallenge") /\ InLoop(c)
    BY <1>8 DEF OnRsaChallenge, Reads
  <2>2. CASE FailHandshake(c)
    BY <2>1, <2>2, FailInv
  <2>3. CASE ~FailHandshake(c)
    <3>1. /\ Advance(c, "rsaHash") /\ chan' = [chan EXCEPT ![c] = "aes"]
          /\ UNCHANGED <<config, nRead, creds, accepted, credsChan, ListFrame>>
      BY <1>8, <2>3 DEF OnRsaChallenge
    <3> QED BY <2>1, <3>1, AdvanceInv DEF Early, Waiting
  <2> QED BY <2>2, <2>3
<1>9. CASE \/ DesAuthResponse(c) \/ AppleDhResponse(c) \/ OnRsaCredentials(c)
           \/ Reads(c, "vencryptPlain") /\ Authenticate(c)
  BY <1>9, AuthenticateInv
  DEF DesAuthResponse, AppleDhResponse, OnRsaCredentials, Early, Waiting
<1>10. CASE Reads(c, "vencryptPlain") /\ FailHandshake(c)
  BY <1>10, FailInv DEF Reads
<1>11. CASE OnInit(c)
  BY <1>11, OnInitInv
<1> QED BY <1>1, <1>2, <1>3, <1>4, <1>6, <1>7, <1>8, <1>9, <1>10, <1>11
        DEF Handler, OnVencryptPlainAuth

LEMMA StutterInv == ASSUME IInv, UNCHANGED vars PROVE IInv'
<1>1. UNCHANGED <<config, cstate, chan, buffer, nRead, hungUp, timer, creds,
                  stack, next, met, accepted, credsChan>>
  BY DEF vars
<1>2. TypeOK' /\ Authenticated' /\ CredsMatchState' /\ CredsThroughTls'
  BY <1>1
  DEF IInv, TypeOK, Authenticated, CredsMatchState, CredsThroughTls, Alive
<1>3. Beginnings' /\ CleanBuffer' /\ InitCall' /\ Attended' /\ Suspended'
  BY <1>1 DEF IInv, Beginnings, CleanBuffer, InitCall, Attended, Suspended
<1>4. Ordered(stack)'
  BY <1>1 DEF IInv
<1> QED BY <1>2, <1>3, <1>4 DEF IInv

LEMMA NextInv == ASSUME IInv, [Next]_vars PROVE IInv'
<1>1. CASE Return
  BY <1>1, AuthFnReturnsInv, NewClientReturnsInv, InitGoesOnInv, ClosingEndsInv
     DEF Return
<1>2. ASSUME NEW c \in Clients, Handler(c) PROVE IInv'
  BY <1>2, HandlerInv
<1>3. ASSUME NEW c \in Clients, AcceptCreds(c) \/ RejectCreds(c) PROVE IInv'
  BY <1>3, AcceptInv, RejectInv
<1>4. ASSUME NEW c \in Clients,
             CloseClient(c) \/ DeferredClose(c) \/ OnHandshakeTimeout(c)
      PROVE  IInv'
  BY <1>4, CloseOutsideInv
<1>5. ASSUME NEW c \in Clients, OnConnection(c) \/ OnClientEvent(c) PROVE IInv'
  BY <1>5, OnConnectionInv, OnClientEventInv
<1>6. ASSUME NEW c \in Clients, RemoteClosed(c) PROVE IInv'
  BY <1>6, HangUpInv DEF RemoteClosed, CloseFrame, ListFrame
<1>7. CASE UNCHANGED vars
  BY <1>7, StutterInv
<1> QED BY <1>1, <1>2, <1>3, <1>4, <1>5, <1>6, <1>7 DEF Next

LEMMA Invariant == Spec => []IInv
<1>1. Init => IInv
  BY InitInv
<1>2. IInv /\ [Next]_vars => IInv'
  BY NextInv
<1> QED BY <1>1, <1>2, PTL DEF Spec

-----------------------------------------------------------------------------
(* The variables have their types; msg_buffer never overflows. *)
THEOREM TypeCorrect == Spec => []TypeOK
<1>1. IInv => TypeOK
  BY DEF IInv
<1> QED BY <1>1, Invariant, PTL

(* Where NVNC_AUTH_REQUIRE_AUTH is set nobody gets to on_init_message whose *)
(* credentials nvnc_auth_creds_accept has not accepted.                     *)
THEOREM NobodyUnauthenticated == Spec => []Authenticated
<1>1. IInv => Authenticated
  BY DEF IInv
<1> QED BY <1>1, Invariant, PTL

(* The assertions of nvnc_auth_creds_accept and nvnc_auth_creds_reject hold, *)
(* whenever the application calls them.                                      *)
THEOREM VerdictsMatch == Spec => []CredsMatchState
<1>1. IInv => CredsMatchState
  BY DEF IInv
<1> QED BY <1>1, Invariant, PTL

(* on_vencrypt_plain_auth_message reads nothing that was sent in the clear. *)
THEOREM PlainCredsThroughTls == Spec => []CredsThroughTls
<1>1. IInv => CredsThroughTls
  BY DEF IInv
<1> QED BY <1>1, Invariant, PTL

(* The message loops leave no message behind that could be processed, even  *)
(* where a verdict resumes a loop from within another client's callback.    *)
THEOREM NothingLeftUnread == Spec => []NothingUnread
<1>1. IInv => NothingUnread
  <2> SUFFICES ASSUME IInv, NEW c \in Clients, buffer[c] # << >>
               PROVE  \/ hungUp[c] \/ IsProcessing(c)
                      \/ cstate[c] \in {"auth", "ready", "closing", "closed"}
    BY DEF NothingUnread
  <2>1. Loop(c) \in Elems(stack) => IsProcessing(c)
    BY DEF IInv, TypeOK, Elems, IsProcessing
  <2> QED BY <2>1 DEF IInv, Attended
<1> QED BY <1>1, Invariant, PTL

-----------------------------------------------------------------------------
(* disconnect_all_other_clients.  In its walk through the list for c, the   *)
(* client d is gone or still to come.                                       *)
ToCome(nx, listed, c, d) == d \notin listed \/ \E n \in nx[c] : d <= n

(* In every walk on the stack s each client that was to be disconnected is  *)
(* gone, still to come, or being closed in an event loop above the walk.    *)
Walk(s, nx, mt, listed) ==
  \A k \in 1..Len(s) : s[k].op = "init" =>
    \A d \in mt[s[k].c] :
      \/ ToCome(nx, listed, s[k].c, d)
      \/ \E j \in 1..Len(s) : j < k /\ s[j] = Frame("closing", d)

(* The walk has at most one next client, and is about others that exist. *)
WalkData ==
  \A c \in Clients :
    /\ \A m, n \in next[c] : m = n
    /\ c \notin met[c]
    /\ \A d \in met[c] : cstate[d] # "none"

Alone ==
  stack # << >> /\ Head(stack).op = "new_client" =>
    met[Head(stack).c] \cap Listed = {}

(* Only so many clients have come. *)
Bounded == \E n \in Nat : \A d \in Clients : cstate[d] # "none" => d <= n

WInv == Walk(stack, next, met, Listed) /\ WalkData /\ Alone /\ Bounded

(* Every set of naturals with an upper bound has a greatest element. *)
LEMMA LatestExists ==
  ASSUME NEW S \in SUBSET Nat, NEW n \in Nat, \A d \in S : d <= n, S # {}
  PROVE  Latest(S) # {}
<1> DEFINE T == {m \in Nat : n - m \in S}
           R == OpToRel(<, Nat)
<1>1. T \subseteq Nat /\ T # {}
  <2>1. PICK d \in S : d \in Nat /\ d <= n
    OBVIOUS
  <2>2. n - d \in Nat /\ n - (n - d) = d
    BY <2>1
  <2> QED BY <2>1, <2>2
<1>2. IsWellFoundedOn(R, Nat)
  BY NatLessThanWellFounded, Zenon
<1>3. \A x, y \in Nat : x < y => <<x, y>> \in R
  BY DEF OpToRel
<1> HIDE DEF R, T
<1>4. PICK x \in T : \A y \in T : ~(<<y, x>> \in R)
  BY <1>1, <1>2, WFMin
<1>5. x \in Nat /\ n - x \in S
  BY <1>1, <1>4 DEF T
<1>6. ASSUME NEW e \in S PROVE e <= n - x
  <2>1. e \in Nat /\ e <= n /\ n - e \in Nat /\ n - (n - e) = e
    OBVIOUS
  <2>2. n - e \in T
    BY <2>1 DEF T
  <2>3. ~(n - e < x)
    BY <1>3, <1>4, <1>5, <2>1, <2>2
  <2> QED BY <1>5, <2>1, <2>3
<1> QED BY <1>5, <1>6 DEF Latest

(* A call is pushed: the walks below it go on as before, or have the client *)
(* that the new call closes behind them.                                    *)
LEMMA WalkPush ==
  ASSUME NEW s \in Seq(Frames), NEW f \in Frames,
         NEW nx, NEW mt, NEW listed, NEW nx2, NEW mt2, NEW listed2,
         Walk(s, nx, mt, listed),
         \A c \in Clients : Frame("init", c) \in Elems(s) =>
           /\ mt2[c] = mt[c]
           /\ \A d \in mt[c] : ToCome(nx, listed, c, d) =>
                ToCome(nx2, listed2, c, d) \/ f = Frame("closing", d),
         f.op = "init" => \A d \in mt2[f.c] : ToCome(nx2, listed2, f.c, d)
  PROVE  Walk(<<f>> \o s, nx2, mt2, listed2)
<1> DEFINE t == <<f>> \o s
<1>1. Len(t) = Len(s) + 1 /\ Len(s) \in Nat
  OBVIOUS
<1>2. t[1] = f /\ \A i \in 1..Len(s) : t[i + 1] = s[i]
  OBVIOUS
<1>3. \A i \in 1..Len(s) : s[i] \in Frames
  OBVIOUS
<1> HIDE DEF t
<1>4. ASSUME NEW k \in 1..Len(t), t[k].op = "init", NEW d \in mt2[t[k].c]
      PROVE  \/ ToCome(nx2, listed2, t[k].c, d)
             \/ \E j \in 1..Len(t) : j < k /\ t[j] = Frame("closing", d)
  <2>1. CASE k = 1
    BY <1>2, <1>4, <2>1
  <2>2. CASE k # 1
    <3> DEFINE i == k - 1
               c == s[i].c
    <3>1. i \in 1..Len(s) /\ k = i + 1 /\ 1 < k /\ 1 \in 1..Len(t)
      BY <1>1, <1>4, <2>2
    <3> HIDE DEF i
    <3>2. t[k] = s[i] /\ s[i].op = "init" /\ s[i] \in Frames /\ t[k].c = c
      BY <1>2, <1>3, <1>4, <3>1
    <3>3. c \in Clients /\ Frame("init", c) = s[i]
      BY <3>2 DEF Frame, Frames
    <3>4. Frame("init", c) \in Elems(s)
      BY <3>1, <3>3 DEF Elems
    <3>5. mt2[c] = mt[c] /\ d \in mt[c]
      BY <1>4, <3>2, <3>3, <3>4
    <3>6. \/ ToCome(nx, listed, c, d)
          \/ \E j \in 1..Len(s) : j < i /\ s[j] = Frame("closing", d)
      BY <3>1, <3>2, <3>5 DEF Walk
    <3>7. CASE ToCome(nx, listed, c, d)
      <4>1. ToCome(nx2, listed2, c, d) \/ f = Frame("closing", d)
        BY <3>3, <3>4, <3>5, <3>7
      <4> QED BY <1>2, <3>1, <3>2, <4>1
    <3>8. ASSUME NEW j \in 1..Len(s), j < i, s[j] = Frame("closing", d)
          PROVE  \E h \in 1..Len(t) : h < k /\ t[h] = Frame("closing", d)
      <4>1. j + 1 \in 1..Len(t) /\ j + 1 < k /\ t[j + 1] = s[j]
        BY <1>1, <1>2, <3>1, <3>8
      <4> QED BY <3>8, <4>1
    <3> QED BY <3>6, <3>7, <3>8
  <2> QED BY <2>1, <2>2
<1> QED BY <1>4 DEF Walk, t

(* Nothing happens on the stack. *)
LEMMA WalkKeep ==
  ASSUME NEW s \in Seq(Frames),
         NEW nx, NEW mt, NEW listed, NEW nx2, NEW mt2, NEW listed2,
         Walk(s, nx, mt, listed),
         \A c \in Clients : Frame("init", c) \in Elems(s) =>
           /\ mt2[c] = mt[c]
           /\ \A d \in mt[c] : ToCome(nx, listed, c, d) => ToCome(nx2, listed2, c, d)
  PROVE  Walk(s, nx2, mt2, listed2)
<1>1. ASSUME NEW k \in 1..Len(s), s[k].op = "init", NEW d \in mt2[s[k].c]
      PROVE  \/ ToCome(nx2, listed2, s[k].c, d)
             \/ \E j \in 1..Len(s) : j < k /\ s[j] = Frame("closing", d)
  <2> DEFINE c == s[k].c
  <2>1. s[k] \in Frames
    OBVIOUS
  <2>2. c \in Clients /\ Frame("init", c) = s[k]
    BY <1>1, <2>1 DEF Frame, Frames
  <2>3. Frame("init", c) \in Elems(s)
    BY <2>2 DEF Elems
  <2>4. d \in mt[c]
    BY <1>1, <2>2, <2>3
  <2>5. \/ ToCome(nx, listed, c, d)
        \/ \E j \in 1..Len(s) : j < k /\ s[j] = Frame("closing", d)
    BY <1>1, <2>4 DEF Walk
  <2> QED BY <2>2, <2>3, <2>4, <2>5
<1> QED BY <1>1 DEF Walk

(* A call returns; if it has closed a client, that client is gone. *)
LEMMA WalkPop ==
  ASSUME NEW s \in Seq(Frames), s # << >>, NEW nx, NEW mt, NEW listed,
         Walk(s, nx, mt, listed),
         \A d : Head(s) = Frame("closing", d) => d \notin listed
  PROVE  Walk(Tail(s), nx, mt, listed)
<1> DEFINE t == Tail(s)
<1>1. Len(s) \in Nat /\ Len(s) > 0 /\ Len(t) = Len(s) - 1
  OBVIOUS
<1>2. Head(s) = s[1] /\ \A i \in 1..Len(s) - 1 : t[i] = s[i + 1]
  OBVIOUS
<1> HIDE DEF t
<1>3. ASSUME NEW k \in 1..Len(t), t[k].op = "init", NEW d \in mt[t[k].c]
      PROVE  \/ ToCome(nx, listed, t[k].c, d)
             \/ \E j \in 1..Len(t) : j < k /\ t[j] = Frame("closing", d)
  <2>1. k \in 1..Len(s) - 1 /\ k + 1 \in 1..Len(s) /\ t[k] = s[k + 1]
    BY <1>1, <1>2
  <2>2. \/ ToCome(nx, listed, t[k].c, d)
        \/ \E j \in 1..Len(s) : j < k + 1 /\ s[j] = Frame("closing", d)
    BY <1>3, <2>1 DEF Walk
  <2>3. ASSUME NEW j \in 1..Len(s), j < k + 1, s[j] = Frame("closing", d)
        PROVE  \/ ToCome(nx, listed, t[k].c, d)
               \/ \E h \in 1..Len(t) : h < k /\ t[h] = Frame("closing", d)
    <3>1. CASE j = 1
      BY <1>2, <2>3, <3>1 DEF ToCome
    <3>2. CASE j # 1
      <4>1. j - 1 \in 1..Len(s) - 1 /\ j - 1 \in 1..Len(t) /\ j - 1 < k /\ (j - 1) + 1 = j
        BY <1>1, <2>1, <2>3, <3>2
      <4>2. t[j - 1] = Frame("closing", d)
        BY <1>2, <2>3, <4>1
      <4> QED BY <4>1, <4>2
    <3> QED BY <3>1, <3>2
  <2> QED BY <2>2, <2>3
<1> QED BY <1>3 DEF Walk, t

(* No client comes back, none that has come is as if it had not, and they   *)
(* change one at a time.                                                    *)
Lives ==
  /\ \A d \in Clients :
       /\ cstate[d] = "closed" => cstate'[d] = "closed"
       /\ cstate[d] # "none" => cstate'[d] # "none"
  /\ \E c : \A d \in Clients : d = c \/ cstate'[d] = cstate[d]

(* A step that does nothing about the walks. *)
Calm ==
  /\ UNCHANGED <<next, met>>
  /\ \/ stack' = stack
     \/ stack # << >> /\ Head(stack).op # "closing" /\ stack' = Tail(stack)
     \/ \E f \in Frames :
          /\ f.op \in {"loop", "auth_fn", "closing", "wild"}
          /\ stack' = <<f>> \o stack

LEMMA CloseLives ==
  ASSUME IInv, NEW c \in Clients, NEW rest, Close(c, rest), cstate[c] \notin {"none", "closed"}
  PROVE  Lives
<1>1. PICK t \in {"closing", "closed"} : cstate' = [cstate EXCEPT ![c] = t]
  BY DEF Close
<1>2. cstate \in [Clients -> States]
  BY DEF IInv, TypeOK
<1> QED BY <1>1, <1>2 DEF Lives

LEMMA MoveLives ==
  ASSUME IInv, NEW c \in Clients, NEW t \in States \ {"none"},
         cstate' = [cstate EXCEPT ![c] = t], cstate[c] # "closed"
  PROVE  Lives
<1>1. cstate \in [Clients -> States]
  BY DEF IInv, TypeOK
<1> QED BY <1>1 DEF Lives

(* Whoever has a timer or a stream that was closed is there, and not being  *)
(* closed; whoever is being closed in an event loop is not.                 *)
Connected ==
  \A c \in Clients :
    /\ timer[c] \/ hungUp[c] => Alive(c)
    /\ Frame("closing", c) \in Elems(stack) => cstate[c] \in {"closing", "closed"}

LEMMA CloseConnected ==
  ASSUME IInv, Connected, NEW c \in Clients, NEW rest \in Seq(Frames),
         Close(c, rest), Elems(rest) \subseteq Elems(stack)
  PROVE  Connected'
<1>1. /\ cstate'[c] \in {"closing", "closed"} /\ ~timer'[c] /\ ~hungUp'[c]
      /\ \A d \in Clients \ {c} :
           /\ cstate'[d] = cstate[d] /\ timer'[d] = timer[d]
           /\ hungUp'[d] = hungUp[d]
  <2>1. PICK t \in {"closing", "closed"} : cstate' = [cstate EXCEPT ![c] = t]
    BY DEF Close
  <2>2. /\ timer' = [timer EXCEPT ![c] = FALSE]
        /\ hungUp' = [hungUp EXCEPT ![c] = FALSE]
    BY DEF Close
  <2>3. /\ cstate \in [Clients -> States] /\ timer \in [Clients -> BOOLEAN]
        /\ hungUp \in [Clients -> BOOLEAN]
    BY DEF IInv, TypeOK
  <2> QED BY <2>1, <2>2, <2>3
<1>2. \A d \in Clients \ {c} :
        Frame("closing", d) \in Elems(stack') => Frame("closing", d) \in Elems(stack)
  <2>1. CASE stack' = rest
    BY <2>1
  <2>2. CASE stack' = <<Frame("closing", c)>> \o rest
    <3>1. Elems(<<Frame("closing", c)>> \o rest) = {Frame("closing", c)} \cup Elems(rest)
      <4>1. Frame("closing", c) \in Frames
        BY CallTypes
      <4> QED BY <4>1, Push
    <3>2. \A d \in Clients \ {c} : Frame("closing", d) # Frame("closing", c)
      BY DEF Frame
    <3> QED BY <2>2, <3>1, <3>2
  <2> QED BY <2>1, <2>2 DEF Close
<1> QED BY <1>1, <1>2 DEF Connected, Alive

LEMMA MoveConnected ==
  ASSUME IInv, Connected, NEW c \in Clients,
         \/ cstate' = cstate
         \/ /\ cstate[c] \notin {"closing", "closed"}
            /\ \E t \in States \ {"none", "closing", "closed"} : cstate' = [cstate EXCEPT ![c] = t],
         \A d \in Clients : timer'[d] => timer[d] \/ Alive(d)',
         \A d \in Clients : hungUp'[d] => hungUp[d] \/ Alive(d)',
         \A d \in Clients :
           Frame("closing", d) \in Elems(stack') => Frame("closing", d) \in Elems(stack)
  PROVE  Connected'
<1>1. cstate \in [Clients -> States]
  BY DEF IInv, TypeOK
<1>2. \A d \in Clients :
        cstate'[d] = cstate[d]
        \/ (cstate[d] \notin {"closing", "closed"}
             /\ cstate'[d] \notin {"none", "closing", "closed"})
  BY <1>1
<1> QED BY <1>2 DEF Connected, Alive

LEMMA PushConnected ==
  ASSUME IInv, NEW f \in Frames, f.op # "closing", stack' = <<f>> \o stack, NEW d \in Clients,
         Frame("closing", d) \in Elems(stack')
  PROVE  Frame("closing", d) \in Elems(stack)
<1>1. stack \in Seq(Frames)
  BY DEF IInv, TypeOK
<1>2. Elems(<<f>> \o stack) = {f} \cup Elems(stack)
  BY <1>1, Push
<1>3. Frame("closing", d) # f
  BY DEF Frame
<1> QED BY <1>2, <1>3

LEMMA HandlerCalm ==
  ASSUME IInv, Connected, NEW c \in Clients, Handler(c), ~OnInit(c)
  PROVE  Lives /\ Calm /\ Connected'
<1>1. InLoop(c) /\ stack # << >> /\ Head(stack).op # "closing"
  <2>1. InLoop(c)
    BY DEF Handler, LoopEnds, OnVersion, OnVersion33, OnSecurity,
           OnVencryptVersion, OnVencryptSubtype, OnVencryptPlainAuth,
           OnRsaPublicKey, OnRsaChallenge, OnRsaClientHash, OnRsaCredentials,
           DesAuthResponse, AppleDhResponse, OnInit, Reads
  <2> QED BY <2>1, DistinctCalls DEF InLoop
<1>0. /\ Tail(stack) \in Seq(Frames) /\ stack \in Seq(Frames)
      /\ Elems(Tail(stack)) \subseteq Elems(stack)
  BY <1>1, InnermostLoop
<1>2. CASE LoopEnds(c)
  <2>1. UNCHANGED <<cstate, hungUp, timer, next, met>> /\ stack' = Tail(stack)
    BY <1>2 DEF LoopEnds, CloseFrame, ListFrame
  <2>2. Connected'
    BY <1>0, <2>1, MoveConnected
  <2> QED BY <1>1, <2>1, <2>2 DEF Lives, Calm
<1>3. CASE cstate[c] \in Early /\ cstate[c] # "none" /\ FailHandshake(c)
  <2>1. Close(c, Tail(stack)) /\ UNCHANGED <<next, met>>
    BY <1>3 DEF FailHandshake, CloseFrame, ListFrame
  <2>2. cstate[c] \notin {"none", "closed", "ready"}
    BY <1>3 DEF Early, Waiting
  <2>3. Lives
    BY <2>1, <2>2, CloseLives
  <2>4. stack' = Tail(stack)
    BY <2>1, <2>2 DEF Close
  <2>5. Connected'
    BY <1>0, <2>1, CloseConnected
  <2> QED BY <1>1, <2>1, <2>3, <2>4, <2>5 DEF Calm
<1>4. ASSUME cstate[c] \in Early, NEW t \in Waiting, Advance(c, t), UNCHANGED <<next, met>>
      PROVE  Lives /\ Calm /\ Connected'
  <2>1. cstate' = [cstate EXCEPT ![c] = t] /\ UNCHANGED <<stack, timer, hungUp>>
    BY <1>4 DEF Advance
  <2>2. /\ cstate[c] \notin {"closing", "closed"}
        /\ t \in States \ {"none", "closing", "closed"}
    BY <1>4 DEF Early, Waiting, States
  <2>3. Connected'
    BY <2>1, <2>2, MoveConnected
  <2> QED BY <1>4, <2>1, <2>2, <2>3, MoveLives DEF Calm
<1>5. CASE cstate[c] \in Early /\ Authenticate(c)
  <2>1. /\ cstate' = [cstate EXCEPT ![c] = "auth"] /\ UNCHANGED <<next, met>>
        /\ stack' = <<Frame("auth_fn", c)>> \o stack /\ UNCHANGED <<timer, hungUp>>
    BY <1>5 DEF Authenticate, ListFrame
  <2>2. /\ cstate[c] \notin {"closing", "closed"}
        /\ "auth" \in States \ {"none", "closing", "closed"}
    BY <1>5 DEF Early, Waiting, States
  <2>3. Frame("auth_fn", c) \in Frames /\ Frame("auth_fn", c).op = "auth_fn"
    BY CallTypes, DistinctCalls
  <2>4. Lives
    BY <2>1, <2>2, MoveLives
  <2>5. Connected'
    BY <2>1, <2>2, <2>3, MoveConnected, PushConnected
  <2> QED BY <2>1, <2>3, <2>4, <2>5 DEF Calm
<1>6. \/ LoopEnds(c)
      \/ /\ cstate[c] \in Early /\ cstate[c] # "none"
         /\ \/ FailHandshake(c) \/ Authenticate(c)
            \/ \E t \in Waiting : Advance(c, t) /\ UNCHANGED <<next, met>>
  <2>1. /\ {"version", "security", "vencryptVersion", "vencryptSubtype",
             "vencryptPlain", "des", "appleDh", "rsaKey", "rsaChallenge",
             "rsaHash", "rsaCreds"} \subseteq Early \ {"none"}
        /\ {"security", "des", "init", "vencryptSubtype", "vencryptPlain",
             "rsaChallenge", "rsaHash", "rsaCreds"} \subseteq Waiting
    BY DEF Early, Waiting
  <2>2. \A t \in DOMAIN FirstState : FirstState[t] \in Waiting
    BY DEF FirstState, Waiting
  <2>3. ASSUME NEW x \in Early \ {"none"}, NEW t \in Waiting, Reads(c, x), Exchange(c, t)
        PROVE  /\ cstate[c] \in Early /\ cstate[c] # "none"
               /\ \/ FailHandshake(c)
                  \/ \E u \in Waiting : Advance(c, u) /\ UNCHANGED <<next, met>>
    BY <2>3 DEF Reads, Exchange, CloseFrame, ListFrame
  <2>4. CASE OnVencryptVersion(c) \/ OnRsaPublicKey(c) \/ OnRsaClientHash(c)
    BY <2>1, <2>3, <2>4 DEF OnVencryptVersion, OnRsaPublicKey, OnRsaClientHash
  <2>5. CASE OnVersion(c) \/ OnVersion33(c)
    BY <2>1, <2>5 DEF OnVersion, OnVersion33, Reads, CloseFrame, ListFrame
  <2>6. CASE OnSecurity(c)
    BY <2>1, <2>2, <2>6 DEF OnSecurity, Reads, CloseFrame, ListFrame
  <2>7. CASE OnVencryptSubtype(c) \/ OnRsaChallenge(c)
    BY <2>1, <2>7 DEF OnVencryptSubtype, OnRsaChallenge, Reads, ListFrame
  <2>8. CASE \/ OnVencryptPlainAuth(c) \/ OnRsaCredentials(c)
             \/ DesAuthResponse(c) \/ AppleDhResponse(c)
    BY <2>1, <2>8 DEF OnVencryptPlainAuth, OnRsaCredentials, DesAuthResponse,
                      AppleDhResponse, Reads
  <2> QED BY <2>4, <2>5, <2>6, <2>7, <2>8 DEF Handler
<1> QED BY <1>2, <1>3, <1>4, <1>5, <1>6

LEMMA CloseCalm ==
  ASSUME IInv, Connected, NEW c \in Clients, Close(c, stack), cstate[c] \notin {"none", "closed"},
         UNCHANGED <<next, met>>
  PROVE  Lives /\ Calm /\ Connected'
<1>1. Frame("closing", c) \in Frames /\ Frame("closing", c).op = "closing"
  BY CallTypes, DistinctCalls
<1>2. stack' = stack \/ stack' = <<Frame("closing", c)>> \o stack
  BY DEF Close
<1>3. Connected'
  BY CloseConnected DEF IInv, TypeOK
<1> QED BY <1>1, <1>2, <1>3, CloseLives DEF Calm

LEMMA EventCalm ==
  ASSUME IInv, Connected, NEW c \in Clients,
         \/ AcceptCreds(c) \/ RejectCreds(c) \/ CloseClient(c)
         \/ OnConnection(c) \/ OnClientEvent(c) \/ RemoteClosed(c)
         \/ DeferredClose(c) \/ OnHandshakeTimeout(c)
  PROVE  Lives /\ Calm /\ Connected'
<1>1. ASSUME Resume(c), UNCHANGED <<next, met>>
      PROVE  /\ Calm
             /\ \A d \in Clients :
                  Frame("closing", d) \in Elems(stack') => Frame("closing", d) \in Elems(stack)
  <2>1. Loop(c) \in Frames /\ Loop(c).op = "loop"
    BY CallTypes, DistinctCalls
  <2>2. CASE stack' = stack
    BY <1>1, <2>2 DEF Calm
  <2>3. CASE stack' = <<Loop(c)>> \o stack
    BY <1>1, <2>1, <2>3, PushConnected DEF Calm
  <2> QED BY <1>1, <2>2, <2>3 DEF Resume
<1>2. CASE AcceptCreds(c)
  <2>1. UNCHANGED <<next, met, hungUp, timer>>
    BY <1>2 DEF AcceptCreds, ListFrame
  <2>2. CASE UNCHANGED <<cstate, accepted, stack>>
    BY <2>1, <2>2, MoveConnected DEF Lives, Calm
  <2>3. CASE Alive(c) /\ cstate' = [cstate EXCEPT ![c] = "init"] /\ Resume(c)
    <3>1. /\ "init" \in States \ {"none", "closing", "closed"}
          /\ cstate[c] \notin {"closing", "closed"}
      BY <2>3 DEF States, Waiting, Alive
    <3>2. Connected'
      BY <1>1, <2>1, <2>3, <3>1, MoveConnected
    <3> QED BY <1>1, <2>1, <2>3, <3>1, <3>2, MoveLives
  <2> QED BY <1>2, <2>2, <2>3 DEF AcceptCreds
<1>3. CASE RejectCreds(c)
  <2>1. UNCHANGED <<next, met>>
    BY <1>3 DEF RejectCreds, ListFrame
  <2>2. CASE Alive(c) /\ Close(c, stack)
    BY <2>1, <2>2, CloseCalm DEF Alive
  <2>3. CASE UNCHANGED <<cstate, hungUp, timer, stack>>
    BY <2>1, <2>3, MoveConnected DEF Lives, Calm
  <2> QED BY <1>3, <2>2, <2>3 DEF RejectCreds
<1>4. CASE CloseClient(c) \/ DeferredClose(c) \/ OnHandshakeTimeout(c)
  <2>1. /\ Close(c, stack) /\ UNCHANGED <<next, met>>
        /\ Alive(c) \/ hungUp[c] \/ timer[c]
    BY <1>4 DEF CloseClient, DeferredClose, OnHandshakeTimeout, CloseFrame, ListFrame
  <2>2. cstate[c] \notin {"none", "closed"}
    BY <2>1 DEF Alive, Connected
  <2> QED BY <2>1, <2>2, CloseCalm
<1>5. CASE OnConnection(c)
  <2>1. /\ cstate' = [cstate EXCEPT ![c] = "version"] /\ cstate[c] = "none"
        /\ timer' = [timer EXCEPT ![c] = TRUE]
        /\ UNCHANGED <<next, met, stack, hungUp>>
    BY <1>5 DEF OnConnection, StartTimer, CloseFrame, ListFrame
  <2>2. "version" \in States \ {"none", "closing", "closed"}
    BY DEF States, Waiting
  <2>3. \A d \in Clients : timer'[d] => timer[d] \/ cstate'[d] = "version"
    BY <2>1 DEF IInv, TypeOK
  <2>4. Connected'
    BY <2>1, <2>2, <2>3, MoveConnected DEF Alive
  <2> QED BY <2>1, <2>2, <2>4, MoveLives DEF Calm
<1>6. ASSUME UNCHANGED <<next, met, cstate, timer>>, Alive(c),
             stack' = stack \/ Resume(c),
             hungUp' = hungUp \/ hungUp' = [hungUp EXCEPT ![c] = TRUE]
      PROVE  Lives /\ Calm /\ Connected'
  <2>1. \A d \in Clients : hungUp'[d] => hungUp[d] \/ d = c
    BY <1>6 DEF IInv, TypeOK
  <2>2. \A d \in Clients : hungUp'[d] => hungUp[d] \/ Alive(d)'
    BY <1>6, <2>1 DEF Alive
  <2>3. Connected'
    BY <1>1, <1>6, <2>2, MoveConnected
  <2> QED BY <1>1, <1>6, <2>3 DEF Lives, Calm
<1>7. CASE OnClientEvent(c)
  BY <1>6, <1>7 DEF OnClientEvent, ListFrame
<1>8. CASE RemoteClosed(c)
  BY <1>6, <1>8 DEF RemoteClosed, CloseFrame, ListFrame
<1> QED BY <1>2, <1>3, <1>4, <1>5, <1>7, <1>8

LEMMA BoundedKept == ASSUME Lives, Bounded PROVE Bounded'
<1>1. PICK n \in Nat : \A d \in Clients : cstate[d] # "none" => d <= n
  BY DEF Bounded
<1>2. PICK c : \A d \in Clients : d = c \/ cstate'[d] = cstate[d]
  BY DEF Lives
<1>3. \A d \in Clients : cstate'[d] # "none" => d = c \/ d <= n
  BY <1>1, <1>2
<1>4. Clients \subseteq Nat
  BY HandshakeConstants
<1>5. CASE c \in Clients /\ ~(c <= n)
  <2>1. c \in Nat /\ \A d \in Clients : d <= n => d <= c
    BY <1>4, <1>5
  <2> QED BY <1>3, <1>4, <2>1 DEF Bounded
<1>6. CASE ~(c \in Clients /\ ~(c <= n))
  BY <1>3, <1>6 DEF Bounded
<1> QED BY <1>5, <1>6

(* What is still to come for a walk that nobody touches stays so. *)
LEMMA StillToCome ==
  ASSUME Lives, NEW c \in Clients, NEW d \in Clients, cstate[d] # "none",
         next'[c] = next[c], ToCome(next, Listed, c, d)
  PROVE  ToCome(next', Listed', c, d)
<1>1. d \notin Listed => d \notin Listed'
  BY DEF Listed, Lives
<1> QED BY <1>1 DEF ToCome

LEMMA WalkDataKept ==
  ASSUME IInv, WInv, Lives,
         \A c \in Clients : \A m, n \in next'[c] : m = n,
         \A c \in Clients :
           met'[c] = met[c] \/ (c \notin met'[c] /\ met'[c] \subseteq Listed)
  PROVE  WalkData'
<1> SUFFICES ASSUME NEW c \in Clients
             PROVE  c \notin met'[c] /\ \A d \in met'[c] : cstate'[d] # "none"
  BY DEF WalkData
<1>1. met[c] \subseteq Clients
  BY DEF IInv, TypeOK
<1>2. \A d \in met[c] : cstate'[d] # "none"
  BY <1>1 DEF WInv, WalkData, Lives
<1>3. \A d \in Listed : cstate'[d] # "none"
  BY DEF Listed, Lives
<1> QED BY <1>2, <1>3 DEF WInv, WalkData

LEMMA AloneKept ==
  ASSUME IInv, WInv, Lives, UNCHANGED met, stack' = stack
  PROVE  Alone'
<1> SUFFICES ASSUME stack # << >>, Head(stack).op = "new_client"
             PROVE  met[Head(stack).c] \cap Listed' = {}
  BY DEF Alone
<1>1. Head(stack).c \in Clients
  BY PopStack
<1>2. met[Head(stack).c] \cap Listed = {}
  BY DEF WInv, Alone
<1>3. \A d \in met[Head(stack).c] : d \in Clients /\ cstate[d] # "none"
  BY <1>1 DEF WInv, WalkData, IInv, TypeOK
<1> QED BY <1>2, <1>3 DEF Listed, Lives

LEMMA CalmWalk ==
  ASSUME IInv, WInv, Lives, Calm
  PROVE  WInv'
<1>1. stack \in Seq(Frames) /\ Walk(stack, next, met, Listed) /\ UNCHANGED <<next, met>>
  BY DEF IInv, TypeOK, WInv, Calm
<1>2. \A c \in Clients : \A d \in met[c] : d \in Clients /\ cstate[d] # "none"
  BY DEF WInv, WalkData, IInv, TypeOK
<1>3. \A c \in Clients : \A d \in met[c] :
        ToCome(next, Listed, c, d) => ToCome(next', Listed', c, d)
  BY <1>1, <1>2, StillToCome
<1>4. WalkData' /\ Bounded'
  BY <1>1, WalkDataKept, BoundedKept DEF WInv, WalkData
<1>5. Walk(stack, next', met', Listed')
  BY <1>1, <1>3, WalkKeep
<1>6. CASE stack' = stack
  BY <1>1, <1>4, <1>5, <1>6, AloneKept DEF WInv
<1>7. CASE stack # << >> /\ Head(stack).op # "closing" /\ stack' = Tail(stack)
  <2>1. \A d : Head(stack) # Frame("closing", d)
    BY <1>7 DEF Frame
  <2>2. Walk(stack', next', met', Listed')
    BY <1>1, <1>5, <1>7, <2>1, WalkPop
  <2>3. Alone'
    <3>1. \A f \in Elems(Tail(stack)) : f.op # "new_client"
      BY <1>7 DEF IInv, InitCall
    <3>2. Tail(stack) \in Seq(Frames)
      BY <1>1, <1>7
    <3>3. Tail(stack) # << >> => Head(Tail(stack)) \in Elems(Tail(stack))
      BY <3>2, Pop
    <3> QED BY <1>7, <3>1, <3>3 DEF Alone
  <2> QED BY <1>4, <2>2, <2>3 DEF WInv
<1>8. ASSUME NEW f \in Frames, f.op \in {"loop", "auth_fn", "closing", "wild"},
             stack' = <<f>> \o stack
      PROVE  WInv'
  <2>1. Walk(<<f>> \o stack, next', met', Listed')
    BY <1>1, <1>3, <1>8, WalkPush
  <2>2. Head(<<f>> \o stack) = f
    BY <1>1, Push
  <2>3. Alone'
    BY <1>8, <2>2 DEF Alone
  <2> QED BY <1>4, <1>8, <2>1, <2>3 DEF WInv
<1> QED BY <1>6, <1>7, <1>8 DEF Calm

(* The walk begins, at the client that has come last. *)
LEMMA OnInitWalk ==
  ASSUME IInv, WInv, Connected, NEW c \in Clients, OnInit(c)
  PROVE  WInv' /\ Connected'
<1> DEFINE f == Frame("init", c)
<1>1. /\ InLoop(c) /\ cstate[c] = "init" /\ stack' = <<f>> \o stack
      /\ UNCHANGED <<cstate, hungUp, timer>>
  BY DEF OnInit, Reads
<1>2. PICK shared \in BOOLEAN :
        /\ next' = [next EXCEPT ![c] = IF shared THEN {} ELSE Latest(Listed)]
        /\ met' = [met EXCEPT ![c] = IF shared THEN {} ELSE Listed \ {c}]
  BY DEF OnInit
<1>3. stack \in Seq(Frames) /\ f \in Frames /\ f.op = "init" /\ f.c = c
  BY CallTypes, DistinctCalls DEF IInv, TypeOK
<1>4. f \notin Elems(stack)
  BY <1>1, InnermostLoop
<1>5. Lives /\ Listed' = Listed
  BY <1>1 DEF Lives, Listed
<1>6. /\ next'[c] = IF shared THEN {} ELSE Latest(Listed)
      /\ met'[c] = IF shared THEN {} ELSE Listed \ {c}
      /\ \A d \in Clients \ {c} : next'[d] = next[d] /\ met'[d] = met[d]
  <2>1. next \in [Clients -> SUBSET Clients] /\ met \in [Clients -> SUBSET Clients]
    BY DEF IInv, TypeOK
  <2> QED BY <1>2, <2>1
<1>7. Clients \subseteq Nat /\ Listed \in SUBSET Nat
  BY HandshakeConstants DEF Listed
<1>8. \A m, n \in Latest(Listed) : m = n
  BY <1>7 DEF Latest
<1>9. WalkData' /\ Bounded'
  <2>1. \A d \in Clients : \A m, n \in next'[d] : m = n
    BY <1>6, <1>8 DEF WInv, WalkData
  <2>2. \A d \in Clients :
          met'[d] = met[d] \/ (d \notin met'[d] /\ met'[d] \subseteq Listed)
    BY <1>6
  <2> QED BY <1>5, <2>1, <2>2, WalkDataKept, BoundedKept DEF WInv
<1>10. ASSUME NEW e \in met'[c] PROVE ToCome(next', Listed', c, e)
  <2>1. e \in Listed /\ next'[c] = Latest(Listed)
    BY <1>6, <1>10
  <2>2. PICK n \in Nat : \A d \in Clients : cstate[d] # "none" => d <= n
    BY DEF WInv, Bounded
  <2>3. \A d \in Listed : d <= n
    BY <2>2 DEF Listed
  <2>4. Latest(Listed) # {}
    BY <1>7, <2>1, <2>3, LatestExists
  <2>5. PICK m \in Latest(Listed) : e <= m
    BY <2>1, <2>4 DEF Latest
  <2> QED BY <2>1, <2>5 DEF ToCome
<1>11. \A d \in Clients : \A e \in met[d] : e \in Clients /\ cstate[e] # "none"
  BY DEF WInv, WalkData, IInv, TypeOK
<1>12. \A d \in Clients : Frame("init", d) \in Elems(stack) => d # c
  BY <1>4
<1>13. ASSUME NEW d \in Clients, Frame("init", d) \in Elems(stack)
       PROVE  /\ met'[d] = met[d]
              /\ \A e \in met[d] : ToCome(next, Listed, d, e) => ToCome(next', Listed', d, e)
  <2>1. next'[d] = next[d] /\ met'[d] = met[d]
    BY <1>6, <1>12, <1>13
  <2> QED BY <1>5, <2>1 DEF ToCome
<1> HIDE DEF f
<1>14. Walk(<<f>> \o stack, next', met', Listed')
  BY <1>3, <1>10, <1>13, WalkPush DEF WInv
<1>15. Alone'
  <2>1. Head(<<f>> \o stack) = f
    BY <1>3, Push
  <2> QED BY <1>1, <1>3, <2>1 DEF Alone
<1>16. Connected'
  <2>1. \A d \in Clients :
          Frame("closing", d) \in Elems(stack') => Frame("closing", d) \in Elems(stack)
    BY <1>1, <1>3, PushConnected
  <2> QED BY <1>1, <2>1, MoveConnected
<1> QED BY <1>1, <1>9, <1>14, <1>15, <1>16 DEF WInv

LEMMA AuthFnReturnsWalk ==
  ASSUME IInv, WInv, Connected, AuthFnReturns
  PROVE  WInv' /\ Connected'
<1>1. /\ stack # << >> /\ Head(stack).op = "auth_fn" /\ stack' = Tail(stack)
      /\ UNCHANGED <<cstate, hungUp, timer, next, met>>
  BY DEF AuthFnReturns, CloseFrame, ListFrame, In
<1>2. Elems(Tail(stack)) \subseteq Elems(stack) /\ Head(stack).c \in Clients
  BY <1>1, PopStack
<1>3. Lives /\ Calm
  BY <1>1 DEF Lives, Calm
<1>4. Connected'
  BY <1>1, <1>2, MoveConnected
<1> QED BY <1>3, <1>4, CalmWalk

LEMMA NewClientReturnsWalk ==
  ASSUME IInv, WInv, Connected, NewClientReturns
  PROVE  WInv' /\ Connected'
<1> DEFINE c == Head(stack).c
<1>1. /\ stack # << >> /\ Head(stack).op = "new_client" /\ stack' = Tail(stack)
      /\ timer' = [timer EXCEPT ![c] = FALSE]
      /\ cstate' = [cstate EXCEPT ![c] = "ready"] /\ Alive(c)
      /\ UNCHANGED <<hungUp, next, met>>
  BY DEF NewClientReturns, CloseFrame, ListFrame, In
<1>2. Elems(Tail(stack)) \subseteq Elems(stack) /\ c \in Clients
  BY <1>1, PopStack
<1> HIDE DEF c
<1>3. "ready" \in States \ {"none", "closing", "closed"}
  BY DEF States, Waiting
<1>4. cstate[c] \notin {"none", "closing", "closed"}
  BY <1>1 DEF Alive
<1>5. Lives
  BY <1>1, <1>2, <1>3, <1>4, MoveLives
<1>6. Calm
  BY <1>1 DEF Calm
<1>7. \A d \in Clients : timer'[d] => timer[d]
  BY <1>1 DEF IInv, TypeOK
<1>8. Connected'
  BY <1>1, <1>2, <1>3, <1>4, <1>7, MoveConnected
<1> QED BY <1>5, <1>6, <1>8, CalmWalk

(* A client that is being closed is gone: the walk below can go on. *)
LEMMA ClosingEndsWalk ==
  ASSUME IInv, WInv, Connected, ClosingEnds
  PROVE  WInv' /\ Connected'
<1> DEFINE c == Head(stack).c
<1>1. /\ stack # << >> /\ Head(stack).op = "closing" /\ stack' = Tail(stack)
      /\ cstate' = [cstate EXCEPT ![c] = "closed"]
      /\ UNCHANGED <<hungUp, timer, next, met>>
  BY DEF ClosingEnds, CloseFrame, ListFrame, In
<1>2. /\ Elems(stack) = {Head(stack)} \cup Elems(Tail(stack))
      /\ \A f \in Elems(Tail(stack)) : f.op # "new_client"
      /\ c \in Clients /\ stack \in Seq(Frames) /\ Tail(stack) \in Seq(Frames)
      /\ Head(stack) \in Frames
  BY <1>1, PopStack DEF IInv, TypeOK
<1>3. Head(stack) = Frame("closing", c)
  BY <1>1, <1>2 DEF Frame, Frames
<1> HIDE DEF c
<1>4. cstate[c] \in {"closing", "closed"}
  BY <1>2, <1>3 DEF Connected
<1>5. /\ cstate'[c] = "closed" /\ \A d \in Clients \ {c} : cstate'[d] = cstate[d]
  BY <1>1, <1>2 DEF IInv, TypeOK
<1>6. Lives
  BY <1>4, <1>5 DEF Lives
<1>7. Connected'
  BY <1>1, <1>2, <1>4, <1>5 DEF Connected, Alive
<1>8. WalkData' /\ Bounded'
  BY <1>1, <1>6, WalkDataKept, BoundedKept DEF WInv, WalkData
<1>9. \A d \in Clients : \A e \in met[d] : e \in Clients /\ cstate[e] # "none"
  BY DEF WInv, WalkData, IInv, TypeOK
<1>10. \A d \in Clients : \A e \in met[d] :
         ToCome(next, Listed, d, e) => ToCome(next', Listed', d, e)
  BY <1>1, <1>6, <1>9, StillToCome
<1>11. Walk(stack, next', met', Listed')
  BY <1>1, <1>2, <1>10, WalkKeep DEF WInv
<1>12. \A d : Head(stack) = Frame("closing", d) => d \notin Listed'
  <2>1. \A d : Frame("closing", d).c = d
    BY DEF Frame
  <2> QED BY <1>3, <1>5, <2>1 DEF Listed
<1>13. Walk(stack', next', met', Listed')
  BY <1>1, <1>2, <1>11, <1>12, WalkPop
<1>14. Alone'
  <2>1. Tail(stack) # << >> => Head(Tail(stack)) \in Elems(Tail(stack))
    BY <1>2, Pop
  <2> QED BY <1>1, <1>2, <2>1 DEF Alone
<1> QED BY <1>7, <1>8, <1>13, <1>14 DEF WInv

LEMMA GoWildWalk ==
  ASSUME IInv, WInv, Connected, NEW c \in Clients, GoWild(c)
  PROVE  WInv' /\ Connected'
<1>1. /\ stack' = <<Frame("wild", c)>> \o stack
      /\ UNCHANGED <<cstate, hungUp, timer, next, met>>
  BY DEF GoWild, ListFrame
<1>2. Frame("wild", c) \in Frames /\ Frame("wild", c).op = "wild"
  BY CallTypes, DistinctCalls
<1>3. Lives /\ Calm
  BY <1>1, <1>2 DEF Lives, Calm
<1>4. Connected'
  BY <1>1, <1>2, MoveConnected, PushConnected
<1> QED BY <1>3, <1>4, CalmWalk

(* One step of the walk: the client at hand is closed, and the next one is  *)
(* the latest that came before it.                                          *)
LEMMA DisconnectWalk ==
  ASSUME IInv, WInv, Connected, NEW c \in Clients, NEW n \in next[c],
         In("init"), Head(stack).c = c, DisconnectNext(c, n)
  PROVE  WInv' /\ Connected'
<1>1. CASE GoWild(c)
  BY <1>1, GoWildWalk
<1>2. CASE ~GoWild(c)
  <2> DEFINE S == {d \in Listed : d < n}
             f == Frame("closing", n)
  <2>1. /\ n \in Listed /\ next' = [next EXCEPT ![c] = Latest(S)] /\ met' = met
        /\ IF n # c THEN Close(n, stack) ELSE UNCHANGED <<cstate, stack, hungUp, timer>>
    BY <1>2 DEF DisconnectNext, IsOther, ListNext
  <2> HIDE DEF S, f
  <2>2. n \in Clients /\ n \in Nat /\ cstate[n] \notin {"none", "closed"}
    BY <2>1, HandshakeConstants DEF Listed
  <2>3. /\ stack \in Seq(Frames) /\ stack # << >> /\ Head(stack).op = "init"
        /\ next \in [Clients -> SUBSET Clients]
    BY DEF IInv, TypeOK, In
  <2>4. Lives
    BY <2>1, <2>2, CloseLives DEF Lives
  <2>5. Connected'
    <3>1. CASE n # c
      BY <2>1, <2>2, <2>3, <3>1, CloseConnected
    <3>2. CASE n = c
      BY <2>1, <3>2, MoveConnected
    <3> QED BY <3>1, <3>2
  <2>6. next'[c] = Latest(S) /\ \A d \in Clients \ {c} : next'[d] = next[d]
    BY <2>1, <2>3
  <2>7. S \in SUBSET Nat /\ \A d \in S : d <= n
    <3>1. \A d \in S : d \in Clients /\ d < n
      BY DEF S, Listed
    <3>2. \A d \in S : d \in Nat /\ d < n
      BY <3>1, HandshakeConstants
    <3> QED BY <2>2, <3>2
  <2>8. WalkData' /\ Bounded'
    <3>1. \A m, k \in Latest(S) : m = k
      BY <2>7 DEF Latest
    <3>2. \A d \in Clients : \A m, k \in next'[d] : m = k
      BY <2>6, <3>1 DEF WInv, WalkData
    <3> QED BY <2>1, <2>4, <3>2, WalkDataKept, BoundedKept DEF WInv
  <2>9. \A d \in Clients : \A e \in met[d] : e \in Clients /\ cstate[e] # "none"
    BY DEF WInv, WalkData, IInv, TypeOK
  <2>10. \A d \in Clients \ {c} : \A e \in met[d] :
           ToCome(next, Listed, d, e) => ToCome(next', Listed', d, e)
    BY <2>4, <2>6, <2>9, StillToCome
  <2>11. ASSUME NEW e \in met[c], ToCome(next, Listed, c, e), e # n
         PROVE  ToCome(next', Listed', c, e)
    <3>1. CASE e \notin Listed
      BY <2>4, <2>9, <3>1 DEF Listed, Lives, ToCome
    <3>2. CASE e \in Listed
      <4>1. PICK m \in next[c] : e <= m
        BY <2>11, <3>2 DEF ToCome
      <4>2. m = n
        BY DEF WInv, WalkData
      <4>3. e \in Nat
        BY <2>9, HandshakeConstants
      <4>4. e \in S
        BY <2>2, <2>11, <3>2, <4>1, <4>2, <4>3 DEF S
      <4>5. Latest(S) # {}
        BY <2>2, <2>7, <4>4, LatestExists
      <4>6. PICK k \in Latest(S) : e <= k
        BY <4>4, <4>5 DEF Latest
      <4> QED BY <2>6, <4>6 DEF ToCome
    <3> QED BY <3>1, <3>2
  <2>12. CASE stack' = stack
    <3>1. \A e \in met[c] : e = n => e \notin Listed'
      <4>1. c \notin met[c]
        BY DEF WInv, WalkData
      <4>2. n # c => cstate'[n] = "closed"
        <5>1. stack # <<f>> \o stack
          <6>1. Len(<<f>> \o stack) = Len(stack) + 1 /\ Len(stack) \in Nat
            BY <2>3
          <6> QED BY <6>1
        <5>2. n # c => cstate' = [cstate EXCEPT ![n] = "closed"]
          BY <2>1, <2>12, <5>1 DEF Close, f
        <5> QED BY <2>2, <5>2 DEF IInv, TypeOK
      <4> QED BY <4>1, <4>2 DEF Listed
    <3>2. \A e \in met[c] : ToCome(next, Listed, c, e) => ToCome(next', Listed', c, e)
      BY <2>11, <3>1 DEF ToCome
    <3>3. Walk(stack, next', met', Listed')
      <4>1. \A d \in Clients :
              /\ met'[d] = met[d]
              /\ \A e \in met[d] :
                   ToCome(next, Listed, d, e) => ToCome(next', Listed', d, e)
        BY <2>1, <2>10, <3>2
      <4>2. Walk(stack, next, met, Listed)
        BY DEF WInv
      <4> QED BY <2>3, <4>1, <4>2, WalkKeep
    <3>4. Alone'
      BY <2>3, <2>12 DEF Alone
    <3> QED BY <2>5, <2>8, <2>12, <3>3, <3>4 DEF WInv
  <2>13. CASE stack' = <<f>> \o stack
    <3>1. f \in Frames /\ f.op = "closing"
      BY <2>2, CallTypes, DistinctCalls DEF f
    <3>2. \A e \in met[c] : ToCome(next, Listed, c, e) =>
            ToCome(next', Listed', c, e) \/ f = Frame("closing", e)
      BY <2>11 DEF f
    <3>3. Walk(<<f>> \o stack, next', met', Listed')
      <4>1. \A d \in Clients :
              /\ met'[d] = met[d]
              /\ \A e \in met[d] : ToCome(next, Listed, d, e) =>
                   ToCome(next', Listed', d, e) \/ f = Frame("closing", e)
        BY <2>1, <2>10, <3>2
      <4>2. Walk(stack, next, met, Listed)
        BY DEF WInv
      <4> QED BY <2>3, <3>1, <4>1, <4>2, WalkPush
    <3>4. Alone'
      <4>1. Head(<<f>> \o stack) = f
        BY <2>3, <3>1, Push
      <4> QED BY <2>13, <3>1, <4>1 DEF Alone
    <3> QED BY <2>5, <2>8, <2>13, <3>3, <3>4 DEF WInv
  <2>14. stack' = stack \/ stack' = <<f>> \o stack
    BY <2>1 DEF Close, f
  <2> QED BY <2>12, <2>13, <2>14
<1> QED BY <1>1, <1>2

(* The walk is at its end: nobody that was to be disconnected is left. *)
LEMMA ServerInitWalk ==
  ASSUME IInv, WInv, Connected, NEW c \in Clients,
         In("init"), Head(stack).c = c, next[c] = {}, ServerInit(c)
  PROVE  WInv' /\ Connected'
<1>1. CASE GoWild(c)
  BY <1>1, GoWildWalk
<1>2. CASE ~GoWild(c)
  <2>1. /\ Alive(c) /\ next' = next /\ met' = met
        /\ \/ Close(c, Tail(stack))
           \/ /\ stack' = <<Frame("new_client", c)>> \o Tail(stack)
              /\ UNCHANGED <<cstate, hungUp, timer>>
    BY <1>2 DEF ServerInit, CloseFrame, ListFrame
  <2>2. /\ stack # << >> /\ Head(stack).op = "init" /\ stack \in Seq(Frames)
        /\ Tail(stack) \in Seq(Frames) /\ Head(stack) \in Frames
        /\ Elems(stack) = {Head(stack)} \cup Elems(Tail(stack))
    BY PopStack DEF In, IInv, TypeOK
  <2>3. Head(stack) = Frame("init", c)
    BY <2>2 DEF Frame, Frames
  <2>4. cstate[c] = "init"
    BY <2>1, <2>2, <2>3 DEF IInv, Suspended, Alive
  <2>5. CASE Close(c, Tail(stack))
    <3>1. stack' = Tail(stack)
      BY <2>4, <2>5 DEF Close
    <3>2. Lives
      BY <2>4, <2>5, CloseLives
    <3>3. Connected'
      BY <2>2, <2>5, CloseConnected
    <3>4. Calm
      BY <2>1, <2>2, <3>1 DEF Calm
    <3> QED BY <3>2, <3>3, <3>4, CalmWalk
  <2>6. CASE /\ stack' = <<Frame("new_client", c)>> \o Tail(stack)
             /\ UNCHANGED <<cstate, hungUp, timer>>
    <3> DEFINE f == Frame("new_client", c)
    <3>1. f \in Frames /\ f.op = "new_client" /\ f.c = c
      BY CallTypes, DistinctCalls
    <3>2. stack' = <<f>> \o Tail(stack) /\ Listed' = Listed /\ Lives
      BY <2>6 DEF Listed, Lives
    <3>3. \A d \in Clients : Frame("closing", d) # f
      BY DEF Frame
    <3> HIDE DEF f
    <3>4. \A d : Head(stack) # Frame("closing", d)
      BY <2>2 DEF Frame
    <3>5. Walk(Tail(stack), next, met, Listed)
      BY <2>2, <3>4, WalkPop DEF WInv
    <3>6. Walk(<<f>> \o Tail(stack), next', met', Listed')
      BY <2>1, <2>2, <3>1, <3>2, <3>5, WalkPush
    <3>7. WalkData' /\ Bounded'
      BY <2>1, <3>2, WalkDataKept, BoundedKept DEF WInv, WalkData
    <3>8. /\ Elems(<<f>> \o Tail(stack)) = {f} \cup Elems(Tail(stack))
          /\ Head(<<f>> \o Tail(stack)) = f
          /\ <<f>> \o Tail(stack) # << >>
      <4> DEFINE r == Tail(stack)
      <4>1. r \in Seq(Frames)
        BY <2>2
      <4> HIDE DEF r
      <4>2. /\ Elems(<<f>> \o r) = {f} \cup Elems(r)
            /\ Head(<<f>> \o r) = f /\ <<f>> \o r # << >>
        BY <3>1, <4>1, Push
      <4> QED BY <4>2 DEF r
    <3>9. Connected'
      BY <2>2, <2>6, <3>2, <3>3, <3>8, MoveConnected
    <3>10. met[c] \cap Listed = {}
      <4>1. Len(stack) \in Nat /\ Len(stack) > 0 /\ stack[1] = Head(stack)
        BY <2>2
      <4>2. 1 \in 1..Len(stack) /\ \A j \in 1..Len(stack) : ~(j < 1)
        BY <4>1
      <4>3. \A d \in met[c] : ToCome(next, Listed, c, d)
        BY <2>2, <4>1, <4>2 DEF WInv, Walk
      <4> QED BY <4>3 DEF ToCome
    <3>11. Alone'
      BY <2>1, <3>1, <3>2, <3>8, <3>10 DEF Alone
    <3> QED BY <3>2, <3>6, <3>7, <3>9, <3>11 DEF WInv
  <2> QED BY <2>1, <2>5, <2>6
<1> QED BY <1>1, <1>2

LEMMA NextWalk ==
  ASSUME IInv, WInv, Connected, [Next]_vars
  PROVE  WInv' /\ Connected'
<1>1. CASE InitGoesOn
  <2> DEFINE c == Head(stack).c
  <2>1. In("init") /\ c \in Clients
    BY <1>1, PopStack DEF InitGoesOn, In
  <2>2. \/ \E n \in next[c] : DisconnectNext(c, n)
        \/ next[c] = {} /\ ServerInit(c)
    BY <1>1 DEF InitGoesOn
  <2>3. Head(stack).c = c
    OBVIOUS
  <2> HIDE DEF c
  <2> QED BY <2>1, <2>2, <2>3, DisconnectWalk, ServerInitWalk
<1>2. CASE AuthFnReturns \/ NewClientReturns \/ ClosingEnds
  BY <1>2, AuthFnReturnsWalk, NewClientReturnsWalk, ClosingEndsWalk
<1>3. ASSUME NEW c \in Clients, OnInit(c) PROVE WInv' /\ Connected'
  BY <1>3, OnInitWalk
<1>4. ASSUME NEW c \in Clients, Handler(c), ~OnInit(c) PROVE WInv' /\ Connected'
  BY <1>4, HandlerCalm, CalmWalk
<1>5. ASSUME NEW c \in Clients,
             \/ AcceptCreds(c) \/ RejectCreds(c) \/ CloseClient(c)
             \/ OnConnection(c) \/ OnClientEvent(c) \/ RemoteClosed(c)
             \/ DeferredClose(c) \/ OnHandshakeTimeout(c)
      PROVE  WInv' /\ Connected'
  BY <1>5, EventCalm, CalmWalk
<1>6. CASE UNCHANGED vars
  <2>1. UNCHANGED <<cstate, stack, timer, hungUp, next, met>>
    BY <1>6 DEF vars
  <2>2. Lives /\ Calm
    BY <2>1 DEF Lives, Calm
  <2>3. Connected'
    BY <2>1 DEF Connected, Alive
  <2> QED BY <2>2, <2>3, CalmWalk
<1> QED BY <1>1, <1>2, <1>3, <1>4, <1>5, <1>6 DEF Next, Return

LEMMA InitWalk == Init => WInv /\ Connected
<1> SUFFICES ASSUME Init PROVE WInv /\ Connected
  OBVIOUS
<1>1. /\ stack = << >> /\ Len(<< >>) = 0
      /\ \A c \in Clients :
           /\ cstate[c] = "none" /\ next[c] = {} /\ met[c] = {}
           /\ ~timer[c] /\ ~hungUp[c]
  BY DEF Init
<1>2. Elems(stack) = {} /\ Walk(stack, next, met, Listed)
  BY <1>1 DEF Elems, Walk
<1>3. WalkData /\ Alone /\ Connected
  BY <1>1, <1>2 DEF WalkData, Alone, Connected
<1>4. Bounded
  BY <1>1 DEF Bounded
<1> QED BY <1>2, <1>3, <1>4 DEF WInv

(* Only new_client_fn's return makes a client ready. *)
LEMMA BecomesReady ==
  ASSUME IInv, Connected, [Next]_vars, NEW c \in Clients,
         cstate[c] # "ready", cstate'[c] = "ready"
  PROVE  stack # << >> /\ Head(stack).op = "new_client" /\ Head(stack).c = c
<1>1. cstate \in [Clients -> States]
  BY DEF IInv, TypeOK
<1>2. ASSUME NEW e, NEW t \in States \ {"ready"}, cstate' = [cstate EXCEPT ![e] = t]
      PROVE  FALSE
  BY <1>1, <1>2
<1>3. ASSUME NEW e, NEW rest, Close(e, rest) PROVE FALSE
  BY <1>2, <1>3 DEF Close, States
<1>4. ~UNCHANGED cstate
  OBVIOUS
<1>5. \A t \in Waiting : t \in States \ {"ready"}
  BY DEF Waiting, States
<1>6. ASSUME NEW e \in Clients, Handler(e) PROVE FALSE
  <2>1. \A t \in DOMAIN FirstState : FirstState[t] \in Waiting
    BY DEF FirstState, Waiting
  <2>2. \/ \E t \in Waiting : cstate' = [cstate EXCEPT ![e] = t]
        \/ \E rest : Close(e, rest)
        \/ UNCHANGED cstate
    BY <1>6, <2>1
    DEF Handler, LoopEnds, OnVersion, OnVersion33, OnSecurity,
        OnVencryptVersion, OnVencryptSubtype, OnVencryptPlainAuth,
        OnRsaPublicKey, OnRsaChallenge, OnRsaClientHash, OnRsaCredentials,
        DesAuthResponse, AppleDhResponse, OnInit, Exchange, Advance,
        Authenticate, FailHandshake, Waiting
  <2> QED BY <1>2, <1>3, <1>4, <1>5, <2>2
<1>7. ASSUME NEW e \in Clients,
             \/ AcceptCreds(e) \/ RejectCreds(e) \/ CloseClient(e)
             \/ OnConnection(e) \/ OnClientEvent(e) \/ RemoteClosed(e)
             \/ DeferredClose(e) \/ OnHandshakeTimeout(e)
      PROVE  FALSE
  <2>1. \/ \E t \in {"init", "version"} : cstate' = [cstate EXCEPT ![e] = t]
        \/ Close(e, stack)
        \/ UNCHANGED cstate
    BY <1>7 DEF AcceptCreds, RejectCreds, CloseClient, OnConnection,
                OnClientEvent, RemoteClosed, DeferredClose, OnHandshakeTimeout
  <2>2. {"init", "version"} \subseteq Waiting
    BY DEF Waiting
  <2> QED BY <1>2, <1>3, <1>4, <1>5, <2>1, <2>2
<1>8. ASSUME InitGoesOn PROVE FALSE
  <2>1. \/ \E e, rest : Close(e, rest)
        \/ UNCHANGED cstate
    BY <1>8 DEF InitGoesOn, DisconnectNext, ServerInit, GoWild
  <2> QED BY <1>3, <1>4, <2>1
<1>9. ASSUME ClosingEnds PROVE FALSE
  BY <1>2, <1>9 DEF ClosingEnds, States
<1>10. NewClientReturns
  BY <1>4, <1>6, <1>7, <1>8, <1>9 DEF Next, Return, AuthFnReturns, vars
<1>11. /\ stack # << >> /\ Head(stack).op = "new_client"
       /\ cstate' = [cstate EXCEPT ![Head(stack).c] = "ready"]
  BY <1>10 DEF NewClientReturns, In
<1>12. c = Head(stack).c
  BY <1>1, <1>11
<1> QED BY <1>11, <1>12

(* When on_init_message makes a client ready that asked for exclusive       *)
(* access, everybody it found in the list is gone, whatever happened in the *)
(* event loops that closing them ran: clients that came, went, were closed  *)
(* from elsewhere or asked for the same.                                    *)
THEOREM ExclusiveAlone == Spec => ExclusiveAccess
<1>1. Init => WInv /\ Connected
  BY InitWalk
<1>2. IInv /\ WInv /\ Connected /\ [Next]_vars => (WInv /\ Connected)'
  BY NextWalk
<1>3. IInv /\ WInv /\ Connected /\ [Next]_vars =>
        [\A c \in Clients :
           cstate[c] # "ready" /\ cstate'[c] = "ready" => met[c] \cap Listed = {}]_cstate
  <2> SUFFICES ASSUME IInv, WInv, Connected, [Next]_vars, NEW c \in Clients,
                      cstate[c] # "ready", cstate'[c] = "ready"
               PROVE  met[c] \cap Listed = {}
    OBVIOUS
  <2>1. stack # << >> /\ Head(stack).op = "new_client" /\ Head(stack).c = c
    BY BecomesReady
  <2> QED BY <2>1 DEF WInv, Alone
<1> QED BY <1>1, <1>2, <1>3, Invariant, PTL DEF Spec, ExclusiveAccess

=============================================================================
