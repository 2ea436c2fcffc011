--------------------------- MODULE FbUpdateProofs ---------------------------
(***************************************************************************)
(* Proofs about FbUpdate, for every set of messages and application calls, *)
(* any number of them and every size of the message buffer.                *)
(***************************************************************************)
EXTENDS FbUpdate, SequenceTheorems, FiniteSetTheorems, TLAPS

-----------------------------------------------------------------------------
(* The call stack. *)

(* The calls of a stack. *)
On(s) == {s[i] : i \in 1..Len(s)}

LEMMA Push ==
  ASSUME NEW S, NEW c \in S, NEW s \in Seq(S)
  PROVE  /\ <<c>> \o s \in Seq(S) /\ <<c>> \o s # << >>
         /\ Head(<<c>> \o s) = c /\ Tail(<<c>> \o s) = s
         /\ On(<<c>> \o s) = {c} \cup On(s)
<1> DEFINE t == <<c>> \o s
<1>1. <<c>> \in Seq(S) /\ Len(<<c>>) = 1 /\ <<c>>[1] = c
  OBVIOUS
<1>2. /\ t \in Seq(S) /\ Len(t) = 1 + Len(s)
      /\ \A i \in 1..1 + Len(s) : t[i] = IF i <= 1 THEN <<c>>[i] ELSE s[i - 1]
  BY <1>1, ConcatProperties
<1>3. Len(s) \in Nat
  OBVIOUS
<1>4. t[1] = c /\ \A i \in 1..Len(s) : t[i + 1] = s[i]
  BY <1>1, <1>2, <1>3
<1>5. t # << >>
  BY <1>2, <1>3
<1>6. Head(t) = c
  BY <1>2, <1>4, <1>5
<1>7. Tail(t) = s
  <2>1. /\ Tail(t) \in Seq(S) /\ Len(Tail(t)) = Len(t) - 1
        /\ \A i \in 1..Len(Tail(t)) : Tail(t)[i] = t[i + 1]
    BY <1>2, <1>5, HeadTailProperties
  <2>2. Len(Tail(t)) = Len(s)
    BY <1>2, <1>3, <2>1
  <2> HIDE DEF t
  <2> QED BY <1>4, <2>1, <2>2, SeqEqual
<1>8. On(t) = {c} \cup On(s)
  <2>1. \A i \in 1..Len(t) : i = 1 \/ (i - 1 \in 1..Len(s) /\ t[i] = s[i - 1])
    BY <1>2, <1>3
  <2>2. \A i \in 1..Len(s) : i + 1 \in 1..Len(t)
    BY <1>2, <1>3
  <2>3. 1 \in 1..Len(t)
    BY <1>2, <1>3
  <2> HIDE DEF t
  <2> QED BY <1>4, <2>1, <2>2, <2>3 DEF On
<1> QED
  BY <1>2, <1>5, <1>6, <1>7, <1>8

LEMMA PushTwo ==
  ASSUME NEW S, NEW c \in S, NEW d \in S, NEW s \in Seq(S)
  PROVE  <<c, d>> \o s = <<c>> \o (<<d>> \o s)
<1>1. <<c, d>> = <<c>> \o <<d>>
  <2>1. /\ <<c>> \in Seq(S) /\ <<d>> \in Seq(S) /\ <<c, d>> \in Seq(S)
        /\ Len(<<c>>) = 1 /\ Len(<<d>>) = 1 /\ Len(<<c, d>>) = 2
    OBVIOUS
  <2>2. /\ <<c>> \o <<d>> \in Seq(S) /\ Len(<<c>> \o <<d>>) = 2
        /\ (<<c>> \o <<d>>)[1] = c /\ (<<c>> \o <<d>>)[2] = d
    BY <2>1, ConcatProperties
  <2>3. \A i \in 1..2 : <<c, d>>[i] = (<<c>> \o <<d>>)[i]
    <3>1. \A i \in 1..2 : i = 1 \/ i = 2
      OBVIOUS
    <3> QED BY <2>2, <3>1
  <2> QED BY <2>1, <2>2, <2>3, SeqEqual
<1>2. <<c>> \in Seq(S) /\ <<d>> \in Seq(S)
  OBVIOUS
<1> QED BY <1>1, <1>2, ConcatAssociative

LEMMA Pop ==
  ASSUME NEW S, NEW s \in Seq(S), s # << >>
  PROVE  /\ Head(s) \in S /\ Tail(s) \in Seq(S)
         /\ On(s) = {Head(s)} \cup On(Tail(s))
<1>1. /\ Head(s) \in S /\ Tail(s) \in Seq(S) /\ Len(Tail(s)) = Len(s) - 1
      /\ \A i \in 1..Len(Tail(s)) : Tail(s)[i] = s[i + 1]
      /\ Head(s) = s[1] /\ Len(s) \in Nat /\ Len(s) # 0
  BY HeadTailProperties
<1>2. \A i \in 1..Len(s) : i = 1 \/ (i - 1 \in 1..Len(Tail(s)) /\ s[i] = Tail(s)[i - 1])
  BY <1>1
<1>3. \A i \in 1..Len(Tail(s)) : i + 1 \in 1..Len(s)
  BY <1>1
<1>4. 1 \in 1..Len(s)
  BY <1>1
<1>5. On(s) = {Head(s)} \cup On(Tail(s))
  <2>1. \A c \in On(s) : c = Head(s) \/ c \in On(Tail(s))
    BY <1>1, <1>2 DEF On
  <2>2. Head(s) \in On(s)
    BY <1>1, <1>4 DEF On
  <2>3. \A c \in On(Tail(s)) : c \in On(s)
    BY <1>1, <1>3 DEF On
  <2> QED BY <2>1, <2>2, <2>3
<1> QED BY <1>1, <1>5

LEMMA OnEmpty == On(<< >>) = {}
BY DEF On

-----------------------------------------------------------------------------
(* The queue of the stream. *)

(* What is on its way to the client. *)
Fresh(q) == UNION {q[i].fresh : i \in DOMAIN q}

None(q) == Callbacks(q) = {}
One(q) == \E i : Callbacks(q) = {i}

LEMMA Joined ==
  ASSUME NEW q \in Seq(Requests), NEW r \in Seq(Requests)
  PROVE  /\ q \o r \in Seq(Requests)
         /\ None(q \o r) <=> None(q) /\ None(r)
         /\ One(q) /\ None(r) => One(q \o r)
         /\ None(q) /\ One(r) => One(q \o r)
         /\ Fresh(q \o r) = Fresh(q) \cup Fresh(r)
<1> DEFINE t == q \o r
<1>1. /\ t \in Seq(Requests) /\ Len(t) = Len(q) + Len(r)
      /\ \A i \in 1..Len(q) + Len(r) : t[i] = IF i <= Len(q) THEN q[i] ELSE r[i - Len(q)]
  BY ConcatProperties
<1>2. Len(q) \in Nat /\ Len(r) \in Nat
  OBVIOUS
<1>3. DOMAIN t = 1..Len(t) /\ DOMAIN q = 1..Len(q) /\ DOMAIN r = 1..Len(r)
  BY <1>1
<1>4. \A i \in DOMAIN q : i \in DOMAIN t /\ t[i] = q[i]
  BY <1>1, <1>2, <1>3
<1>5. \A i \in DOMAIN r : i + Len(q) \in DOMAIN t /\ t[i + Len(q)] = r[i]
  BY <1>1, <1>2, <1>3
<1>6. \A i \in DOMAIN t : \/ i \in DOMAIN q
                          \/ i - Len(q) \in DOMAIN r /\ t[i] = r[i - Len(q)]
  BY <1>1, <1>2, <1>3
<1> HIDE DEF t
<1>7. None(t) <=> None(q) /\ None(r)
  BY <1>4, <1>5, <1>6 DEF None, Callbacks
<1>8. ASSUME One(q), None(r) PROVE One(t)
  <2>1. PICK i : Callbacks(q) = {i}
    BY <1>8 DEF One
  <2>2. Callbacks(t) = {i}
    BY <1>4, <1>6, <1>8, <2>1 DEF Callbacks, None
  <2> QED BY <2>2 DEF One
<1>9. ASSUME None(q), One(r) PROVE One(t)
  <2>1. PICK i : Callbacks(r) = {i}
    BY <1>9 DEF One
  <2>2. i \in DOMAIN r /\ IsFrame(r[i]) /\ \A j \in DOMAIN r : IsFrame(r[j]) => j = i
    BY <2>1 DEF Callbacks
  <2>3. i + Len(q) \in Callbacks(t)
    BY <1>5, <2>2 DEF Callbacks
  <2>4. \A j \in Callbacks(t) : j = i + Len(q)
    <3>1. TAKE j \in Callbacks(t)
    <3>2. j \in DOMAIN t /\ IsFrame(t[j])
      BY DEF Callbacks
    <3>3. j \notin DOMAIN q
      BY <1>4, <1>9, <3>2 DEF None, Callbacks
    <3>4. j - Len(q) = i
      BY <1>6, <2>2, <3>2, <3>3
    <3>5. j \in Int
      BY <1>3, <3>2
    <3> QED BY <1>2, <3>4, <3>5
  <2> QED BY <2>3, <2>4 DEF One
<1>10. Fresh(t) = Fresh(q) \cup Fresh(r)
  <2>1. Fresh(t) \subseteq Fresh(q) \cup Fresh(r)
    BY <1>4, <1>6 DEF Fresh
  <2>2. Fresh(q) \subseteq Fresh(t)
    BY <1>4 DEF Fresh
  <2>3. Fresh(r) \subseteq Fresh(t)
    BY <1>5 DEF Fresh
  <2> QED BY <2>1, <2>2, <2>3
<1> QED
  BY <1>1, <1>7, <1>8, <1>9, <1>10 DEF t

(* A flush that takes k requests. *)
Front(q, k) == SubSeq(q, 1, k)
Rest(q, k) == SubSeq(q, k + 1, Len(q))

LEMMA Cut ==
  ASSUME NEW q \in Seq(Requests), NEW k \in 0..Len(q)
  PROVE  /\ Front(q, k) \in Seq(Requests) /\ Rest(q, k) \in Seq(Requests)
         /\ None(q) => None(Front(q, k)) /\ None(Rest(q, k))
         /\ One(q) => \/ One(Front(q, k)) /\ None(Rest(q, k))
                      \/ None(Front(q, k)) /\ One(Rest(q, k))
         /\ Fresh(q) \subseteq Fresh(Front(q, k)) \cup Fresh(Rest(q, k))
<1> DEFINE front == Front(q, k)
           rest == Rest(q, k)
<1>1. Len(q) \in Nat /\ k \in Int
  OBVIOUS
<1>2. /\ front \in Seq(Requests) /\ Len(front) = k
      /\ \A i \in 1..k : front[i] = q[i]
  <2>1. \A i \in 1..k : q[i] \in Requests
    BY <1>1
  <2>2. /\ SubSeq(q, 1, k) \in Seq(Requests)
        /\ Len(SubSeq(q, 1, k)) = IF 1 <= k THEN k - 1 + 1 ELSE 0
        /\ \A i \in 1..k - 1 + 1 : SubSeq(q, 1, k)[i] = q[1 + i - 1]
    BY <1>1, <2>1, SubSeqProperties
  <2> QED BY <1>1, <2>2 DEF Front
<1>3. /\ rest \in Seq(Requests) /\ Len(rest) = Len(q) - k
      /\ \A i \in 1..Len(q) - k : rest[i] = q[k + i]
  <2>1. \A i \in k + 1..Len(q) : q[i] \in Requests
    BY <1>1
  <2>2. /\ SubSeq(q, k + 1, Len(q)) \in Seq(Requests)
        /\ Len(SubSeq(q, k + 1, Len(q))) = IF k + 1 <= Len(q) THEN Len(q) - (k + 1) + 1 ELSE 0
        /\ \A i \in 1..Len(q) - (k + 1) + 1 : SubSeq(q, k + 1, Len(q))[i] = q[k + 1 + i - 1]
    BY <1>1, <2>1, SubSeqProperties
  <2> QED BY <1>1, <2>2 DEF Rest
<1> HIDE DEF front, rest
<1>4. /\ DOMAIN front = 1..k /\ DOMAIN rest = 1..Len(q) - k /\ DOMAIN q = 1..Len(q)
      /\ \A i \in DOMAIN front : i \in DOMAIN q /\ front[i] = q[i]
      /\ \A i \in DOMAIN rest : i + k \in DOMAIN q /\ i + k \notin DOMAIN front /\ rest[i] = q[i + k]
      /\ \A i \in DOMAIN q : i \in DOMAIN front \/ (i - k \in DOMAIN rest /\ rest[i - k] = q[i])
  <2>1. DOMAIN front = 1..k /\ DOMAIN rest = 1..Len(q) - k /\ DOMAIN q = 1..Len(q)
    BY <1>2, <1>3
  <2>2. \A i \in DOMAIN front : i \in DOMAIN q /\ front[i] = q[i]
    BY <1>1, <1>2, <2>1
  <2>3. \A i \in DOMAIN rest : i + k \in DOMAIN q /\ i + k \notin DOMAIN front /\ rest[i] = q[i + k]
    BY <1>1, <1>3, <2>1
  <2>4. \A i \in DOMAIN q : i \in DOMAIN front \/ (i - k \in DOMAIN rest /\ rest[i - k] = q[i])
    BY <1>1, <1>3, <2>1
  <2> QED BY <2>1, <2>2, <2>3, <2>4
<1>5. ASSUME None(q) PROVE None(front) /\ None(rest)
  BY <1>4, <1>5 DEF None, Callbacks
<1>6. ASSUME One(q) PROVE (One(front) /\ None(rest)) \/ (None(front) /\ One(rest))
  <2>1. PICK i : Callbacks(q) = {i}
    BY <1>6 DEF One
  <2>2. i \in DOMAIN q /\ IsFrame(q[i]) /\ \A j \in DOMAIN q : IsFrame(q[j]) => j = i
    BY <2>1 DEF Callbacks
  <2>3. CASE i \in DOMAIN front
    <3>1. Callbacks(front) = {i}
      BY <1>4, <2>2, <2>3 DEF Callbacks
    <3>2. None(rest)
      BY <1>4, <2>2, <2>3 DEF Callbacks, None
    <3> QED BY <3>1, <3>2 DEF One
  <2>4. CASE i \notin DOMAIN front
    <3>1. None(front)
      BY <1>4, <2>2, <2>4 DEF Callbacks, None
    <3>2. i - k \in DOMAIN rest /\ rest[i - k] = q[i]
      BY <1>4, <2>2, <2>4
    <3>3. \A j \in DOMAIN rest : IsFrame(rest[j]) => j + k = i
      BY <1>4, <2>2
    <3>4. \A j \in DOMAIN rest : IsFrame(rest[j]) => j = i - k
      BY <1>1, <1>4, <3>3
    <3>5. Callbacks(rest) = {i - k}
      BY <2>2, <3>2, <3>4 DEF Callbacks
    <3> QED BY <3>1, <3>5 DEF One
  <2> QED BY <2>3, <2>4
<1>7. Fresh(q) \subseteq Fresh(front) \cup Fresh(rest)
  <2>1. SUFFICES ASSUME NEW i \in DOMAIN q, NEW x \in q[i].fresh
                 PROVE  x \in Fresh(front) \cup Fresh(rest)
    BY DEF Fresh
  <2>2. CASE i \in DOMAIN front
    BY <1>4, <2>2 DEF Fresh
  <2>3. CASE i - k \in DOMAIN rest /\ rest[i - k] = q[i]
    BY <2>3 DEF Fresh
  <2> QED BY <1>4, <2>2, <2>3
<1> QED
  BY <1>2, <1>3, <1>5, <1>6, <1>7 DEF front, rest

LEMMA OneCallback ==
  ASSUME NEW q, One(q)
  PROVE  Cardinality(Callbacks(q)) = 1
BY FS_Singleton DEF One

-----------------------------------------------------------------------------
(* Types. *)

(* What stream_send changes, and the rest. *)
SendTypes ==
  /\ state \in {"normal", "closed"}
  /\ queue \in Seq(Requests)
  /\ pollout \in BOOLEAN /\ cork \in BOOLEAN
  /\ stack \in Seq(Frames)
  /\ isUpdating \in BOOLEAN /\ closeTask \in BOOLEAN
  /\ stale \subseteq Areas /\ pings \in Int

LoopTypes ==
  /\ net \in Seq(Messages)
  /\ buffer \in Seq(Messages) /\ Len(buffer) <= BufferSize
  /\ isProcessing \in BOOLEAN
  /\ nMsgs \in 0..MaxMsgs /\ nEvents \in 0..MaxEvents
  /\ fence \in [n : Nat, flags : SUBSET FenceFlags]
  /\ isBlocked \in BOOLEAN /\ mustBlock \in BOOLEAN
  /\ encodings \subseteq Encodings
  /\ formatsChanged \in BOOLEAN /\ cuNotified \in BOOLEAN
  /\ cu \in BOOLEAN /\ cuArea \subseteq Areas /\ cuEver \in BOOLEAN

UpdateTypes ==
  /\ layout \in Layouts /\ knownLayout \in Layouts \cup {NoLayout}
  /\ nPending \in Int
  /\ damage \subseteq Areas
  /\ due \subseteq {"ext", "cursor", "name", "led"}
  /\ job \in Jobs /\ onDone \in BOOLEAN
  /\ inflight \in Int /\ owed \in Int
  /\ life \in Lives /\ aborted \in BOOLEAN

LEMMA TypeParts ==
  /\ TypeOK <=> SendTypes /\ LoopTypes /\ UpdateTypes
  /\ TypeOK' <=> SendTypes' /\ LoopTypes' /\ UpdateTypes'
BY DEF TypeOK, SendTypes, LoopTypes, UpdateTypes

LEMMA CallTypes ==
  /\ \A op \in Calls \ {"pfb", "dec", "dec2"} : Call(op) \in Frames
  /\ \A at \in 0..5 : CallAt("pfb", at) \in Frames
  /\ \A at \in 1..4 : CallAt("dec", at) \in Frames /\ CallAt("dec2", at) \in Frames
BY DEF Call, CallAt, Frames, Calls

LEMMA ItemType ==
  ASSUME NEW kind \in {"update", "fence", "ping", "other"}
  PROVE  /\ <<Item(kind)>> \in Seq(Requests) /\ None(<<Item(kind)>>)
<1>1. Item(kind) \in Requests /\ ~IsFrame(Item(kind))
  BY DEF Item, Requests, IsFrame
<1> QED BY <1>1 DEF None, Callbacks

LEMMA MessageTypes ==
  ASSUME NEW m \in Messages
  PROVE  /\ m.type = "fbu" => m.inc \in BOOLEAN /\ m.area \subseteq Areas
         /\ m.type = "setEncodings" => m.encs \subseteq Encodings
         /\ m.type = "cu" => m.on \in BOOLEAN /\ m.area \subseteq Areas
         /\ m.type = "fence" => m.flags \subseteq FenceFlags
BY DEF Messages

LEMMA DeliverType ==
  ASSUME SendTypes, NEW items \in Seq(Requests), Deliver(items)
  PROVE  stale' \subseteq Areas /\ pings' \in Int
<1>1. stale' \subseteq Areas
  BY DEF SendTypes, Deliver
<1>2. Cardinality({i \in DOMAIN items : items[i].kind = "ping"}) \in Nat
  <2>1. IsFiniteSet(1..Len(items))
    BY FS_Interval
  <2>2. {i \in DOMAIN items : items[i].kind = "ping"} \subseteq 1..Len(items)
    OBVIOUS
  <2>3. IsFiniteSet({i \in DOMAIN items : items[i].kind = "ping"})
    BY <2>1, <2>2, FS_Subset
  <2> QED BY <2>3, FS_CardinalityType
<1> QED BY <1>1, <1>2 DEF SendTypes, Deliver

LEMMA CompletesType ==
  ASSUME NEW q \in Seq(Requests), NEW ok \in Seq(Frames)
  PROVE  [i \in 1..Cardinality(Callbacks(q)) |-> Call("complete")]
           \o <<Call("uncork")>> \o ok \in Seq(Frames)
<1>1. Cardinality(Callbacks(q)) \in Nat
  <2>1. IsFiniteSet(1..Len(q))
    BY FS_Interval
  <2>2. IsFiniteSet(Callbacks(q))
    BY <2>1, FS_Subset DEF Callbacks
  <2> QED BY <2>2, FS_CardinalityType
<1>2. Call("complete") \in Frames /\ Call("uncork") \in Frames
  BY CallTypes DEF Calls
<1>3. [i \in 1..Cardinality(Callbacks(q)) |-> Call("complete")] \in Seq(Frames)
  BY <1>1, <1>2
<1> QED BY <1>2, <1>3, ConcatProperties

(* The three ways in which stream_tcp__flush ends: k requests were taken,   *)
(* the peer is gone, or an error that nobody handles.                       *)
Taken(q, ok, k, partly) ==
  LET done == Callbacks(SubSeq(q, 1, k)) IN
  /\ SendTakes(q, k, partly)
  /\ Deliver(SubSeq(q, 1, k))
  /\ cork' = (done # {})
  /\ stack' = IF done = {} THEN ok
              ELSE [i \in 1..Cardinality(done) |-> Call("complete")]
                     \o <<Call("uncork")>> \o ok
  /\ UNCHANGED <<isUpdating, closeTask>>

Gone(q, bad) ==
  /\ StreamClose
  /\ isUpdating' = (isUpdating /\ Callbacks(q) = {})
  /\ closeTask' = TRUE
  /\ stack' = bad
  /\ UNCHANGED <<stale, pings>>

Failed(q, bad) ==
  /\ SendFails(q)
  /\ stack' = bad
  /\ UNCHANGED <<isUpdating, closeTask, stale, pings>>

LEMMA FlushEnds ==
  ASSUME NEW q, NEW ok, NEW bad, Flush(q, ok, bad)
  PROVE  \/ \E k \in 0..Len(q), partly \in BOOLEAN : Taken(q, ok, k, partly)
         \/ Gone(q, bad)
         \/ Failed(q, bad)
BY DEF Flush, Taken, Gone, Failed

LEMMA GoneType ==
  ASSUME SendTypes, NEW q, NEW bad \in Seq(Frames), Gone(q, bad)
  PROVE  SendTypes'
<1>1. isUpdating' \in BOOLEAN
  <2>1. isUpdating' = (isUpdating /\ Callbacks(q) = {})
    BY Zenon DEF Gone
  <2> QED BY <2>1, SMT
<1>2. /\ state' = "closed" /\ queue' = << >> /\ pollout' = FALSE /\ cork' = TRUE
      /\ closeTask' = TRUE /\ stack' = bad /\ UNCHANGED <<stale, pings>>
  BY Zenon DEF Gone, StreamClose
<1>3. queue' \in Seq(Requests)
  BY <1>2
<1> QED BY <1>1, <1>2, <1>3, Zenon DEF SendTypes

LEMMA FlushType ==
  ASSUME SendTypes, NEW q \in Seq(Requests), NEW ok \in Seq(Frames),
         NEW bad \in Seq(Frames), Flush(q, ok, bad)
  PROVE  SendTypes'
<1>1. ASSUME NEW k \in 0..Len(q), NEW partly \in BOOLEAN, Taken(q, ok, k, partly)
      PROVE  SendTypes'
  <2>1. SubSeq(q, 1, k) \in Seq(Requests) /\ SubSeq(q, k + 1, Len(q)) \in Seq(Requests)
    BY Cut DEF Front, Rest
  <2>2. stale' \subseteq Areas /\ pings' \in Int
    BY <1>1, <2>1, DeliverType DEF Taken
  <2>3. stack' \in Seq(Frames)
    BY <1>1, <2>1, CompletesType DEF Taken
  <2>4. cork' \in BOOLEAN
    BY <1>1, Zenon DEF Taken
  <2>5. /\ queue' = SubSeq(q, k + 1, Len(q)) /\ pollout' = partly
        /\ UNCHANGED <<state, isUpdating, closeTask>>
    BY <1>1, Zenon DEF Taken, SendTakes
  <2> QED BY <2>1, <2>2, <2>3, <2>4, <2>5, Zenon DEF SendTypes
<1>2. CASE Gone(q, bad)
  BY <1>2, GoneType
<1>3. CASE Failed(q, bad)
  BY <1>3 DEF SendTypes, SendFails, Failed
<1> QED BY <1>1, <1>2, <1>3, FlushEnds

LEMMA SendType ==
  ASSUME SendTypes, NEW items \in Seq(Requests), NEW ok \in Seq(Frames),
         NEW bad \in Seq(Frames), Send(items, ok, bad)
  PROVE  SendTypes'
<1>1. queue \o items \in Seq(Requests)
  BY ConcatProperties DEF SendTypes
<1>2. CASE Flush(queue \o items, ok, bad)
  BY <1>1, <1>2, FlushType
<1>3. CASE /\ stack' \in {ok, bad}
           /\ queue' \in {queue, queue \o items}
           /\ UNCHANGED <<state, pollout, cork, isUpdating, closeTask, stale, pings>>
  BY <1>1, <1>3 DEF SendTypes
<1> QED BY <1>2, <1>3 DEF Send, streamVars

LEMMA NoSendType ==
  ASSUME SendTypes, NoSend, stack' \in Seq(Frames)
  PROVE  SendTypes'
BY DEF SendTypes, NoSend, streamVars

(* The handlers that begin with a call on the stack. *)
LEMMA RunningType ==
  ASSUME TypeOK, NEW op, Running(op)
  PROVE  /\ stack \in Seq(Frames) /\ stack # << >> /\ Head(stack) \in Frames
         /\ Caller \in Seq(Frames) /\ Head(stack).op = op /\ life # "freed" /\ ~aborted
         /\ On(stack) = {Head(stack)} \cup On(Caller)
BY Pop DEF TypeOK, Running, Caller

LEMMA MessageAtHead ==
  ASSUME TypeOK, NEW type, NextMessage(type)
  PROVE  /\ buffer # << >> /\ Head(buffer) \in Messages /\ Head(buffer).type = type
         /\ Tail(buffer) \in Seq(Messages) /\ Len(Tail(buffer)) <= BufferSize
         /\ On(buffer) = {Head(buffer)} \cup On(Tail(buffer))
<1>1. /\ buffer \in Seq(Messages) /\ buffer # << >> /\ Len(buffer) <= BufferSize
      /\ Len(buffer) \in Nat /\ Head(buffer).type = type
  BY DEF TypeOK, NextMessage
<1>2. /\ Head(buffer) \in Messages /\ Tail(buffer) \in Seq(Messages)
      /\ Len(Tail(buffer)) = Len(buffer) - 1
  BY <1>1, HeadTailProperties
<1>3. Len(Tail(buffer)) <= BufferSize
  BY <1>1, <1>2, FbUpdateConstants
<1> QED BY <1>1, <1>2, <1>3, Pop

LEMMA InitType == Init => TypeOK
<1> SUFFICES ASSUME Init PROVE TypeOK
  OBVIOUS
<1>1. cuNotified \in BOOLEAN
  <2>1. cuNotified = ("cu" \in encodings)
    BY Zenon DEF Init
  <2> QED BY <2>1, SMT
<1>2. /\ state = "normal" /\ queue = << >> /\ pollout = FALSE /\ cork = FALSE
      /\ stack = << >> /\ net = << >> /\ buffer = << >> /\ isProcessing = FALSE
      /\ nMsgs = 0 /\ fence = NoFence /\ isBlocked = FALSE /\ mustBlock = FALSE
      /\ encodings \in EncodingSets /\ formatsChanged = TRUE
      /\ cu = FALSE /\ cuArea = {} /\ nEvents = 0 /\ pings = 0 /\ layout = 0
      /\ cuEver = FALSE /\ nPending = 0 /\ isUpdating = FALSE /\ damage = {}
      /\ due = {"ext", "led"} /\ knownLayout = 0 /\ job = NoJob /\ onDone = FALSE
      /\ inflight = 0 /\ stale = {} /\ owed = 0
      /\ closeTask = FALSE /\ life = "open" /\ aborted = FALSE
  BY Zenon DEF Init, StreamInit
<1>3. SendTypes
  <2>1. queue \in Seq(Requests) /\ stack \in Seq(Frames) /\ pings \in Int
    BY <1>2
  <2> QED BY <1>2, <2>1, Zenon DEF SendTypes
<1>4. LoopTypes
  <2>1. /\ net \in Seq(Messages) /\ buffer \in Seq(Messages)
        /\ Len(buffer) <= BufferSize
    BY <1>2, FbUpdateConstants
  <2>2. nMsgs \in 0..MaxMsgs /\ nEvents \in 0..MaxEvents
    BY <1>2, FbUpdateConstants
  <2>3. fence \in [n : Nat, flags : SUBSET FenceFlags]
    BY <1>2 DEF NoFence
  <2>4. encodings \subseteq Encodings
    BY <1>2, FbUpdateConstants
  <2> QED BY <1>1, <1>2, <2>1, <2>2, <2>3, <2>4, Zenon DEF LoopTypes
<1>5. UpdateTypes
  <2>1. /\ layout \in Layouts /\ knownLayout \in Layouts \cup {NoLayout}
        /\ due \subseteq {"ext", "cursor", "name", "led"}
    BY <1>2 DEF Layouts
  <2>2. nPending \in Int /\ inflight \in Int /\ owed \in Int
    BY <1>2
  <2>3. job \in Jobs
    BY <1>2 DEF NoJob, Jobs, Layouts
  <2>4. life \in Lives
    BY <1>2 DEF Lives
  <2> QED BY <1>2, <2>1, <2>2, <2>3, <2>4, Zenon DEF UpdateTypes
<1> QED BY <1>3, <1>4, <1>5, TypeParts

LEMMA FenceTypes ==
  ASSUME TypeOK, ProcessPendingFence \/ ResumeAfterFence
  PROVE  TypeOK'
<1> USE TypeParts
<1>1. CASE ProcessPendingFence
  <2>1. Caller \in Seq(Frames) /\ stack \in Seq(Frames)
    BY <1>1, RunningType DEF ProcessPendingFence
  <2>2. <<Call("ppf2")>> \o Caller \in Seq(Frames) /\ <<Item("fence")>> \in Seq(Requests)
    BY <2>1, CallTypes, ItemType, Push DEF Calls
  <2>3. SendTypes'
    <3>1. CASE stack' \in {stack, Caller} /\ NoSend
      BY <2>1, <3>1, NoSendType
    <3>2. CASE Send(<<Item("fence")>>, <<Call("ppf2")>> \o Caller, <<Call("ppf2")>> \o Caller)
      BY <2>2, <3>2, SendType
    <3> QED BY <1>1, <3>1, <3>2 DEF ProcessPendingFence, Assert
  <2>4. LoopTypes'
    <3>1. fence' \in [n : Nat, flags : SUBSET FenceFlags]
      BY <1>1 DEF ProcessPendingFence, LoopTypes
    <3> QED BY <1>1, <3>1 DEF ProcessPendingFence, LoopTypes, loopVars, formatVars
  <2>5. UpdateTypes'
    BY <1>1 DEF ProcessPendingFence, UpdateTypes, Assert
  <2> QED BY <2>3, <2>4, <2>5
<1>2. CASE ResumeAfterFence
  <2>1. Caller \in Seq(Frames)
    BY <1>2, RunningType DEF ResumeAfterFence
  <2>2. <<Call("loop")>> \o Caller \in Seq(Frames)
    BY <2>1, CallTypes, Push DEF Calls
  <2>3. SendTypes'
    BY <1>2, <2>1, <2>2, NoSendType DEF ResumeAfterFence, ProcessMessages
  <2>4. LoopTypes'
    BY <1>2 DEF ResumeAfterFence, ProcessMessages, LoopTypes, formatVars, NoFence
  <2>5. UpdateTypes'
    BY <1>2 DEF ResumeAfterFence, UpdateTypes
  <2> QED BY <2>3, <2>4, <2>5
<1> QED BY <1>1, <1>2

(* process_fb_update_requests leaves the message loop alone. *)
LEMMA PfbTypes ==
  ASSUME TypeOK, UNCHANGED PfbVars, formatsChanged' \in BOOLEAN
  PROVE  /\ LoopTypes'
         /\ layout' \in Layouts /\ knownLayout' \in Layouts \cup {NoLayout}
         /\ inflight' \in Int /\ life' \in Lives
<1>1. LoopTypes /\ UpdateTypes
  BY TypeParts
<1>2. UNCHANGED <<net, buffer, isProcessing, nMsgs, fence, isBlocked, mustBlock,
                  encodings, cuNotified, cu, cuArea, nEvents, layout, cuEver,
                  knownLayout, inflight, life>>
  BY DEF PfbVars, loopVars, fenceVars
<1>3. LoopTypes'
  BY <1>1, <1>2 DEF LoopTypes
<1> QED BY <1>1, <1>2, <1>3 DEF UpdateTypes

LEMMA EnterUpdateType ==
  ASSUME TypeOK, EnterUpdate
  PROVE  TypeOK'
<1>1. Caller \in Seq(Frames)
  BY RunningType DEF EnterUpdate
<1>2. <<CallAt("pfb", 1)>> \o Caller \in Seq(Frames)
  BY <1>1, CallTypes, Push
<1>3. SendTypes'
  BY <1>1, <1>2, NoSendType, TypeParts DEF EnterUpdate
<1>4. /\ LoopTypes'
      /\ layout' \in Layouts /\ knownLayout' \in Layouts \cup {NoLayout}
      /\ inflight' \in Int /\ life' \in Lives
  BY PfbTypes DEF EnterUpdate, TypeOK
<1>5. UpdateTypes'
  BY <1>4 DEF EnterUpdate, TypeOK, UpdateTypes
<1> QED BY <1>3, <1>4, <1>5, TypeParts

LEMMA SendNotificationType ==
  ASSUME TypeOK, SendNotification
  PROVE  TypeOK'
<1>1. Caller \in Seq(Frames)
  BY RunningType DEF SendNotification
<1>2. /\ <<CallAt("pfb", 5)>> \o Caller \in Seq(Frames)
      /\ \A i \in 1..4 : <<CallAt("dec", i)>> \o Caller \in Seq(Frames)
      /\ <<Item("update")>> \in Seq(Requests)
  BY <1>1, CallTypes, Push, ItemType
<1>3. SendTypes' /\ owed' \in Int
  <2>1. CASE /\ stack' = <<CallAt("pfb", 5)>> \o Caller /\ NoSend
             /\ UNCHANGED owed
    BY <1>2, <2>1, NoSendType, TypeParts DEF UpdateTypes
  <2>2. ASSUME NEW i \in Head(stack).at..4, Head(stack).at \in 1..4, owed' = owed - 1,
               Send(<<Item("update")>>, <<CallAt("dec", i)>> \o Caller,
                    <<CallAt("dec", i)>> \o Caller)
        PROVE  SendTypes' /\ owed' \in Int
    <3>1. i \in 1..4
      BY <2>2
    <3>2. owed' \in Int
      BY <2>2 DEF TypeOK
    <3> QED BY <1>2, <2>2, <3>1, <3>2, SendType, TypeParts
  <2>3. ASSUME NEW i \in Head(stack).at..4, Head(stack).at \in 1..4, owed' = owed - 1,
               stack' = <<CallAt("dec", i)>> \o Caller, NoSend
        PROVE  SendTypes' /\ owed' \in Int
    <3>1. i \in 1..4
      BY <2>3
    <3>2. owed' \in Int
      BY <2>3 DEF TypeOK
    <3> QED BY <1>2, <2>3, <3>1, <3>2, NoSendType, TypeParts
  <2> QED BY <2>1, <2>2, <2>3 DEF SendNotification
<1>4. /\ LoopTypes'
      /\ layout' \in Layouts /\ knownLayout' \in Layouts \cup {NoLayout}
      /\ inflight' \in Int /\ life' \in Lives
  BY PfbTypes DEF SendNotification, TypeOK
<1>5. due' \subseteq due
  BY DEF SendNotification
<1>6. UpdateTypes'
  BY <1>3, <1>4, <1>5 DEF SendNotification, TypeOK, UpdateTypes
<1> QED BY <1>3, <1>4, <1>6, TypeParts

LEMMA BeginDecrementType ==
  ASSUME TypeOK, BeginDecrement
  PROVE  TypeOK'
<1>1. Caller \in Seq(Frames) /\ stack \in Seq(Frames) /\ Head(stack) \in Frames
      /\ Head(stack).op = "dec"
  BY RunningType DEF BeginDecrement
<1>2. Head(stack).at \in 1..4
  BY <1>1 DEF Frames, Calls
<1>3. /\ CallAt("pfb", Head(stack).at + 1) \in Frames
      /\ CallAt("dec2", Head(stack).at) \in Frames /\ Call("ppf") \in Frames
  BY <1>2, CallTypes DEF Calls
<1>4. /\ <<CallAt("pfb", Head(stack).at + 1)>> \o Caller \in Seq(Frames)
      /\ <<Call("ppf"), CallAt("dec2", Head(stack).at)>> \o Caller \in Seq(Frames)
  BY <1>1, <1>3, Push, PushTwo
<1>5. stack' \in Seq(Frames)
  BY <1>1, <1>4 DEF BeginDecrement, Assert
<1>6. SendTypes'
  BY <1>5, NoSendType, TypeParts DEF BeginDecrement
<1>7. /\ LoopTypes'
      /\ layout' \in Layouts /\ knownLayout' \in Layouts \cup {NoLayout}
      /\ inflight' \in Int /\ life' \in Lives
  BY PfbTypes DEF BeginDecrement, TypeOK
<1>8. aborted' \in BOOLEAN
  BY DEF BeginDecrement, Assert, TypeOK
<1>9. UpdateTypes'
  BY <1>7, <1>8 DEF BeginDecrement, TypeOK, UpdateTypes
<1> QED BY <1>6, <1>7, <1>9, TypeParts

LEMMA EndDecrementType ==
  ASSUME TypeOK, EndDecrement
  PROVE  TypeOK'
<1>1. Caller \in Seq(Frames) /\ Head(stack) \in Frames /\ Head(stack).op = "dec2"
  BY RunningType DEF EndDecrement
<1>2. Head(stack).at \in 1..4
  BY <1>1 DEF Frames, Calls
<1>3. <<CallAt("pfb", Head(stack).at + 1)>> \o Caller \in Seq(Frames)
  BY <1>1, <1>2, CallTypes, Push
<1>4. SendTypes'
  BY <1>1, <1>3, NoSendType, TypeParts DEF EndDecrement
<1>5. /\ LoopTypes'
      /\ layout' \in Layouts /\ knownLayout' \in Layouts \cup {NoLayout}
      /\ inflight' \in Int /\ life' \in Lives
  BY PfbTypes DEF EndDecrement, TypeOK
<1>6. UpdateTypes'
  BY <1>5 DEF EndDecrement, TypeOK, UpdateTypes
<1> QED BY <1>4, <1>5, <1>6, TypeParts

(* on_compositing_done leaves a job or none behind. *)
LEMMA StartEncodingType ==
  ASSUME TypeOK, NEW f \in [stage : {"direct", "composite", "none", "encode", "lost"},
                            fresh : SUBSET Areas, layout : Layouts, fenced : BOOLEAN],
         NEW changed \in BOOLEAN, StartEncoding(f, changed)
  PROVE  /\ job' \in Jobs /\ onDone' \in BOOLEAN /\ isUpdating' \in BOOLEAN
         /\ formatsChanged' \in BOOLEAN /\ nPending' \in Int
<1>1. NoJob \in Jobs /\ LostJob \in Jobs /\ [f EXCEPT !.stage = "encode"] \in Jobs
  BY DEF NoJob, LostJob, Jobs, Layouts
<1>2. RequestTaken \in Int /\ nPending \in Int
  BY DEF RequestTaken, TypeOK
<1>3. job' \in Jobs
  BY <1>1 DEF StartEncoding
<1>4. nPending' \in Int
  BY <1>2 DEF StartEncoding
<1>5. onDone' \in BOOLEAN /\ isUpdating' \in BOOLEAN /\ formatsChanged' \in BOOLEAN
  BY DEF StartEncoding
<1> QED BY <1>3, <1>4, <1>5

LEMMA StartFrameType ==
  ASSUME TypeOK, StartFrame
  PROVE  TypeOK'
<1>1. Caller \in Seq(Frames)
  BY RunningType DEF StartFrame
<1>2. /\ job' \in Jobs /\ onDone' \in BOOLEAN /\ isUpdating' \in BOOLEAN
      /\ formatsChanged' \in BOOLEAN /\ nPending' \in Int /\ damage' \subseteq Areas
  <2>1. CASE UNCHANGED <<formatsChanged, nPending, isUpdating, damage, job, onDone>>
    BY <2>1 DEF TypeOK
  <2>2. CASE damage' = {} /\ \E p \in Pipelines :
             LET f == [stage |-> p, fresh |-> damage, layout |-> layout,
                       fenced |-> FALSE] IN
             \/ /\ p = "direct"
                /\ StartEncoding(f, FALSE)
             \/ /\ p = "composite"
                /\ \/ job' = f
                   \/ "feed" \in EncodeFaults /\ job' = LostJob
                /\ isUpdating' = TRUE
                /\ formatsChanged' = FALSE
                /\ UNCHANGED <<onDone, nPending>>
    <3>0. PICK p \in {"direct", "composite"} : \E f :
             /\ f = [stage |-> p, fresh |-> damage, layout |-> layout, fenced |-> FALSE]
             /\ \/ /\ p = "direct"
                   /\ StartEncoding(f, FALSE)
                \/ /\ p = "composite"
                   /\ \/ job' = f
                      \/ "feed" \in EncodeFaults /\ job' = LostJob
                   /\ isUpdating' = TRUE
                   /\ formatsChanged' = FALSE
                   /\ UNCHANGED <<onDone, nPending>>
      BY <2>2
    <3>1. PICK f :
             /\ f = [stage |-> p, fresh |-> damage, layout |-> layout, fenced |-> FALSE]
             /\ \/ /\ p = "direct"
                   /\ StartEncoding(f, FALSE)
                \/ /\ p = "composite"
                   /\ \/ job' = f
                      \/ "feed" \in EncodeFaults /\ job' = LostJob
                   /\ isUpdating' = TRUE
                   /\ formatsChanged' = FALSE
                   /\ UNCHANGED <<onDone, nPending>>
      BY <3>0
    <3>2. f \in [stage : {"direct", "composite", "none", "encode", "lost"},
                 fresh : SUBSET Areas, layout : Layouts, fenced : BOOLEAN]
      BY <3>1 DEF TypeOK
    <3>3. CASE StartEncoding(f, FALSE)
      BY <2>2, <3>2, <3>3, StartEncodingType
    <3>4. CASE /\ p = "composite" /\ job' \in {f, LostJob} /\ isUpdating' = TRUE
               /\ formatsChanged' = FALSE /\ UNCHANGED <<onDone, nPending>>
      <4>1. job' \in Jobs
        BY <3>1, <3>2, <3>4 DEF Jobs, LostJob, NoJob, Layouts
      <4> QED BY <2>2, <3>4, <4>1 DEF TypeOK
    <3> QED BY <3>1, <3>3, <3>4
  <2> QED BY <2>1, <2>2, Zenon DEF StartFrame
<1>3. /\ LoopTypes'
      /\ layout' \in Layouts /\ knownLayout' \in Layouts \cup {NoLayout}
      /\ inflight' \in Int /\ life' \in Lives
  BY <1>2, PfbTypes DEF StartFrame
<1>4. SendTypes'
  BY <1>1, <1>2, TypeParts DEF StartFrame, SendTypes, streamVars
<1>5. UpdateTypes'
  BY <1>2, <1>3, TypeParts DEF StartFrame, UpdateTypes
<1> QED BY <1>3, <1>4, <1>5, TypeParts

LEMMA CompositeDoneType ==
  ASSUME TypeOK, CompositeDone
  PROVE  TypeOK'
<1>1. /\ job' \in Jobs /\ onDone' \in BOOLEAN /\ isUpdating' \in BOOLEAN
      /\ formatsChanged' \in BOOLEAN /\ nPending' \in Int
  <2>1. job \in [stage : {"direct", "composite", "none", "encode", "lost"},
                 fresh : SUBSET Areas, layout : Layouts, fenced : BOOLEAN]
        /\ formatsChanged \in BOOLEAN
    BY DEF TypeOK, Jobs
  <2>2. CASE StartEncoding(job, formatsChanged)
    BY <2>1, <2>2, StartEncodingType
  <2>3. CASE job' = NoJob /\ UNCHANGED <<onDone, isUpdating, formatsChanged, nPending>>
    BY <2>3 DEF TypeOK, NoJob, Jobs, Layouts
  <2> QED BY <2>2, <2>3 DEF CompositeDone
<1>3. /\ LoopTypes'
      /\ layout' \in Layouts /\ knownLayout' \in Layouts \cup {NoLayout}
      /\ inflight' \in Int /\ life' \in Lives
  BY <1>1, PfbTypes DEF CompositeDone
<1>4. SendTypes'
  BY <1>1, TypeParts DEF CompositeDone, SendTypes, streamVars
<1>5. UpdateTypes'
  BY <1>1, <1>3, TypeParts DEF CompositeDone, UpdateTypes
<1> QED BY <1>3, <1>4, <1>5, TypeParts

LEMMA FrameType ==
  ASSUME TypeOK
  PROVE  /\ <<[kind |-> "frame", fresh |-> job.fresh]>> \in Seq(Requests)
         /\ One(<<[kind |-> "frame", fresh |-> job.fresh]>>)
<1> DEFINE q == <<[kind |-> "frame", fresh |-> job.fresh]>>
<1>1. [kind |-> "frame", fresh |-> job.fresh] \in Requests
  BY DEF TypeOK, Jobs, Requests
<1>2. q \in Seq(Requests) /\ DOMAIN q = {1} /\ q[1].kind = "frame"
  BY <1>1
<1>3. Callbacks(q) = {1}
  BY <1>2 DEF Callbacks, IsFrame
<1> QED BY <1>2, <1>3 DEF One

LEMMA ClientCloseType ==
  ASSUME SendTypes, NEW loop \in {"drain", "destroy"}, ClientClose(loop),
         UNCHANGED <<stale, pings>>
  PROVE  SendTypes' /\ life' \in Lives
<1>1. isUpdating' \in BOOLEAN
  <2>1. isUpdating' = (isUpdating /\ Callbacks(queue) = {})
    BY Zenon DEF ClientClose
  <2> QED BY <2>1, SMT
<1>2. /\ state' = "closed" /\ queue' = << >> /\ pollout' = FALSE /\ cork' = TRUE
      /\ closeTask' = FALSE /\ stack' = << >> /\ life' = loop
  BY Zenon DEF ClientClose, StreamClose
<1>3. queue' \in Seq(Requests) /\ stack' \in Seq(Frames) /\ life' \in Lives
  BY <1>2 DEF Lives
<1> QED BY <1>1, <1>2, <1>3, Zenon DEF SendTypes

LEMMA FinishUpdateType ==
  ASSUME TypeOK, FinishUpdate
  PROVE  TypeOK'
<1>1. SendTypes /\ LoopTypes /\ UpdateTypes
  BY TypeParts
<1>2. /\ UNCHANGED <<net, buffer, isProcessing, nMsgs, fence, isBlocked, mustBlock,
                     encodings, formatsChanged, cuNotified, cu, cuArea, nEvents,
                     layout, cuEver, due, inflight, aborted>>
      /\ job' = NoJob /\ onDone' = FALSE
  BY Zenon DEF FinishUpdate, loopVars, fenceVars, formatVars
<1>3. LoopTypes'
  BY <1>1, <1>2, Zenon DEF LoopTypes
<1>4. job' \in Jobs
  BY <1>2 DEF NoJob, Jobs, Layouts
<1>5. <<Call("complete")>> \in Seq(Frames) /\ <<Call("ping"), Call("ppf")>> \in Seq(Frames)
  <2>1. Call("complete") \in Frames /\ Call("ping") \in Frames /\ Call("ppf") \in Frames
    BY CallTypes DEF Calls
  <2> QED BY <2>1
<1>6. /\ SendTypes' /\ nPending' \in Int /\ damage' \subseteq Areas /\ owed' \in Int
      /\ knownLayout' \in Layouts \cup {NoLayout} /\ life' \in Lives
  <2>1. CASE /\ stack' = <<Call("complete")>> /\ NoSend
             /\ nPending' \in {nPending, nPending + 1}
             /\ UNCHANGED <<damage, knownLayout, owed, life>>
    <3>1. nPending' \in Int
      BY <1>1, <2>1 DEF UpdateTypes
    <3> QED BY <1>1, <1>5, <2>1, <3>1, NoSendType DEF UpdateTypes
  <2>2. CASE /\ ClientClose("destroy")
             /\ UNCHANGED <<nPending, damage, knownLayout, owed, stale, pings>>
    <3>1. SendTypes' /\ life' \in Lives
      BY <1>1, <2>2, ClientCloseType
    <3> QED BY <1>1, <2>2, <3>1 DEF UpdateTypes
  <2>3. CASE /\ damage' \in {Areas, damage} /\ knownLayout' = job.layout
             /\ owed' = owed - 1
             /\ Send(<<[kind |-> "frame", fresh |-> job.fresh]>>,
                     <<Call("ping"), Call("ppf")>>, <<Call("complete")>>)
             /\ UNCHANGED <<nPending, life>>
    <3>1. SendTypes'
      BY <1>1, <1>5, <2>3, FrameType, SendType
    <3>2. knownLayout' \in Layouts \cup {NoLayout}
      BY <1>1, <2>3 DEF UpdateTypes, Jobs
    <3> QED BY <1>1, <2>3, <3>1, <3>2 DEF UpdateTypes
  <2> QED BY <2>1, <2>2, <2>3 DEF FinishUpdate
<1>7. UpdateTypes'
  BY <1>1, <1>2, <1>4, <1>6 DEF UpdateTypes
<1> QED BY <1>3, <1>6, <1>7, TypeParts

LEMMA SendPingType ==
  ASSUME TypeOK, SendPing
  PROVE  TypeOK'
<1>1. SendTypes /\ LoopTypes /\ UpdateTypes
  BY TypeParts
<1>2. Caller \in Seq(Frames)
  BY RunningType DEF SendPing
<1>3. SendTypes' /\ inflight' \in Int
  <2>1. CASE inflight' = inflight + 1 /\ Send(<<Item("ping")>>, Caller, Caller)
    <3>1. inflight' \in Int
      BY <1>1, <2>1 DEF UpdateTypes
    <3>2. <<Item("ping")>> \in Seq(Requests)
      BY ItemType
    <3> QED BY <1>1, <1>2, <2>1, <3>1, <3>2, SendType
  <2>2. CASE stack' = Caller /\ NoSend /\ UNCHANGED inflight
    BY <1>1, <1>2, <2>2, NoSendType DEF UpdateTypes
  <2> QED BY <2>1, <2>2 DEF SendPing
<1>4. LoopTypes'
  BY <1>1 DEF SendPing, LoopTypes, loopVars, fenceVars, formatVars
<1>5. UpdateTypes'
  BY <1>1, <1>3 DEF SendPing, UpdateTypes
<1> QED BY <1>3, <1>4, <1>5, TypeParts

LEMMA CompleteUpdateType ==
  ASSUME TypeOK, CompleteUpdate \/ EndFlush
  PROVE  TypeOK'
<1>1. SendTypes /\ LoopTypes /\ UpdateTypes
  BY TypeParts
<1>2. Caller \in Seq(Frames)
  BY RunningType DEF CompleteUpdate, EndFlush
<1>3. <<CallAt("pfb", 0)>> \o Caller \in Seq(Frames)
  BY <1>2, CallTypes, Push
<1>4. SendTypes'
  BY <1>1, <1>2, <1>3 DEF CompleteUpdate, EndFlush, SendTypes, streamVars
<1>5. /\ UNCHANGED <<PfbVars, formatsChanged, nPending, damage, due, job, onDone,
                     owed, aborted>>
  BY DEF CompleteUpdate, EndFlush
<1>6. /\ LoopTypes'
      /\ layout' \in Layouts /\ knownLayout' \in Layouts \cup {NoLayout}
      /\ inflight' \in Int /\ life' \in Lives
  BY <1>1, <1>5, PfbTypes DEF LoopTypes
<1>7. UpdateTypes'
  BY <1>1, <1>5, <1>6 DEF UpdateTypes
<1> QED BY <1>4, <1>6, <1>7, TypeParts

(* The handlers of messages keep to their own variables. *)
LEMMA HandlerTypes ==
  ASSUME TypeOK, UNCHANGED HandlerFrame, buffer' \in Seq(Messages),
         Len(buffer') <= BufferSize,
         fence' \in [n : Nat, flags : SUBSET FenceFlags],
         isBlocked' \in BOOLEAN, mustBlock' \in BOOLEAN,
         encodings' \subseteq Encodings, formatsChanged' \in BOOLEAN,
         cuNotified' \in BOOLEAN, cu' \in BOOLEAN, cuArea' \subseteq Areas,
         cuEver' \in BOOLEAN
  PROVE  /\ LoopTypes'
         /\ layout' \in Layouts /\ onDone' \in BOOLEAN
         /\ life' \in Lives /\ aborted' \in BOOLEAN
<1>1. LoopTypes /\ UpdateTypes
  BY TypeParts
<1>2. UNCHANGED <<net, nMsgs, isProcessing, nEvents, layout, onDone, life, aborted>>
  BY DEF HandlerFrame
<1>3. LoopTypes'
  BY <1>1, <1>2, Zenon DEF LoopTypes
<1> QED BY <1>1, <1>2, <1>3 DEF UpdateTypes

(* What a handler that is not about fences does to them. *)
LEMMA BlockType ==
  ASSUME TypeOK, BlockIfMust
  PROVE  /\ fence' \in [n : Nat, flags : SUBSET FenceFlags]
         /\ isBlocked' \in BOOLEAN /\ mustBlock' \in BOOLEAN
BY DEF TypeOK, BlockIfMust

LEMMA LoopEndsType ==
  ASSUME TypeOK, LoopEnds \/ IgnoreRequest \/ RefuseFence
  PROVE  TypeOK'
<1>1. SendTypes /\ LoopTypes /\ UpdateTypes
  BY TypeParts
<1>2. Caller \in Seq(Frames)
  BY RunningType DEF LoopEnds, IgnoreRequest, RefuseFence, NextMessage
<1>3. stack' = Caller /\ NoSend /\ isProcessing' = FALSE
  BY Zenon DEF LoopEnds, IgnoreRequest, RefuseFence
<1>4. UNCHANGED <<net, buffer, nMsgs, encodings, formatsChanged, cuNotified, cu,
                  cuArea, nEvents, layout, cuEver, nPending, damage, due,
                  knownLayout, job, onDone, inflight, owed, life, aborted>>
  BY Zenon DEF LoopEnds, IgnoreRequest, RefuseFence, formatVars
<1>5. SendTypes'
  BY <1>1, <1>2, <1>3, NoSendType
<1>6. /\ fence' \in [n : Nat, flags : SUBSET FenceFlags]
      /\ isBlocked' \in BOOLEAN /\ mustBlock' \in BOOLEAN
  BY BlockType DEF LoopEnds, IgnoreRequest, RefuseFence, TypeOK
<1>7. LoopTypes'
  BY <1>1, <1>3, <1>4, <1>6, Zenon DEF LoopTypes
<1>8. UpdateTypes'
  BY <1>1, <1>4, Zenon DEF UpdateTypes
<1> QED BY <1>5, <1>7, <1>8, TypeParts

LEMMA OnFbUpdateRequestType ==
  ASSUME TypeOK, OnFbUpdateRequest
  PROVE  TypeOK'
<1>1. SendTypes /\ LoopTypes /\ UpdateTypes
  BY TypeParts
<1>2. stack \in Seq(Frames)
  BY RunningType DEF OnFbUpdateRequest, NextMessage
<1>3. /\ Head(buffer).area \subseteq Areas
      /\ Tail(buffer) \in Seq(Messages) /\ Len(Tail(buffer)) <= BufferSize
  BY MessageAtHead, MessageTypes DEF OnFbUpdateRequest
<1>4. stack' \in Seq(Frames) /\ buffer' = Tail(buffer)
  BY <1>2, CallTypes, Push DEF OnFbUpdateRequest, Accept
<1>5. SendTypes'
  BY <1>1, <1>4, NoSendType DEF OnFbUpdateRequest
<1>6. damage' \subseteq Areas /\ knownLayout' \in Layouts \cup {NoLayout}
  BY <1>1, <1>3 DEF OnFbUpdateRequest, UpdateTypes
<1>7. nPending' \in Int /\ owed' \in Int
  BY <1>1 DEF OnFbUpdateRequest, UpdateTypes
<1>8. /\ LoopTypes'
      /\ layout' \in Layouts /\ onDone' \in BOOLEAN
      /\ life' \in Lives /\ aborted' \in BOOLEAN
  <2>1. UNCHANGED <<encodings, formatsChanged, cuNotified, cu, cuArea, cuEver>>
    BY DEF OnFbUpdateRequest, formatVars
  <2>2. BlockIfMust /\ UNCHANGED HandlerFrame
    BY DEF OnFbUpdateRequest
  <2> QED BY <1>1, <1>3, <1>4, <2>1, <2>2, BlockType, HandlerTypes DEF LoopTypes
<1>9. UpdateTypes'
  BY <1>1, <1>6, <1>7, <1>8 DEF OnFbUpdateRequest, UpdateTypes
<1> QED BY <1>5, <1>8, <1>9, TypeParts

LEMMA OnFenceResponseType ==
  ASSUME TypeOK, OnFenceResponse
  PROVE  TypeOK'
<1>1. SendTypes /\ LoopTypes /\ UpdateTypes
  BY TypeParts
<1>2. stack \in Seq(Frames)
  BY RunningType DEF OnFenceResponse, NextMessage
<1>3. Tail(buffer) \in Seq(Messages) /\ Len(Tail(buffer)) <= BufferSize
  BY MessageAtHead DEF OnFenceResponse
<1>4. stack' \in Seq(Frames) /\ buffer' = Tail(buffer)
  BY <1>2, CallTypes, Push DEF OnFenceResponse, Accept
<1>5. SendTypes'
  BY <1>1, <1>4, NoSendType DEF OnFenceResponse
<1>6. inflight' \in Int
  BY <1>1 DEF OnFenceResponse, UpdateTypes
<1>7. /\ LoopTypes'
      /\ layout' \in Layouts /\ onDone' \in BOOLEAN
      /\ life' \in Lives /\ aborted' \in BOOLEAN
  <2>1. UNCHANGED <<encodings, formatsChanged, cuNotified, cu, cuArea, cuEver>>
    BY DEF OnFenceResponse, formatVars
  <2>2. BlockIfMust /\ UNCHANGED HandlerFrame
    BY DEF OnFenceResponse
  <2> QED BY <1>1, <1>3, <1>4, <2>1, <2>2, BlockType, HandlerTypes DEF LoopTypes
<1>8. UpdateTypes'
  BY <1>1, <1>6, <1>7 DEF OnFenceResponse, UpdateTypes
<1> QED BY <1>5, <1>7, <1>8, TypeParts

LEMMA OtherType ==
  ASSUME TypeOK, Send(<<Item("other")>>, stack, stack)
  PROVE  SendTypes'
<1>1. SendTypes /\ <<Item("other")>> \in Seq(Requests) /\ stack \in Seq(Frames)
  BY ItemType, TypeParts DEF SendTypes
<1> QED BY <1>1, SendType

LEMMA OnSetFormatsType ==
  ASSUME TypeOK, OnSetEncodings \/ OnSetPixelFormat
  PROVE  TypeOK'
<1>1. SendTypes /\ LoopTypes /\ UpdateTypes
  BY TypeParts
<1>2. /\ Tail(buffer) \in Seq(Messages) /\ Len(Tail(buffer)) <= BufferSize
      /\ OnSetEncodings => Head(buffer).encs \subseteq Encodings
  BY MessageAtHead, MessageTypes DEF OnSetEncodings, OnSetPixelFormat
<1>3. /\ buffer' = Tail(buffer) /\ formatsChanged' = TRUE /\ BlockIfMust
      /\ UNCHANGED <<HandlerFrame, job, cu, cuArea, cuEver, nPending, damage, due,
                     knownLayout, inflight, owed>>
  BY Zenon DEF OnSetEncodings, OnSetPixelFormat
<1>4. SendTypes'
  BY <1>1, OtherType, NoSendType DEF OnSetEncodings, OnSetPixelFormat, SendTypes
<1>5. encodings' \subseteq Encodings /\ cuNotified' \in BOOLEAN
  BY <1>1, <1>2 DEF OnSetEncodings, OnSetPixelFormat, LoopTypes
<1>6. /\ LoopTypes'
      /\ layout' \in Layouts /\ onDone' \in BOOLEAN
      /\ life' \in Lives /\ aborted' \in BOOLEAN
  BY <1>1, <1>2, <1>3, <1>5, BlockType, HandlerTypes DEF LoopTypes
<1>7. UpdateTypes'
  BY <1>1, <1>3, <1>6 DEF UpdateTypes
<1> QED BY <1>4, <1>6, <1>7, TypeParts

LEMMA OnEnableContinuousUpdatesType ==
  ASSUME TypeOK, OnEnableContinuousUpdates
  PROVE  TypeOK'
<1>1. SendTypes /\ LoopTypes /\ UpdateTypes
  BY TypeParts
<1>2. /\ Tail(buffer) \in Seq(Messages) /\ Len(Tail(buffer)) <= BufferSize
      /\ Head(buffer).on \in BOOLEAN /\ Head(buffer).area \subseteq Areas
  BY MessageAtHead, MessageTypes DEF OnEnableContinuousUpdates
<1>3. <<CallAt("pfb", 0)>> \o stack \in Seq(Frames)
  BY <1>1, CallTypes, Push DEF SendTypes
<1>4. SendTypes' /\ cuArea' \subseteq Areas
  BY <1>1, <1>2, <1>3, OtherType, NoSendType DEF OnEnableContinuousUpdates
<1>5. cu' \in BOOLEAN /\ cuEver' \in BOOLEAN
  <2>1. cu' = Head(buffer).on /\ cuEver' = (cuEver \/ cu')
    BY DEF OnEnableContinuousUpdates
  <2> QED BY <1>2, <2>1
<1>6. /\ buffer' = Tail(buffer) /\ BlockIfMust
      /\ UNCHANGED <<HandlerFrame, job, encodings, formatsChanged, cuNotified,
                     nPending, damage, due, knownLayout, inflight, owed>>
  BY Zenon DEF OnEnableContinuousUpdates
<1>7. /\ LoopTypes'
      /\ layout' \in Layouts /\ onDone' \in BOOLEAN
      /\ life' \in Lives /\ aborted' \in BOOLEAN
  BY <1>1, <1>2, <1>4, <1>5, <1>6, BlockType, HandlerTypes DEF LoopTypes
<1>8. UpdateTypes'
  BY <1>1, <1>6, <1>7 DEF UpdateTypes
<1> QED BY <1>4, <1>7, <1>8, TypeParts

(* A fence waits for a number of updates; it is 0 when it waits for none. *)
LEMMA FenceWaitsForType ==
  ASSUME TypeOK, NEW flags
  PROVE  FenceWaitsFor(flags) \in Nat
BY DEF TypeOK, FenceWaitsFor

LEMMA OnFenceRequestType ==
  ASSUME TypeOK, OnFenceRequest
  PROVE  TypeOK'
<1>1. SendTypes /\ LoopTypes /\ UpdateTypes
  BY TypeParts
<1>2. /\ Tail(buffer) \in Seq(Messages) /\ Len(Tail(buffer)) <= BufferSize
      /\ Head(buffer).flags \subseteq FenceFlags
  BY MessageAtHead, MessageTypes DEF OnFenceRequest
<1>3. <<Item("fence")>> \in Seq(Requests) /\ stack \in Seq(Frames)
  BY <1>1, ItemType DEF SendTypes
<1>4. /\ SendTypes' /\ job' \in Jobs /\ isBlocked' \in BOOLEAN
      /\ fence' \in [n : Nat, flags : SUBSET FenceFlags]
  <2>1. CASE /\ isBlocked' = mustBlock /\ Send(<<Item("fence")>>, stack, stack)
             /\ UNCHANGED <<fence, job>>
    <3>1. SendTypes'
      BY <1>1, <1>3, <2>1, SendType
    <3> QED BY <1>1, <2>1, <3>1 DEF LoopTypes, UpdateTypes
  <2>2. CASE /\ isBlocked' = (Head(buffer).flags = {"before", "after"})
             /\ fence' = [n |-> FenceWaitsFor(Head(buffer).flags), flags |-> Head(buffer).flags]
             /\ job' = [job EXCEPT !.fenced = OnlyJobInFlight /\ Len(stack) = 1]
             /\ stack' = stack /\ NoSend
    <3>1. SendTypes'
      BY <1>1, <1>3, <2>2, NoSendType
    <3>2. job' \in Jobs
      BY <1>1, <2>2 DEF UpdateTypes, Jobs
    <3>3. fence' \in [n : Nat, flags : SUBSET FenceFlags]
      BY <1>2, <2>2, FenceWaitsForType
    <3>4. isBlocked' \in BOOLEAN
      BY <2>2
    <3> QED BY <3>1, <3>2, <3>3, <3>4
  <2> QED BY <2>1, <2>2 DEF OnFenceRequest
<1>5. mustBlock' \in BOOLEAN
  BY DEF OnFenceRequest
<1>6. /\ buffer' = Tail(buffer)
      /\ UNCHANGED <<HandlerFrame, encodings, formatsChanged, cuNotified, cu, cuArea,
                     cuEver, nPending, damage, due, knownLayout, inflight, owed>>
  BY DEF OnFenceRequest, formatVars
<1>7. /\ LoopTypes'
      /\ layout' \in Layouts /\ onDone' \in BOOLEAN
      /\ life' \in Lives /\ aborted' \in BOOLEAN
  BY <1>1, <1>2, <1>4, <1>5, <1>6, HandlerTypes DEF LoopTypes
<1>8. UpdateTypes'
  BY <1>1, <1>4, <1>6, <1>7 DEF UpdateTypes
<1> QED BY <1>4, <1>7, <1>8, TypeParts

(* The events of the event loop. *)
LEMMA EventTypes ==
  ASSUME TypeOK, UNCHANGED EventFrame, net' \in Seq(Messages),
         buffer' \in Seq(Messages), Len(buffer') <= BufferSize,
         isProcessing' \in BOOLEAN, nMsgs' \in 0..MaxMsgs, nEvents' \in 0..MaxEvents,
         layout' \in Layouts, damage' \subseteq Areas, job' \in Jobs,
         due' \subseteq {"ext", "cursor", "name", "led"}
  PROVE  LoopTypes' /\ UpdateTypes'
<1>1. LoopTypes /\ UpdateTypes
  BY TypeParts
<1>2. UNCHANGED <<fence, isBlocked, mustBlock, encodings, formatsChanged,
                  cuNotified, cu, cuArea, cuEver, nPending, knownLayout, onDone,
                  inflight, owed, life, aborted>>
  BY DEF EventFrame, fenceVars, formatVars
<1>3. LoopTypes'
  BY <1>1, <1>2, Zenon DEF LoopTypes
<1>4. UpdateTypes'
  BY <1>1, <1>2, Zenon DEF UpdateTypes
<1> QED BY <1>3, <1>4

LEMMA OnClientEventType ==
  ASSUME TypeOK, OnClientEvent
  PROVE  TypeOK'
<1>1. SendTypes /\ LoopTypes /\ UpdateTypes
  BY TypeParts
<1>2. /\ SendTypes' /\ net' \in Seq(Messages) /\ isProcessing' \in BOOLEAN
      /\ buffer' \in Seq(Messages) /\ Len(buffer') <= BufferSize
  <2>1. CASE /\ StreamClose /\ isUpdating' = (isUpdating /\ Callbacks(queue) = {})
             /\ closeTask' = TRUE
             /\ UNCHANGED <<net, buffer, isProcessing, stack, stale, pings>>
    <3>1. Gone(queue, stack)
      BY <2>1, Zenon DEF Gone
    <3>2. SendTypes'
      BY <1>1, <3>1, GoneType DEF SendTypes
    <3> QED BY <1>1, <2>1, <3>2 DEF LoopTypes
  <2>2. ASSUME NEW k \in 1..Len(net), k <= Space,
               buffer' = buffer \o SubSeq(net, 1, k),
               net' = SubSeq(net, k + 1, Len(net)), ProcessMessages(<< >>), NoSend
        PROVE  /\ SendTypes' /\ net' \in Seq(Messages) /\ isProcessing' \in BOOLEAN
               /\ buffer' \in Seq(Messages) /\ Len(buffer') <= BufferSize
    <3>1. <<Call("loop")>> \o << >> \in Seq(Frames) /\ << >> \in Seq(Frames)
      BY CallTypes, Push DEF Calls
    <3>2. stack' \in Seq(Frames) /\ isProcessing' = TRUE
      BY <2>2, <3>1 DEF ProcessMessages
    <3>3. SendTypes'
      BY <1>1, <2>2, <3>2, NoSendType
    <3>4. net \in Seq(Messages) /\ buffer \in Seq(Messages) /\ BufferSize \in Nat
      BY <1>1, FbUpdateConstants DEF LoopTypes
    <3>5. /\ SubSeq(net, 1, k) \in Seq(Messages) /\ Len(SubSeq(net, 1, k)) = k
          /\ SubSeq(net, k + 1, Len(net)) \in Seq(Messages)
      BY <3>4
    <3>6. /\ buffer \o SubSeq(net, 1, k) \in Seq(Messages)
          /\ Len(buffer \o SubSeq(net, 1, k)) = Len(buffer) + k
      BY <3>4, <3>5, ConcatProperties
    <3>7. Len(buffer) + k <= BufferSize
      BY <2>2, <3>4 DEF Space
    <3> QED BY <2>2, <3>2, <3>3, <3>5, <3>6, <3>7
  <2> QED BY <2>1, <2>2 DEF OnClientEvent
<1>3. UNCHANGED <<EventFrame, nMsgs, nEvents, layout, damage, due, job>>
  BY DEF OnClientEvent
<1>4. LoopTypes' /\ UpdateTypes'
  BY <1>1, <1>2, <1>3, EventTypes DEF LoopTypes, UpdateTypes
<1> QED BY <1>2, <1>4, TypeParts

LEMMA ClosingTypes ==
  ASSUME TypeOK, UNCHANGED ClosingFrame
  PROVE  /\ LoopTypes'
         /\ job' \in Jobs /\ onDone' \in BOOLEAN /\ life' \in Lives => UpdateTypes'
<1>1. LoopTypes /\ UpdateTypes
  BY TypeParts
<1>2. UNCHANGED <<net, buffer, isProcessing, nMsgs, fence, isBlocked, mustBlock,
                  encodings, formatsChanged, cuNotified, cu, cuArea, nEvents, pings,
                  layout, cuEver, nPending, damage, due, knownLayout, inflight,
                  stale, owed, aborted>>
  BY DEF ClosingFrame, loopVars, fenceVars, formatVars
<1>3. LoopTypes'
  BY <1>1, <1>2, Zenon DEF LoopTypes
<1>4. job' \in Jobs /\ onDone' \in BOOLEAN /\ life' \in Lives => UpdateTypes'
  BY <1>1, <1>2, Zenon DEF UpdateTypes
<1> QED BY <1>3, <1>4

LEMMA CloseTypes ==
  ASSUME TypeOK, RemoteClosed \/ DeferredClose \/ ReadError \/ ServerClose
  PROVE  TypeOK'
<1>1. SendTypes /\ LoopTypes /\ UpdateTypes
  BY TypeParts
<1>2. CASE RemoteClosed
  <2>1. /\ Gone(queue, stack)
        /\ UNCHANGED <<EventFrame, net, buffer, isProcessing, nMsgs, nEvents, layout,
                       damage, due, job>>
    BY <1>2, Zenon DEF RemoteClosed, Gone, loopVars
  <2>2. SendTypes'
    BY <1>1, <2>1, GoneType DEF SendTypes
  <2>3. LoopTypes' /\ UpdateTypes'
    BY <1>1, <2>1, EventTypes DEF LoopTypes, UpdateTypes
  <2> QED BY <2>2, <2>3, TypeParts
<1>3. ASSUME NEW loop \in {"drain", "destroy"}, CloseNow(loop) PROVE TypeOK'
  <2>1. ClientClose(loop) /\ UNCHANGED <<ClosingFrame, job, onDone>>
    BY <1>3 DEF CloseNow
  <2>2. UNCHANGED <<stale, pings>>
    BY <2>1 DEF ClosingFrame
  <2>3. SendTypes' /\ life' \in Lives
    BY <1>1, <2>1, <2>2, ClientCloseType
  <2> QED BY <1>1, <2>1, <2>3, ClosingTypes, TypeParts DEF UpdateTypes
<1> QED BY <1>2, <1>3 DEF DeferredClose, ReadError, ServerClose

LEMMA ClosedTypes ==
  ASSUME TypeOK, DrainEnds \/ DestroyEnds
  PROVE  TypeOK'
<1>1. SendTypes /\ LoopTypes /\ UpdateTypes
  BY TypeParts
<1>2. /\ UNCHANGED <<ClosingFrame, streamVars, stack, isUpdating, job, closeTask>>
      /\ onDone' \in {onDone, FALSE} /\ life' \in {"destroy", "freed"}
  BY DEF DrainEnds, DestroyEnds
<1>3. SendTypes'
  BY <1>1, <1>2 DEF ClosingFrame, streamVars, SendTypes
<1>4. job' \in Jobs /\ onDone' \in BOOLEAN /\ life' \in Lives
  BY <1>1, <1>2 DEF UpdateTypes, Lives
<1> QED BY <1>2, <1>3, <1>4, ClosingTypes, TypeParts

LEMMA OnBadMessageType ==
  ASSUME TypeOK, OnBadMessage
  PROVE  TypeOK'
<1>1. SendTypes /\ LoopTypes /\ UpdateTypes
  BY TypeParts
<1>2. /\ ClientClose("destroy") /\ BlockIfMust
      /\ UNCHANGED <<net, buffer, isProcessing, nMsgs, encodings, formatsChanged,
                     cuNotified, cu, cuArea, nEvents, pings, layout, cuEver, nPending,
                     damage, due, knownLayout, job, onDone, inflight, stale, owed,
                     aborted>>
  BY DEF OnBadMessage, loopVars, formatVars
<1>3. SendTypes' /\ life' \in Lives
  BY <1>1, <1>2, ClientCloseType
<1>4. LoopTypes'
  BY <1>1, <1>2, BlockType DEF LoopTypes
<1>5. UpdateTypes'
  BY <1>1, <1>2, <1>3, Zenon DEF UpdateTypes
<1> QED BY <1>3, <1>4, <1>5, TypeParts

LEMMA OnWritableType ==
  ASSUME TypeOK, OnWritable
  PROVE  TypeOK'
<1>1. SendTypes /\ LoopTypes /\ UpdateTypes
  BY TypeParts
<1>2. /\ Flush(queue, << >>, << >>)
      /\ UNCHANGED <<EventFrame, net, buffer, isProcessing, nMsgs, nEvents, layout,
                     damage, due, job>>
  BY Zenon DEF OnWritable, loopVars
<1>3. << >> \in Seq(Frames) /\ queue \in Seq(Requests)
  BY <1>1 DEF SendTypes
<1>4. SendTypes'
  BY <1>1, <1>2, <1>3, FlushType
<1>5. LoopTypes' /\ UpdateTypes'
  BY <1>1, <1>2, EventTypes DEF LoopTypes, UpdateTypes
<1> QED BY <1>4, <1>5, TypeParts

(* Requests lose what the application has changed since. *)
LEMMA Outdated ==
  ASSUME NEW q \in Seq(Requests), NEW r, NEW hit,
         r = [i \in DOMAIN q |-> [q[i] EXCEPT !.fresh = @ \ hit]]
  PROVE  /\ r \in Seq(Requests) /\ Callbacks(r) = Callbacks(q)
         /\ Fresh(r) = Fresh(q) \ hit
<1>1. DOMAIN q = 1..Len(q) /\ Len(q) \in Nat
  OBVIOUS
<1>2. \A i \in DOMAIN q : q[i] \in Requests
  BY <1>1
<1>3. DOMAIN r = DOMAIN q /\ \A i \in DOMAIN q : /\ r[i] \in Requests
                                                /\ r[i].kind = q[i].kind
                                                /\ r[i].fresh = q[i].fresh \ hit
  BY <1>2 DEF Requests
<1>4. r \in Seq(Requests)
  BY <1>1, <1>3
<1>5. Callbacks(r) = Callbacks(q)
  BY <1>3 DEF Callbacks, IsFrame
<1>6. Fresh(r) = Fresh(q) \ hit
  BY <1>3 DEF Fresh
<1> QED BY <1>4, <1>5, <1>6

LEMMA ApplicationCallType ==
  ASSUME TypeOK, ApplicationCall
  PROVE  TypeOK'
<1>1. SendTypes /\ LoopTypes /\ UpdateTypes
  BY TypeParts
<1>2. nEvents' \in 0..MaxEvents
  BY <1>1, FbUpdateConstants DEF ApplicationCall, LoopTypes
<1>3. /\ layout' \in Layouts /\ damage' \subseteq Areas /\ stale' \subseteq Areas
      /\ job' \in Jobs /\ queue' \in Seq(Requests)
      /\ due' \subseteq {"ext", "cursor", "name", "led"}
  <2>1. ASSUME NEW a \in Areas, NEW resize \in BOOLEAN, NEW hit,
               hit = (IF resize THEN Areas ELSE {a}),
               layout' = (IF resize THEN 1 - layout ELSE layout),
               damage' = DamageRegion(hit), stale' = stale \cup hit,
               job' = [job EXCEPT !.fresh = @ \ hit],
               queue' = [i \in DOMAIN queue |-> [queue[i] EXCEPT !.fresh = @ \ hit]],
               UNCHANGED due
        PROVE  /\ layout' \in Layouts /\ damage' \subseteq Areas /\ stale' \subseteq Areas
               /\ job' \in Jobs /\ queue' \in Seq(Requests)
               /\ due' \subseteq {"ext", "cursor", "name", "led"}
    <3>1. hit \subseteq Areas
      BY <2>1
    <3>2. layout' \in Layouts
      BY <1>1, <2>1 DEF UpdateTypes, Layouts
    <3>3. job' \in Jobs
      BY <1>1, <2>1 DEF UpdateTypes, Jobs
    <3>4. queue' \in Seq(Requests)
      <4>1. queue \in Seq(Requests)
        BY <1>1 DEF SendTypes
      <4>2. queue' = [i \in DOMAIN queue |-> [queue[i] EXCEPT !.fresh = @ \ hit]]
        BY <2>1
      <4> QED BY <4>1, <4>2, Outdated, Zenon
    <3> QED BY <1>1, <2>1, <3>1, <3>2, <3>3, <3>4 DEF SendTypes, UpdateTypes, DamageRegion
  <2>2. CASE /\ \E n \in {"cursor", "name", "led"} \cap Events : due' = DueAfter(n)
             /\ UNCHANGED <<layout, damage, stale, job, queue>>
    BY <1>1, <2>2 DEF SendTypes, UpdateTypes, DueAfter
  <2> QED BY <2>1, <2>2 DEF ApplicationCall
<1>4. /\ stack' = <<CallAt("pfb", 0)>>
      /\ UNCHANGED <<EventFrame, net, buffer, isProcessing, nMsgs, state, pollout, cork,
                     isUpdating, closeTask, pings>>
  BY Zenon DEF ApplicationCall, loopVars
<1>5. stack' \in Seq(Frames)
  BY <1>4, CallTypes
<1>6. SendTypes'
  BY <1>1, <1>3, <1>4, <1>5, Zenon DEF SendTypes
<1>7. LoopTypes' /\ UpdateTypes'
  BY <1>1, <1>2, <1>3, <1>4, EventTypes DEF LoopTypes
<1> QED BY <1>6, <1>7, TypeParts

LEMMA ClientSendsType ==
  ASSUME TypeOK, ClientSends
  PROVE  TypeOK'
<1>1. SendTypes /\ LoopTypes /\ UpdateTypes
  BY TypeParts
<1>2. net' \in Seq(Messages) /\ nMsgs' \in 0..MaxMsgs /\ pings' \in Int
  <2>1. ASSUME NEW m \in Msgs, nMsgs < MaxMsgs, net' = Append(net, m),
               nMsgs' = nMsgs + 1, UNCHANGED pings
        PROVE  net' \in Seq(Messages) /\ nMsgs' \in 0..MaxMsgs /\ pings' \in Int
    BY <1>1, <2>1, FbUpdateConstants DEF LoopTypes, SendTypes
  <2>2. CASE net' = Append(net, [type |-> "pong"]) /\ pings' = pings - 1 /\ UNCHANGED nMsgs
    <3>1. [type |-> "pong"] \in Messages
      BY DEF Messages
    <3> QED BY <1>1, <2>2, <3>1 DEF LoopTypes, SendTypes
  <2> QED BY <2>1, <2>2 DEF ClientSends
<1>3. UNCHANGED <<state, queue, pollout, cork, stack, EventFrame, buffer, isProcessing,
                  nEvents, layout, isUpdating, damage, due, job, closeTask, stale>>
  BY DEF ClientSends, streamVars
<1>4. SendTypes'
  BY <1>1, <1>2, <1>3, Zenon DEF SendTypes
<1>5. LoopTypes' /\ UpdateTypes'
  BY <1>1, <1>2, <1>3, EventTypes DEF LoopTypes, UpdateTypes
<1> QED BY <1>4, <1>5, TypeParts

LEMMA StutterType ==
  ASSUME TypeOK, UNCHANGED vars
  PROVE  TypeOK'
BY DEF TypeOK, vars, streamVars, loopVars, fenceVars, formatVars, envVars,
       updateVars, lifeVars

LEMMA NextType == TypeOK /\ [Next]_vars => TypeOK'
<1> SUFFICES ASSUME TypeOK, [Next]_vars PROVE TypeOK'
  OBVIOUS
<1>1. CASE Handler
  BY <1>1, FenceTypes, EnterUpdateType, SendNotificationType, BeginDecrementType,
     EndDecrementType, StartFrameType, SendPingType, CompleteUpdateType,
     LoopEndsType, OnFbUpdateRequestType, OnSetFormatsType,
     OnEnableContinuousUpdatesType, OnFenceResponseType, OnFenceRequestType,
     OnBadMessageType DEF Handler
<1>2. CASE Next /\ ~Handler
  BY <1>2, CompositeDoneType, FinishUpdateType, OnClientEventType, CloseTypes,
     ClosedTypes, OnWritableType, ApplicationCallType, ClientSendsType DEF Next
<1>3. CASE UNCHANGED vars
  BY <1>3, StutterType
<1> QED BY <1>1, <1>2, <1>3

(* Every state of the update pipeline has its type: the stack holds only   *)
(* calls that the handlers make, with the arguments they make them with,   *)
(* and msg_buffer never holds more than MSG_BUFFER_SIZE.                   *)
THEOREM TypeCorrect == Spec => []TypeOK
BY InitType, NextType, PTL DEF Spec

-----------------------------------------------------------------------------
(* The callback of the encoder. *)

(* Only the end of client_close frees the client, and then nothing happens. *)
(* The steps of client_close, from wherever it is called. *)
Closing == \/ DeferredClose \/ ReadError \/ ServerClose \/ OnBadMessage
           \/ DrainEnds \/ DestroyEnds

(* It leaves the state of the updates alone, but for is_updating. *)
LEMMA ClosingStep ==
  ASSUME Closing
  PROVE  /\ UNCHANGED <<loopVars, formatVars, nEvents, pings, layout, cuEver, nPending,
                        damage, due, knownLayout, job, inflight, stale, owed, aborted>>
         /\ UNCHANGED fenceVars \/ BlockIfMust
         /\ stack' = << >>
         /\ ~aborted
         /\ stack = << >> \/ NextMessage("bad")
         /\ \/ StreamClose /\ isUpdating' = (isUpdating /\ Callbacks(queue) = {})
            \/ UNCHANGED <<streamVars, isUpdating>>
<1>1. CASE DeferredClose \/ ReadError \/ ServerClose
  <2>1. PICK loop \in {"drain", "destroy"} : CloseNow(loop)
    BY <1>1 DEF DeferredClose, ReadError, ServerClose
  <2> QED BY <2>1 DEF CloseNow, ClientClose, ClosingFrame, Idle
<1>2. CASE OnBadMessage
  BY <1>2 DEF OnBadMessage, ClientClose, NextMessage, Running
<1>3. CASE DrainEnds \/ DestroyEnds
  BY <1>3 DEF DrainEnds, DestroyEnds, ClosingFrame
<1> QED BY <1>1, <1>2, <1>3 DEF Closing

LEMMA LifeStep ==
  ASSUME [Next]_vars
  PROVE  \/ life' # "freed"
         \/ DestroyEnds
         \/ life = "freed" /\ UNCHANGED <<life, onDone, job>>
<1>1. CASE ProcessPendingFence \/ ResumeAfterFence \/ SendPing
  BY <1>1 DEF ProcessPendingFence, ResumeAfterFence, SendPing, Running
<1>2. CASE EnterUpdate \/ SendNotification \/ BeginDecrement \/ EndDecrement
           \/ CompleteUpdate \/ EndFlush
  BY <1>2 DEF EnterUpdate, SendNotification, BeginDecrement, EndDecrement,
              CompleteUpdate, EndFlush, PfbVars, Running
<1>3. CASE StartFrame
  BY <1>3 DEF StartFrame, Running, PfbVars
<1>4. CASE LoopEnds \/ IgnoreRequest \/ RefuseFence
  BY <1>4 DEF LoopEnds, IgnoreRequest, RefuseFence, NextMessage, Running
<1>5. CASE OnFbUpdateRequest \/ OnSetEncodings \/ OnSetPixelFormat
           \/ OnEnableContinuousUpdates \/ OnFenceResponse \/ OnFenceRequest
  BY <1>5 DEF OnFbUpdateRequest, OnSetEncodings, OnSetPixelFormat,
              OnEnableContinuousUpdates, OnFenceResponse, OnFenceRequest, HandlerFrame,
              NextMessage, Running
<1>6. CASE CompositeDone
  BY <1>6 DEF CompositeDone, Idle, PfbVars
<1>7. CASE FinishUpdate
  BY <1>7 DEF FinishUpdate, ClientClose, Idle
<1>8. CASE OnClientEvent \/ RemoteClosed \/ OnWritable \/ ApplicationCall \/ ClientSends
  BY <1>8 DEF OnClientEvent, RemoteClosed, OnWritable, ApplicationCall, ClientSends,
              EventFrame, Idle
<1>9. CASE DeferredClose \/ ReadError \/ ServerClose \/ OnBadMessage \/ DrainEnds
  BY <1>9 DEF DeferredClose, ReadError, ServerClose, CloseNow, ClientClose,
              OnBadMessage, DrainEnds
<1>10. CASE UNCHANGED vars
  BY <1>10 DEF vars, updateVars, lifeVars
<1> QED BY <1>1, <1>2, <1>3, <1>4, <1>5, <1>6, <1>7, <1>8, <1>9, <1>10 DEF Next, Handler

(* When client_close has freed the client, neither the compositor nor the   *)
(* encoder will call back with it: whatever was running when the client was *)
(* closed, from wherever that was, and whatever the event loops inside of   *)
(* client_close have let end, fail or begin.                                *)
THEOREM CallbackHasClient == Spec => []NoDanglingCallback
<1>1. Init => NoDanglingCallback
  BY DEF Init, NoDanglingCallback
<1>2. NoDanglingCallback /\ [Next]_vars => NoDanglingCallback'
  BY LifeStep DEF NoDanglingCallback, DestroyEnds
<1> QED BY <1>1, <1>2, PTL DEF Spec

-----------------------------------------------------------------------------
(* The stages of an update, when no error of sendmsg goes unhandled. *)

(* A part of process_fb_update_requests after its early returns. *)
Active(c) == c.op \in {"dec", "dec2"} \/ (c.op = "pfb" /\ c.at > 0)

(* A call that does not depend on whether an update is in flight, and one   *)
(* that cannot answer a fence either.                                       *)
Quiet(c) == ~Active(c) /\ c.op # "complete"
Settled(c) == c.op = "loop" \/ (c.op = "pfb" /\ c.at = 0)

NoComplete(s) == \A c \in On(s) : c.op # "complete"
AllQuiet(s) == \A c \in On(s) : Quiet(c)
AllSettled(s) == \A c \in On(s) : Settled(c)

(* The stages of an update.  Its frame is in the queue of the stream; *)
Writing ==
  One(queue) /\ isUpdating /\ job = NoJob /\ AllQuiet(stack)

(* complete_fb_update is about to run, before anything else; *)
Completing ==
  /\ None(queue) /\ job = NoJob
  /\ stack # << >> /\ Head(stack).op = "complete" /\ AllQuiet(Tail(stack))

(* it is composited or encoded, or it was lost on the way; *)
Working ==
  /\ None(queue) /\ job.stage # "none" /\ isUpdating
  /\ NoComplete(stack)

(* there is none: is_updating may then only be left from a frame that was   *)
(* given up with the client.                                                *)
Free ==
  /\ None(queue) /\ job = NoJob /\ NoComplete(stack)
  /\ isUpdating => life \in {"destroy", "freed"} /\ stack = << >>

InOneStage == Writing \/ Completing \/ Working \/ Free

LEMMA Stacks ==
  ASSUME NEW c \in Frames, NEW s \in Seq(Frames)
  PROVE  /\ <<c>> \o s \in Seq(Frames)
         /\ NoComplete(<<c>> \o s) <=> c.op # "complete" /\ NoComplete(s)
         /\ AllQuiet(<<c>> \o s) <=> Quiet(c) /\ AllQuiet(s)
         /\ AllSettled(<<c>> \o s) <=> Settled(c) /\ AllSettled(s)
<1>1. <<c>> \o s \in Seq(Frames) /\ On(<<c>> \o s) = {c} \cup On(s)
  BY Push
<1> QED BY <1>1 DEF NoComplete, AllQuiet, AllSettled

LEMMA StacksTwo ==
  ASSUME NEW c \in Frames, NEW d \in Frames, NEW s \in Seq(Frames)
  PROVE  /\ <<c, d>> \o s \in Seq(Frames) /\ <<c, d>> \o s # << >>
         /\ Head(<<c, d>> \o s) = c /\ Tail(<<c, d>> \o s) = <<d>> \o s
         /\ On(<<c, d>> \o s) = {c, d} \cup On(s)
         /\ c.op # "complete" /\ d.op # "complete" /\ NoComplete(s) =>
              NoComplete(<<c, d>> \o s)
<1>1. <<d>> \o s \in Seq(Frames) /\ On(<<d>> \o s) = {d} \cup On(s)
  BY Push
<1>2. PICK t \in Seq(Frames) : t = <<d>> \o s
  BY <1>1
<1>3. /\ <<c>> \o t \in Seq(Frames) /\ <<c>> \o t # << >>
      /\ Head(<<c>> \o t) = c /\ Tail(<<c>> \o t) = t /\ On(<<c>> \o t) = {c} \cup On(t)
  BY Push
<1>4. <<c, d>> \o s = <<c>> \o t
  BY <1>2, PushTwo
<1>5. On(<<c, d>> \o s) = {c, d} \cup On(s)
  BY <1>1, <1>2, <1>3, <1>4
<1> QED BY <1>2, <1>3, <1>4, <1>5 DEF NoComplete

LEMMA Popped ==
  ASSUME NEW s \in Seq(Frames), s # << >>
  PROVE  /\ Head(s) \in Frames /\ Tail(s) \in Seq(Frames)
         /\ NoComplete(s) <=> Head(s).op # "complete" /\ NoComplete(Tail(s))
         /\ AllQuiet(s) <=> Quiet(Head(s)) /\ AllQuiet(Tail(s))
         /\ AllSettled(s) <=> Settled(Head(s)) /\ AllSettled(Tail(s))
<1>1. Head(s) \in Frames /\ Tail(s) \in Seq(Frames) /\ On(s) = {Head(s)} \cup On(Tail(s))
  BY Pop
<1> QED BY <1>1 DEF NoComplete, AllQuiet, AllSettled

LEMMA Bare ==
  NoComplete(<< >>) /\ AllQuiet(<< >>) /\ AllSettled(<< >>)
BY OnEmpty DEF NoComplete, AllQuiet, AllSettled

LEMMA Short ==
  ASSUME NEW s \in Seq(Frames), Len(s) = 0
  PROVE  AllSettled(s)
BY DEF AllSettled, On

LEMMA Weaker ==
  ASSUME NEW s
  PROVE  /\ AllSettled(s) => AllQuiet(s)
         /\ AllQuiet(s) => NoComplete(s)
<1>1. \A c : Settled(c) => Quiet(c)
  BY DEF Settled, Quiet, Active
<1> QED BY <1>1 DEF NoComplete, AllQuiet, AllSettled, Quiet

LEMMA CallKinds ==
  /\ \A op \in Calls \ {"pfb", "dec", "dec2", "complete"} :
       Quiet(Call(op)) /\ Call(op).op = op
  /\ \A at : CallAt("pfb", at).op = "pfb" /\ CallAt("pfb", at).at = at
  /\ \A at : CallAt("dec", at).op = "dec" /\ CallAt("dec2", at).op = "dec2"
  /\ Settled(Call("loop")) /\ Settled(CallAt("pfb", 0)) /\ Quiet(CallAt("pfb", 0))
BY DEF Call, CallAt, Quiet, Settled, Active, Calls

(* What a flush does to the frame in q, if there is one. *)
LEMMA FlushOutcome ==
  ASSUME SendTypes, NEW q \in Seq(Requests), NEW ok \in Seq(Frames),
         NEW bad \in Seq(Frames), Flush(q, ok, bad)
  PROVE  /\ None(q) => None(queue') /\ isUpdating' = isUpdating /\ stack' \in {ok, bad}
         /\ ~SendErrors /\ One(q) =>
              \/ One(queue') /\ isUpdating' = isUpdating /\ stack' = ok
              \/ /\ None(queue') /\ isUpdating' = isUpdating
                 /\ stack' = <<Call("complete")>> \o (<<Call("uncork")>> \o ok)
              \/ None(queue') /\ isUpdating' = FALSE /\ stack' = bad
<1>1. ASSUME NEW k \in 0..Len(q), NEW partly \in BOOLEAN, Taken(q, ok, k, partly)
      PROVE  /\ None(q) => None(queue') /\ isUpdating' = isUpdating /\ stack' = ok
             /\ One(q) => \/ One(queue') /\ isUpdating' = isUpdating /\ stack' = ok
                          \/ /\ None(queue') /\ isUpdating' = isUpdating
                             /\ stack' = <<Call("complete")>> \o (<<Call("uncork")>> \o ok)
  <2> DEFINE front == Front(q, k)
             rest == Rest(q, k)
  <2>1. /\ front \in Seq(Requests) /\ rest \in Seq(Requests)
        /\ None(q) => None(front) /\ None(rest)
        /\ One(q) => (One(front) /\ None(rest)) \/ (None(front) /\ One(rest))
    BY Cut
  <2>2. /\ queue' = rest /\ isUpdating' = isUpdating
        /\ stack' = IF Callbacks(front) = {} THEN ok
                    ELSE [i \in 1..Cardinality(Callbacks(front)) |-> Call("complete")]
                           \o <<Call("uncork")>> \o ok
    BY <1>1 DEF Taken, SendTakes, Front, Rest
  <2>3. None(front) => stack' = ok
    BY <2>2 DEF None
  <2>4. ASSUME One(front)
        PROVE  stack' = <<Call("complete")>> \o (<<Call("uncork")>> \o ok)
    <3>1. Cardinality(Callbacks(front)) = 1 /\ Callbacks(front) # {}
      BY <2>4, OneCallback DEF One
    <3>2. [i \in 1..1 |-> Call("complete")] = <<Call("complete")>>
      OBVIOUS
    <3>3. <<Call("complete")>> \in Seq(Frames) /\ <<Call("uncork")>> \in Seq(Frames)
      BY CallTypes DEF Calls
    <3>4. stack' = <<Call("complete")>> \o <<Call("uncork")>> \o ok
      BY <2>2, <3>1, <3>2
    <3> QED BY <3>3, <3>4, ConcatAssociative
  <2> HIDE DEF front, rest
  <2> QED BY <2>1, <2>2, <2>3, <2>4
<1>2. CASE Gone(q, bad)
  <2>1. queue' = << >> /\ stack' = bad /\ isUpdating' = (isUpdating /\ Callbacks(q) = {})
    BY <1>2, Zenon DEF Gone, StreamClose
  <2>2. None(queue')
    BY <2>1 DEF None, Callbacks
  <2>3. None(q) => isUpdating' = isUpdating
    BY <2>1, Zenon DEF None, SendTypes
  <2>4. One(q) => isUpdating' = FALSE
    BY <2>1 DEF One
  <2> QED BY <2>1, <2>2, <2>3, <2>4
<1>3. CASE Failed(q, bad)
  BY <1>3 DEF Failed, SendFails
<1> QED BY <1>1, <1>2, <1>3, FlushEnds

(* stream_send of a message that is not a frame. *)
LEMMA SendOutcome ==
  ASSUME SendTypes, NEW items \in Seq(Requests), None(items),
         NEW ok \in Seq(Frames), NEW bad \in Seq(Frames), Send(items, ok, bad)
  PROVE  /\ None(queue) => None(queue') /\ isUpdating' = isUpdating /\ stack' \in {ok, bad}
         /\ ~SendErrors /\ One(queue) =>
              \/ One(queue') /\ isUpdating' = isUpdating /\ stack' \in {ok, bad}
              \/ /\ None(queue') /\ isUpdating' = isUpdating
                 /\ stack' = <<Call("complete")>> \o (<<Call("uncork")>> \o ok)
              \/ None(queue') /\ isUpdating' = FALSE /\ stack' = bad
<1>1. queue \in Seq(Requests)
  BY DEF SendTypes
<1>2. /\ queue \o items \in Seq(Requests)
      /\ None(queue) => None(queue \o items)
      /\ One(queue) => One(queue \o items)
  BY <1>1, Joined
<1>3. CASE state = "closed" /\ stack' = bad /\ UNCHANGED <<queue, isUpdating>>
  BY <1>3
<1>4. CASE queue' = queue \o items /\ stack' = ok /\ UNCHANGED isUpdating
  BY <1>2, <1>4
<1>5. CASE Flush(queue \o items, ok, bad)
  BY <1>2, <1>5, FlushOutcome
<1> QED BY <1>3, <1>4, <1>5 DEF Send, streamVars

LEMMA SameJob ==
  ASSUME NEW r \in Jobs, NEW s \in Jobs, r.stage = s.stage, r.fresh = s.fresh,
         r.layout = s.layout, r.fenced = s.fenced
  PROVE  r = s
BY DEF Jobs

LEMMA CompletingStage ==
  ASSUME job' = NoJob, None(queue'), NEW ok \in Seq(Frames), AllQuiet(ok),
         stack' = <<Call("complete")>> \o (<<Call("uncork")>> \o ok)
  PROVE  InOneStage'
<1>1. Call("complete") \in Frames /\ Call("uncork") \in Frames /\ Quiet(Call("uncork"))
  BY CallTypes, CallKinds DEF Calls
<1>2. <<Call("uncork")>> \o ok \in Seq(Frames) /\ AllQuiet(<<Call("uncork")>> \o ok)
  BY <1>1, Stacks
<1>3. stack' # << >> /\ Head(stack') = Call("complete") /\ Tail(stack') = <<Call("uncork")>> \o ok
  BY <1>1, <1>2, Push
<1>4. Head(stack').op = "complete"
  BY <1>3 DEF Call
<1>5. AllQuiet(Tail(stack'))
  BY <1>2, <1>3
<1>6. Completing'
  BY <1>3, <1>4, <1>5, Zenon DEF Completing
<1> QED BY <1>6 DEF InOneStage

(* The stage stays when a call sends a message, or makes or ends a call. *)
LEMMA StageOfSend ==
  ASSUME TypeOK, ~SendErrors, InOneStage, ~Completing,
         NEW items \in Seq(Requests), None(items),
         NEW ok \in Seq(Frames), NEW bad \in Seq(Frames), Send(items, ok, bad),
         UNCHANGED <<job, life>>, NoComplete(ok), NoComplete(bad),
         Free => ~isUpdating, Writing => AllQuiet(ok) /\ AllQuiet(bad)
  PROVE  InOneStage'
<1>1. SendTypes
  BY TypeParts
<1>2. CASE Writing
  <2>1. One(queue) /\ isUpdating /\ job' = NoJob /\ AllQuiet(ok) /\ AllQuiet(bad)
    BY <1>2 DEF Writing
  <2>2. CASE One(queue') /\ isUpdating' = isUpdating /\ stack' \in {ok, bad}
    <3>1. Writing'
      BY <2>1, <2>2 DEF Writing
    <3> QED BY <3>1 DEF InOneStage
  <2>3. CASE None(queue') /\ stack' = <<Call("complete")>> \o (<<Call("uncork")>> \o ok)
    BY <2>1, <2>3, CompletingStage
  <2>4. CASE None(queue') /\ isUpdating' = FALSE /\ stack' = bad
    <3>1. Free'
      BY <2>1, <2>4 DEF Free
    <3> QED BY <3>1 DEF InOneStage
  <2> QED BY <1>1, <2>1, <2>2, <2>3, <2>4, SendOutcome
<1>3. CASE Working
  <2>1. None(queue') /\ isUpdating' = isUpdating /\ stack' \in {ok, bad}
    BY <1>1, <1>3, SendOutcome DEF Working
  <2>2. Working'
    BY <1>3, <2>1 DEF Working
  <2> QED BY <2>2 DEF InOneStage
<1>4. CASE Free
  <2>1. None(queue') /\ isUpdating' = isUpdating /\ stack' \in {ok, bad}
    BY <1>1, <1>4, SendOutcome DEF Free
  <2>2. Free'
    BY <1>4, <2>1 DEF Free
  <2> QED BY <2>2 DEF InOneStage
<1> QED BY <1>2, <1>3, <1>4 DEF InOneStage

LEMMA StageOfCall ==
  ASSUME InOneStage, ~Completing, UNCHANGED <<queue, isUpdating, job, life>>,
         NoComplete(stack'), Free => ~isUpdating, Writing => AllQuiet(stack')
  PROVE  InOneStage'
<1>1. CASE Writing
  BY <1>1 DEF InOneStage, Writing
<1>2. CASE Working
  BY <1>2 DEF InOneStage, Working
<1>3. CASE Free
  BY <1>3 DEF InOneStage, Free
<1> QED BY <1>1, <1>2, <1>3 DEF InOneStage

(* What the stage says of a call that is running. *)
LEMMA RunningStage ==
  ASSUME TypeOK, InOneStage, NEW op, Running(op), op # "complete"
  PROVE  /\ ~Completing /\ NoComplete(stack) /\ NoComplete(Caller)
         /\ Free => ~isUpdating
         /\ Writing => Quiet(Head(stack)) /\ AllQuiet(Caller) /\ AllQuiet(stack)
         /\ Active(Head(stack)) => ~Writing /\ (Working \/ Free)
<1>1. stack \in Seq(Frames) /\ stack # << >> /\ Head(stack).op = op /\ Caller = Tail(stack)
  BY RunningType DEF Caller
<1>2. ~Completing
  BY <1>1 DEF Completing
<1>3. NoComplete(stack)
  BY <1>2, Weaker DEF InOneStage, Writing, Working, Free
<1>4. NoComplete(Caller)
  BY <1>1, <1>3, Popped
<1>5. Writing => Quiet(Head(stack)) /\ AllQuiet(Caller) /\ AllQuiet(stack)
  BY <1>1, Popped DEF Writing
<1>6. Active(Head(stack)) => ~Writing /\ (Working \/ Free)
  BY <1>2, <1>5 DEF Quiet, InOneStage
<1>7. Free => ~isUpdating
  BY <1>1 DEF Free
<1> QED BY <1>2, <1>3, <1>4, <1>5, <1>6, <1>7

LEMMA IdleStage ==
  ASSUME InOneStage, Idle
  PROVE  ~Completing /\ (Writing \/ Working \/ Free) /\ (Free => ~isUpdating)
BY DEF InOneStage, Completing, Free, Idle, NoJob

LEMMA FenceStage ==
  ASSUME TypeOK, ~SendErrors, InOneStage, ProcessPendingFence \/ ResumeAfterFence
  PROVE  InOneStage'
<1>1. CASE ProcessPendingFence
  <2>1. Running("ppf") /\ UNCHANGED <<job, life>>
    BY <1>1 DEF ProcessPendingFence
  <2>2. /\ Caller \in Seq(Frames) /\ stack \in Seq(Frames) /\ Head(stack).op = "ppf"
        /\ ~Completing /\ NoComplete(stack) /\ NoComplete(Caller)
        /\ (Free => ~isUpdating) /\ (Writing => AllQuiet(Caller) /\ AllQuiet(stack))
    BY <2>1, RunningType, RunningStage
  <2>3. CASE stack' \in {stack, Caller} /\ NoSend
    BY <2>1, <2>2, <2>3, StageOfCall DEF NoSend, streamVars
  <2>4. CASE Send(<<Item("fence")>>, <<Call("ppf2")>> \o Caller, <<Call("ppf2")>> \o Caller)
    <3>1. /\ Call("ppf2") \in Frames /\ Quiet(Call("ppf2")) /\ Call("ppf2").op = "ppf2"
          /\ <<Item("fence")>> \in Seq(Requests) /\ None(<<Item("fence")>>)
      BY CallTypes, CallKinds, ItemType DEF Calls
    <3>2. <<Call("ppf2")>> \o Caller \in Seq(Frames)
      BY <2>2, <3>1, Push
    <3>3. /\ NoComplete(<<Call("ppf2")>> \o Caller)
          /\ Writing => AllQuiet(<<Call("ppf2")>> \o Caller)
      BY <2>2, <3>1, <3>2, Stacks
    <3> QED BY <2>1, <2>2, <2>4, <3>1, <3>2, <3>3, StageOfSend
  <2> QED BY <1>1, <2>3, <2>4 DEF ProcessPendingFence, Assert
<1>2. CASE ResumeAfterFence
  <2>1. /\ Running("ppf2") /\ NoSend /\ UNCHANGED <<job, life>>
        /\ stack' \in {Caller, <<Call("loop")>> \o Caller}
    BY <1>2 DEF ResumeAfterFence, ProcessMessages
  <2>2. /\ Caller \in Seq(Frames) /\ Head(stack).op = "ppf2"
        /\ ~Completing /\ NoComplete(Caller) /\ (Writing => AllQuiet(Caller))
        /\ Free => ~isUpdating
    BY <2>1, RunningType, RunningStage
  <2>3. Call("loop") \in Frames /\ Quiet(Call("loop")) /\ Call("loop").op = "loop"
    BY CallTypes, CallKinds DEF Calls
  <2>4. <<Call("loop")>> \o Caller \in Seq(Frames)
    BY <2>2, <2>3, Push
  <2>5. /\ NoComplete(<<Call("loop")>> \o Caller)
        /\ Writing => AllQuiet(<<Call("loop")>> \o Caller)
    BY <2>2, <2>3, <2>4, Stacks
  <2> QED BY <2>1, <2>2, <2>5, StageOfCall DEF NoSend, streamVars
<1> QED BY <1>1, <1>2

LEMMA EnterUpdateStage ==
  ASSUME TypeOK, InOneStage, EnterUpdate
  PROVE  InOneStage'
<1>1. Running("pfb") /\ NoSend /\ UNCHANGED <<job, life>>
  BY DEF EnterUpdate, PfbVars
<1>2. /\ Caller \in Seq(Frames) /\ ~Completing /\ NoComplete(Caller)
      /\ (Free => ~isUpdating) /\ (Writing => AllQuiet(Caller))
  BY <1>1, RunningType, RunningStage
<1>3. CASE stack' = Caller
  BY <1>1, <1>2, <1>3, StageOfCall DEF NoSend, streamVars
<1>4. CASE stack' = <<CallAt("pfb", 1)>> \o Caller /\ ~ReturnsAtOnce
  <2>1. ~Writing
    BY <1>4 DEF ReturnsAtOnce, Writing
  <2>2. CallAt("pfb", 1) \in Frames /\ CallAt("pfb", 1).op = "pfb"
    BY CallTypes, CallKinds
  <2>3. stack' \in Seq(Frames)
    BY <1>2, <1>4, <2>2, Push
  <2>4. NoComplete(stack')
    BY <1>2, <1>4, <2>2, <2>3, Stacks
  <2> QED BY <1>1, <1>2, <2>1, <2>4, StageOfCall DEF NoSend, streamVars
<1> QED BY <1>3, <1>4 DEF EnterUpdate

(* The calls past the early returns do not care. *)
LEMMA ActiveStage ==
  ASSUME TypeOK, ~SendErrors, InOneStage, SendNotification \/ BeginDecrement \/ EndDecrement
  PROVE  InOneStage'
<1>1. Active(Head(stack)) /\ UNCHANGED <<job, life>> /\ \E op \in {"pfb", "dec", "dec2"} : Running(op)
  <2>1. CASE SendNotification
    BY <2>1 DEF SendNotification, PfbVars, Running, Active
  <2>2. CASE BeginDecrement \/ EndDecrement
    BY <2>2 DEF BeginDecrement, EndDecrement, PfbVars, Running, Active
  <2> QED BY <2>1, <2>2
<1>2. /\ stack \in Seq(Frames) /\ Caller \in Seq(Frames) /\ ~Completing
      /\ NoComplete(stack) /\ NoComplete(Caller) /\ ~Writing /\ (Free => ~isUpdating)
  BY <1>1, RunningType, RunningStage
<1>3. ASSUME NEW c \in Frames, c.op # "complete"
      PROVE  <<c>> \o Caller \in Seq(Frames) /\ NoComplete(<<c>> \o Caller)
  <2>1. <<c>> \o Caller \in Seq(Frames)
    BY <1>2, Push
  <2> QED BY <1>2, <1>3, <2>1, Stacks
<1>4. CASE SendNotification
  <2>1. CASE stack' = <<CallAt("pfb", 5)>> \o Caller /\ NoSend
    <3>1. NoComplete(stack')
      BY <1>3, <2>1, CallTypes, CallKinds
    <3> QED BY <1>1, <1>2, <2>1, <3>1, StageOfCall DEF NoSend, streamVars
  <2>2. ASSUME NEW i \in Head(stack).at..4, Head(stack).at \in 1..4,
               Send(<<Item("update")>>, <<CallAt("dec", i)>> \o Caller,
                    <<CallAt("dec", i)>> \o Caller)
        PROVE  InOneStage'
    <3>1. i \in 1..4
      BY <2>2
    <3>2. CallAt("dec", i) \in Frames /\ CallAt("dec", i).op # "complete"
      BY <3>1, CallTypes, CallKinds
    <3>3. /\ <<CallAt("dec", i)>> \o Caller \in Seq(Frames)
          /\ NoComplete(<<CallAt("dec", i)>> \o Caller)
      BY <1>3, <3>2
    <3>4. <<Item("update")>> \in Seq(Requests) /\ None(<<Item("update")>>)
      BY ItemType
    <3> QED BY <1>1, <1>2, <2>2, <3>3, <3>4, StageOfSend
  <2>3. ASSUME NEW i \in Head(stack).at..4, Head(stack).at \in 1..4,
               stack' = <<CallAt("dec", i)>> \o Caller, NoSend
        PROVE  InOneStage'
    <3>1. i \in 1..4
      BY <2>3
    <3>2. CallAt("dec", i) \in Frames /\ CallAt("dec", i).op # "complete"
      BY <3>1, CallTypes, CallKinds
    <3>3. NoComplete(stack')
      BY <1>3, <2>3, <3>2
    <3> QED BY <1>1, <1>2, <2>3, <3>3, StageOfCall DEF NoSend, streamVars
  <2> QED BY <1>4, <2>1, <2>2, <2>3 DEF SendNotification
<1>5. CASE BeginDecrement \/ EndDecrement
  <2>1. Head(stack).at \in 1..4
    <3>1. Head(stack).op \in {"dec", "dec2"} /\ Head(stack) \in Frames
      BY <1>5, RunningType DEF BeginDecrement, EndDecrement
    <3> QED BY <3>1 DEF Frames, Calls
  <2>2. /\ CallAt("pfb", Head(stack).at + 1) \in Frames
        /\ CallAt("pfb", Head(stack).at + 1).op # "complete"
        /\ CallAt("dec2", Head(stack).at) \in Frames
        /\ CallAt("dec2", Head(stack).at).op # "complete"
        /\ Call("ppf") \in Frames /\ Call("ppf").op # "complete"
    BY <2>1, CallTypes, CallKinds DEF Calls
  <2>3. NoComplete(<<CallAt("pfb", Head(stack).at + 1)>> \o Caller)
    BY <1>3, <2>2
  <2>4. NoComplete(<<Call("ppf"), CallAt("dec2", Head(stack).at)>> \o Caller)
    BY <1>2, <2>2, StacksTwo
  <2>5. NoComplete(stack') /\ NoSend
    BY <1>2, <1>5, <2>3, <2>4 DEF BeginDecrement, EndDecrement, Assert
  <2> QED BY <1>1, <1>2, <2>5, StageOfCall DEF NoSend, streamVars
<1> QED BY <1>4, <1>5

(* A frame that is started is the only one, or none is left. *)
LEMMA StartEncodingStage ==
  ASSUME NEW f, StartEncoding(f, FALSE) \/ StartEncoding(f, formatsChanged),
         f \in [stage : {"direct", "composite", "none", "encode", "lost"},
                fresh : SUBSET Areas, layout : Layouts, fenced : BOOLEAN],
         None(queue), UNCHANGED queue, NoComplete(stack')
  PROVE  Working' \/ Free'
<1>1. \/ job' = LostJob /\ isUpdating' = TRUE
      \/ job' = NoJob /\ isUpdating' = FALSE
      \/ job' = [f EXCEPT !.stage = "encode"] /\ isUpdating' = TRUE
  BY DEF StartEncoding
<1>2. CASE job' = LostJob /\ isUpdating' = TRUE
  BY <1>2 DEF Working, LostJob, NoJob
<1>3. CASE job' = NoJob /\ isUpdating' = FALSE
  BY <1>3 DEF Free
<1>4. CASE job' = [f EXCEPT !.stage = "encode"] /\ isUpdating' = TRUE
  <2>1. job'.stage = "encode"
    BY <1>4
  <2> QED BY <1>4, <2>1 DEF Working
<1> QED BY <1>1, <1>2, <1>3, <1>4

LEMMA StartFrameStage ==
  ASSUME TypeOK, InOneStage, StartFrame
  PROVE  InOneStage'
<1>1. /\ Running("pfb") /\ Head(stack).at = 5 /\ stack' = Caller /\ UNCHANGED <<queue, life>>
  BY DEF StartFrame, streamVars, PfbVars
<1>2. Active(Head(stack))
  BY <1>1 DEF Running, Active
<1>3. /\ ~Completing /\ NoComplete(Caller) /\ ~Writing /\ (Working \/ Free)
      /\ Free => ~isUpdating
  BY <1>1, <1>2, RunningStage
<1>4. None(queue)
  BY <1>3 DEF Working, Free
<1>5. CASE UNCHANGED <<isUpdating, job>>
  BY <1>1, <1>3, <1>5, StageOfCall
<1>6. CASE \E p \in Pipelines :
             LET f == [stage |-> p, fresh |-> damage, layout |-> layout,
                       fenced |-> FALSE] IN
             \/ /\ p = "direct"
                /\ StartEncoding(f, FALSE)
             \/ /\ p = "composite"
                /\ \/ job' = f
                   \/ "feed" \in EncodeFaults /\ job' = LostJob
                /\ isUpdating' = TRUE
                /\ formatsChanged' = FALSE
                /\ UNCHANGED <<onDone, nPending>>
  <2>0. PICK p \in {"direct", "composite"} : \E f :
             /\ f = [stage |-> p, fresh |-> damage, layout |-> layout, fenced |-> FALSE]
             /\ \/ StartEncoding(f, FALSE)
                \/ p = "composite" /\ job' \in {f, LostJob} /\ isUpdating' = TRUE
    BY <1>6
  <2>1. PICK f :
             /\ f = [stage |-> p, fresh |-> damage, layout |-> layout, fenced |-> FALSE]
             /\ \/ StartEncoding(f, FALSE)
                \/ p = "composite" /\ job' \in {f, LostJob} /\ isUpdating' = TRUE
    BY <2>0
  <2>2. CASE StartEncoding(f, FALSE)
    <3>1. f \in [stage : {"direct", "composite", "none", "encode", "lost"},
                 fresh : SUBSET Areas, layout : Layouts, fenced : BOOLEAN]
      BY <2>1 DEF TypeOK
    <3>2. NoComplete(stack') /\ UNCHANGED queue
      BY <1>1, <1>3
    <3> QED BY <1>4, <2>2, <3>1, <3>2, StartEncodingStage DEF InOneStage
  <2>3. CASE p = "composite" /\ job' \in {f, LostJob} /\ isUpdating' = TRUE
    <3>1. job'.stage # "none"
      BY <2>1, <2>3 DEF LostJob, NoJob
    <3>2. Working'
      BY <1>1, <1>3, <1>4, <2>3, <3>1 DEF Working
    <3> QED BY <3>2 DEF InOneStage
  <2> QED BY <2>1, <2>2, <2>3
<1> QED BY <1>5, <1>6, Zenon DEF StartFrame

LEMMA CompositeDoneStage ==
  ASSUME TypeOK, InOneStage, CompositeDone
  PROVE  InOneStage'
<1>1. /\ stack = << >> /\ stack' = stack /\ UNCHANGED queue /\ job.stage = "composite"
      /\ \/ StartEncoding(job, formatsChanged)
         \/ job' = NoJob /\ life' = "destroy"
  BY DEF CompositeDone, Idle, streamVars, PfbVars
<1>2. Working
  BY <1>1 DEF InOneStage, Writing, Completing, Free, NoJob
<1>3. None(queue) /\ NoComplete(stack')
  BY <1>1, <1>2, Bare DEF Working
<1>4. job \in [stage : {"direct", "composite", "none", "encode", "lost"},
               fresh : SUBSET Areas, layout : Layouts, fenced : BOOLEAN]
  BY DEF TypeOK, Jobs
<1>5. CASE StartEncoding(job, formatsChanged)
  BY <1>1, <1>3, <1>4, <1>5, StartEncodingStage DEF InOneStage
<1>6. CASE job' = NoJob /\ life' = "destroy"
  BY <1>1, <1>3, <1>6 DEF InOneStage, Free
<1> QED BY <1>1, <1>5, <1>6

LEMMA FinishUpdateStage ==
  ASSUME TypeOK, ~SendErrors, InOneStage, FinishUpdate
  PROVE  InOneStage'
<1>1. stack = << >> /\ job.stage = "encode" /\ job' = NoJob
  BY DEF FinishUpdate, Idle
<1>2. Working /\ None(queue) /\ isUpdating
  BY <1>1 DEF InOneStage, Writing, Completing, Free, Working, NoJob
<1>3. AllQuiet(Tail(<<Call("complete")>>)) /\ Head(<<Call("complete")>>).op = "complete"
  <2>1. Tail(<<Call("complete")>>) = << >> /\ Head(<<Call("complete")>>) = Call("complete")
    OBVIOUS
  <2> QED BY <2>1, Bare DEF Call
<1>4. ASSUME None(queue'), stack' = <<Call("complete")>>
      PROVE  InOneStage'
  <2>1. Completing'
    <3>1. stack' # << >>
      BY <1>4
    <3> QED BY <1>1, <1>3, <1>4, <3>1, Zenon DEF Completing
  <2> QED BY <2>1 DEF InOneStage
<1>5. CASE stack' = <<Call("complete")>> /\ NoSend
  BY <1>2, <1>4, <1>5 DEF NoSend, streamVars
<1>6. CASE ClientClose("destroy")
  <2>1. queue' = << >> /\ stack' = << >> /\ life' = "destroy"
    BY <1>6 DEF ClientClose, StreamClose
  <2>2. None(queue') /\ NoComplete(stack')
    BY <2>1, Bare DEF None, Callbacks
  <2>3. Free'
    BY <1>1, <2>1, <2>2 DEF Free
  <2> QED BY <2>3 DEF InOneStage
<1>7. CASE /\ state = "normal"
           /\ Send(<<[kind |-> "frame", fresh |-> job.fresh]>>,
                   <<Call("ping"), Call("ppf")>>, <<Call("complete")>>)
  <2>1. PICK items \in Seq(Requests) :
             items = <<[kind |-> "frame", fresh |-> job.fresh]>> /\ One(items)
    BY FrameType
  <2>2. SendTypes /\ queue \in Seq(Requests)
    BY TypeParts DEF SendTypes
  <2>3. queue \o items \in Seq(Requests) /\ One(queue \o items)
    BY <1>2, <2>1, <2>2, Joined
  <2>4. PICK ok \in Seq(Frames) : ok = <<Call("ping"), Call("ppf")>> /\ AllQuiet(ok)
    <3>1. /\ Call("ping") \in Frames /\ Call("ppf") \in Frames
          /\ Quiet(Call("ping")) /\ Quiet(Call("ppf"))
      BY CallTypes, CallKinds DEF Calls
    <3>2. <<Call("ping"), Call("ppf")>> \in Seq(Frames) /\ Len(<<Call("ping"), Call("ppf")>>) = 2
      BY <3>1
    <3>3. AllQuiet(<<Call("ping"), Call("ppf")>>)
      <4>1. \A i \in 1..2 : i = 1 \/ i = 2
        OBVIOUS
      <4> QED BY <3>1, <3>2, <4>1 DEF AllQuiet, On
    <3> QED BY <3>2, <3>3
  <2>5. <<Call("complete")>> \in Seq(Frames)
    BY CallTypes DEF Calls
  <2>6. \/ queue' = queue \o items /\ stack' = ok /\ isUpdating' = isUpdating
        \/ Flush(queue \o items, ok, <<Call("complete")>>)
    BY <1>7, <2>1, <2>4 DEF Send
  <2>7. CASE One(queue') /\ isUpdating' = isUpdating /\ stack' = ok
    <3>1. Writing'
      BY <1>1, <1>2, <2>4, <2>7 DEF Writing
    <3> QED BY <3>1 DEF InOneStage
  <2>8. CASE None(queue') /\ stack' = <<Call("complete")>> \o (<<Call("uncork")>> \o ok)
    BY <1>1, <2>4, <2>8, CompletingStage
  <2>9. CASE None(queue') /\ stack' = <<Call("complete")>>
    BY <1>4, <2>9
  <2>10. CASE queue' = queue \o items /\ stack' = ok /\ isUpdating' = isUpdating
    BY <2>3, <2>7, <2>10
  <2>11. CASE Flush(queue \o items, ok, <<Call("complete")>>)
    BY <2>2, <2>3, <2>5, <2>7, <2>8, <2>9, <2>11, FlushOutcome
  <2> QED BY <2>6, <2>10, <2>11
<1> QED BY <1>5, <1>6, <1>7 DEF FinishUpdate

LEMMA SendPingStage ==
  ASSUME TypeOK, ~SendErrors, InOneStage, SendPing
  PROVE  InOneStage'
<1>1. Running("ping") /\ UNCHANGED <<job, life>>
  BY DEF SendPing
<1>2. /\ Caller \in Seq(Frames) /\ ~Completing /\ NoComplete(Caller)
      /\ (Free => ~isUpdating) /\ (Writing => AllQuiet(Caller))
  BY <1>1, RunningType, RunningStage
<1>3. CASE Send(<<Item("ping")>>, Caller, Caller)
  <2>1. <<Item("ping")>> \in Seq(Requests) /\ None(<<Item("ping")>>)
    BY ItemType
  <2> QED BY <1>1, <1>2, <1>3, <2>1, StageOfSend
<1>4. CASE stack' = Caller /\ NoSend
  BY <1>1, <1>2, <1>4, StageOfCall DEF NoSend, streamVars
<1> QED BY <1>3, <1>4 DEF SendPing

LEMMA CompleteUpdateStage ==
  ASSUME TypeOK, InOneStage, CompleteUpdate
  PROVE  InOneStage'
<1>1. /\ Running("complete") /\ isUpdating' = FALSE /\ UNCHANGED <<queue, job>>
      /\ stack' \in {Caller, <<CallAt("pfb", 0)>> \o Caller}
  BY DEF CompleteUpdate, streamVars
<1>2. /\ stack \in Seq(Frames) /\ stack # << >> /\ Head(stack).op = "complete"
      /\ Caller \in Seq(Frames) /\ Caller = Tail(stack)
  BY <1>1, RunningType DEF Caller
<1>3. Completing
  <2>1. ~NoComplete(stack) /\ ~AllQuiet(stack)
    BY <1>2, Popped, Weaker
  <2> QED BY <2>1 DEF InOneStage, Writing, Working, Free
<1>4. None(queue) /\ job = NoJob /\ NoComplete(Caller)
  BY <1>2, <1>3, Weaker DEF Completing
<1>5. NoComplete(<<CallAt("pfb", 0)>> \o Caller)
  <2>1. CallAt("pfb", 0) \in Frames /\ CallAt("pfb", 0).op = "pfb"
    BY CallTypes, CallKinds
  <2> QED BY <1>2, <1>4, <2>1, Stacks
<1>6. Free'
  BY <1>1, <1>4, <1>5 DEF Free
<1> QED BY <1>6 DEF InOneStage

(* The handlers that only return. *)
LEMMA ReturnStage ==
  ASSUME TypeOK, InOneStage,
         EndFlush \/ LoopEnds \/ IgnoreRequest \/ RefuseFence
  PROVE  InOneStage'
<1>1. /\ Running("uncork") \/ Running("loop")
      /\ stack' = Caller /\ UNCHANGED <<queue, isUpdating, job, life>>
  BY DEF EndFlush, LoopEnds, IgnoreRequest, RefuseFence, NextMessage, NoSend,
         streamVars, PfbVars
<1>2. /\ ~Completing /\ NoComplete(Caller)
      /\ (Free => ~isUpdating) /\ (Writing => AllQuiet(Caller))
  BY <1>1, RunningStage
<1> QED BY <1>1, <1>2, StageOfCall

(* The handlers of messages, which may send one and call                    *)
(* process_fb_update_requests.                                              *)
LEMMA MessageStage ==
  ASSUME TypeOK, ~SendErrors, InOneStage,
         OnFbUpdateRequest \/ OnSetEncodings \/ OnSetPixelFormat
           \/ OnEnableContinuousUpdates \/ OnFenceResponse
  PROVE  InOneStage'
<1>1. Running("loop") /\ UNCHANGED <<job, life>>
  BY DEF OnFbUpdateRequest, OnSetEncodings, OnSetPixelFormat,
         OnEnableContinuousUpdates, OnFenceResponse, NextMessage, HandlerFrame
<1>2. /\ stack \in Seq(Frames) /\ ~Completing /\ NoComplete(stack)
      /\ (Free => ~isUpdating) /\ (Writing => AllQuiet(stack))
  BY <1>1, RunningType, RunningStage
<1>3. CASE Send(<<Item("other")>>, stack, stack)
  <2>1. <<Item("other")>> \in Seq(Requests) /\ None(<<Item("other")>>)
    BY ItemType
  <2> QED BY <1>1, <1>2, <1>3, <2>1, StageOfSend
<1>4. CASE stack' \in {stack, <<CallAt("pfb", 0)>> \o stack} /\ NoSend
  <2>1. /\ CallAt("pfb", 0) \in Frames /\ CallAt("pfb", 0).op = "pfb"
        /\ Settled(CallAt("pfb", 0)) /\ Quiet(CallAt("pfb", 0))
    BY CallTypes, CallKinds
  <2>2. /\ NoComplete(<<CallAt("pfb", 0)>> \o stack)
        /\ Writing => AllQuiet(<<CallAt("pfb", 0)>> \o stack)
    BY <1>2, <2>1, Stacks
  <2> QED BY <1>1, <1>2, <1>4, <2>2, StageOfCall DEF NoSend, streamVars
<1> QED BY <1>3, <1>4 DEF OnFbUpdateRequest, OnSetEncodings, OnSetPixelFormat,
           OnEnableContinuousUpdates, OnFenceResponse, Accept

LEMMA OnFenceRequestStage ==
  ASSUME TypeOK, ~SendErrors, InOneStage, OnFenceRequest
  PROVE  InOneStage'
<1>1. Running("loop") /\ UNCHANGED life
  BY DEF OnFenceRequest, NextMessage, HandlerFrame
<1>2. /\ stack \in Seq(Frames) /\ stack # << >> /\ Head(stack).op = "loop"
      /\ ~Completing /\ NoComplete(stack)
      /\ (Free => ~isUpdating) /\ (Writing => AllQuiet(stack))
  BY <1>1, RunningType, RunningStage
<1>3. CASE Send(<<Item("fence")>>, stack, stack) /\ UNCHANGED job
  <2>1. <<Item("fence")>> \in Seq(Requests) /\ None(<<Item("fence")>>)
    BY ItemType
  <2> QED BY <1>1, <1>2, <1>3, <2>1, StageOfSend
<1>4. CASE /\ job' = [job EXCEPT !.fenced = OnlyJobInFlight /\ Len(stack) = 1]
           /\ stack' = stack /\ NoSend
  <2>1. UNCHANGED <<queue, isUpdating, stack, life>>
    BY <1>1, <1>4 DEF NoSend, streamVars
  <2>2. job \in Jobs
    BY DEF TypeOK
  <2>3. CASE job = NoJob
    <3>1. job' = job
      <4>1. /\ job' \in Jobs /\ job'.stage = job.stage /\ job'.fresh = job.fresh
            /\ job'.layout = job.layout
            /\ job'.fenced = (OnlyJobInFlight /\ Len(stack) = 1)
        BY <1>4, <2>2 DEF Jobs
      <4>2. job'.fenced = FALSE /\ job.fenced = FALSE
        BY <2>3, <4>1 DEF NoJob, OnlyJobInFlight
      <4> QED BY <2>2, <4>1, <4>2, SameJob
    <3> QED BY <1>2, <2>1, <3>1, StageOfCall
  <2>4. CASE job # NoJob
    <3>1. Working
      BY <1>2, <2>4 DEF InOneStage, Writing, Free
    <3>2. job'.stage = job.stage
      BY <1>4, <2>2 DEF Jobs
    <3>3. Working'
      BY <2>1, <3>1, <3>2 DEF Working
    <3> QED BY <3>3 DEF InOneStage
  <2> QED BY <2>3, <2>4
<1> QED BY <1>3, <1>4 DEF OnFenceRequest

(* The connection ends: a frame that was in the queue is gone, and          *)
(* is_updating with it.                                                     *)
LEMMA GoneStage ==
  ASSUME TypeOK, InOneStage, ~Completing, Free => ~isUpdating, stack' = << >>,
         StreamClose, isUpdating' = (isUpdating /\ Callbacks(queue) = {}), job' = job
  PROVE  InOneStage'
<1>1. queue' = << >>
  BY DEF StreamClose
<1>2. None(queue') /\ NoComplete(stack')
  BY <1>1, Bare DEF None, Callbacks
<1>4. CASE Writing
  <2>1. isUpdating' = FALSE /\ job' = NoJob
    BY <1>4 DEF Writing, One
  <2>2. Free'
    BY <1>2, <2>1 DEF Free
  <2> QED BY <2>2 DEF InOneStage
<1>5. CASE Working
  <2>1. isUpdating'
    BY <1>5, Zenon DEF Working, None
  <2>2. Working'
    BY <1>2, <1>5, <2>1 DEF Working
  <2> QED BY <2>2 DEF InOneStage
<1>6. CASE Free
  <2>1. ~isUpdating'
    BY <1>6, Zenon
  <2>2. Free'
    BY <1>2, <1>6, <2>1 DEF Free
  <2> QED BY <2>2 DEF InOneStage
<1> QED BY <1>4, <1>5, <1>6 DEF InOneStage

(* client_close begins, in a handler or between two. *)
LEMMA CloseStage ==
  ASSUME TypeOK, InOneStage,
         DeferredClose \/ ReadError \/ ServerClose \/ OnBadMessage
  PROVE  InOneStage'
<1>1. /\ Idle \/ Running("loop")
      /\ StreamClose /\ isUpdating' = (isUpdating /\ Callbacks(queue) = {})
      /\ stack' = << >> /\ job' = job
  BY Zenon DEF DeferredClose, ReadError, ServerClose, CloseNow, OnBadMessage, NextMessage,
               ClientClose
<1>2. ~Completing /\ (Free => ~isUpdating)
  BY <1>1, IdleStage, RunningStage
<1> QED BY <1>1, <1>2, GoneStage

(* client_close goes on: a frame that was being encoded is not waited for. *)
LEMMA ClosedStage ==
  ASSUME InOneStage, DrainEnds \/ DestroyEnds
  PROVE  InOneStage'
<1>1. /\ UNCHANGED <<queue, stack, isUpdating, job>> /\ life' \in {"destroy", "freed"}
      /\ stack = << >>
  BY DEF DrainEnds, DestroyEnds, streamVars
<1> QED BY <1>1 DEF InOneStage, Writing, Completing, Working, Free

LEMMA EventStage ==
  ASSUME TypeOK, InOneStage, OnClientEvent \/ RemoteClosed \/ ClientSends
  PROVE  InOneStage'
<1>1. stack = << >> /\ Idle
  BY DEF OnClientEvent, RemoteClosed, ClientSends, Idle
<1>2. /\ ~Completing /\ NoComplete(<< >>) /\ AllQuiet(<< >>) /\ AllSettled(<< >>)
      /\ Free => ~isUpdating
  BY <1>1, IdleStage, Bare
<1>3. CASE /\ StreamClose /\ isUpdating' = (isUpdating /\ Callbacks(queue) = {})
           /\ UNCHANGED <<stack, job, life>>
  BY <1>1, <1>2, <1>3, GoneStage
<1>4. CASE /\ stack' \in {<< >>, <<Call("loop")>> \o << >>}
           /\ UNCHANGED <<queue, isUpdating, job, life>>
  <2>1. Call("loop") \in Frames /\ Settled(Call("loop")) /\ << >> \in Seq(Frames)
    BY CallTypes, CallKinds DEF Calls
  <2>2. AllSettled(<<Call("loop")>> \o << >>)
    BY <1>2, <2>1, Stacks
  <2>3. AllSettled(stack') /\ AllQuiet(stack') /\ NoComplete(stack')
    BY <1>2, <1>4, <2>2, Weaker
  <2> QED BY <1>2, <1>4, <2>3, StageOfCall
<1>5. CASE OnClientEvent
  <2>1. UNCHANGED <<job, life>>
    BY <1>5 DEF OnClientEvent, EventFrame
  <2> QED BY <1>1, <1>3, <1>4, <1>5, <2>1 DEF OnClientEvent, ProcessMessages, NoSend, streamVars
<1>6. CASE RemoteClosed
  BY <1>3, <1>6 DEF RemoteClosed, EventFrame
<1>8. CASE ClientSends
  BY <1>1, <1>4, <1>8 DEF ClientSends, EventFrame, streamVars
<1> QED BY <1>5, <1>6, <1>8

LEMMA OnWritableStage ==
  ASSUME TypeOK, ~SendErrors, InOneStage, OnWritable
  PROVE  InOneStage'
<1>1. PICK e \in Seq(Frames) : e = << >>
  <2>1. << >> \in Seq(Frames)
    OBVIOUS
  <2> QED BY <2>1, Zenon
<1>2. /\ SendTypes /\ queue \in Seq(Requests) /\ stack = << >> /\ Idle
      /\ Flush(queue, e, e) /\ UNCHANGED <<job, life>>
  BY <1>1, TypeParts DEF OnWritable, Idle, EventFrame, SendTypes
<1>3. NoComplete(e) /\ AllQuiet(e) /\ AllSettled(e)
  BY <1>1, Bare
<1>4. CASE Writing
  <2>1. One(queue) /\ isUpdating /\ job' = NoJob
    BY <1>2, <1>4 DEF Writing
  <2>2. CASE One(queue') /\ isUpdating' = isUpdating /\ stack' = e
    BY <1>3, <2>1, <2>2 DEF InOneStage, Writing
  <2>3. CASE None(queue') /\ stack' = <<Call("complete")>> \o (<<Call("uncork")>> \o e)
    BY <1>3, <2>1, <2>3, CompletingStage
  <2>4. CASE None(queue') /\ isUpdating' = FALSE /\ stack' = e
    BY <1>3, <2>1, <2>4 DEF InOneStage, Free
  <2> QED BY <1>2, <2>1, <2>2, <2>3, <2>4, FlushOutcome
<1>5. CASE Working \/ Free
  <2>1. None(queue') /\ isUpdating' = isUpdating /\ stack' = e
    BY <1>2, <1>5, FlushOutcome DEF Working, Free
  <2> QED BY <1>1, <1>2, <1>3, <1>5, <2>1 DEF InOneStage, Working, Free
<1> QED BY <1>2, <1>4, <1>5, IdleStage

LEMMA ApplicationCalls ==
  ASSUME ApplicationCall
  PROVE  \/ \E hit \in SUBSET Areas :
              /\ damage' = DamageRegion(hit)
              /\ stale' = stale \cup hit
              /\ job' = [job EXCEPT !.fresh = @ \ hit]
              /\ queue' = [i \in DOMAIN queue |-> [queue[i] EXCEPT !.fresh = @ \ hit]]
         \/ UNCHANGED <<damage, stale, job, queue>>
<1>1. ASSUME NEW a \in Areas, NEW resize \in BOOLEAN, NEW hit,
             hit = (IF resize THEN Areas ELSE {a}),
             damage' = DamageRegion(hit), stale' = stale \cup hit,
             job' = [job EXCEPT !.fresh = @ \ hit],
             queue' = [i \in DOMAIN queue |-> [queue[i] EXCEPT !.fresh = @ \ hit]]
      PROVE  \E h \in SUBSET Areas :
              /\ damage' = DamageRegion(h)
              /\ stale' = stale \cup h
              /\ job' = [job EXCEPT !.fresh = @ \ h]
              /\ queue' = [i \in DOMAIN queue |-> [queue[i] EXCEPT !.fresh = @ \ h]]
  <2>1. hit \in SUBSET Areas
    BY <1>1
  <2>2. WITNESS hit \in SUBSET Areas
  <2> QED BY <1>1
<1>2. CASE UNCHANGED <<damage, stale, job, queue>>
  BY <1>2
<1> QED BY <1>1, <1>2 DEF ApplicationCall

LEMMA ApplicationCallJob ==
  ASSUME TypeOK, ApplicationCall
  PROVE  /\ Callbacks(queue') = Callbacks(queue)
         /\ job' \in Jobs /\ job'.stage = job.stage /\ job'.fenced = job.fenced
         /\ job = NoJob => job' = NoJob
<1>1. ASSUME NEW hit,
             job' = [job EXCEPT !.fresh = @ \ hit],
             queue' = [i \in DOMAIN queue |-> [queue[i] EXCEPT !.fresh = @ \ hit]]
      PROVE  /\ Callbacks(queue') = Callbacks(queue)
             /\ job' \in Jobs /\ job'.stage = job.stage /\ job'.fenced = job.fenced
             /\ job = NoJob => job' = NoJob
  <2>1. queue \in Seq(Requests) /\ job \in Jobs
    BY DEF TypeOK
  <2>2. Callbacks(queue') = Callbacks(queue)
    BY <1>1, <2>1, Outdated, Zenon
  <2>3. /\ job' \in Jobs /\ job'.stage = job.stage /\ job'.fenced = job.fenced
        /\ job'.layout = job.layout /\ job'.fresh = job.fresh \ hit
    BY <1>1, <2>1 DEF Jobs
  <2>4. ASSUME job = NoJob PROVE job' = job
    <3>1. job.fresh = {}
      BY <2>4 DEF NoJob
    <3>2. job'.fresh = job.fresh
      BY <2>3, <3>1
    <3> QED BY <2>1, <2>3, <3>2, SameJob
  <2> QED BY <2>2, <2>3, <2>4
<1>2. CASE UNCHANGED <<job, queue>>
  BY <1>2 DEF TypeOK
<1> QED BY <1>1, <1>2, ApplicationCalls

LEMMA ApplicationCallStage ==
  ASSUME TypeOK, InOneStage, ApplicationCall
  PROVE  InOneStage'
<1>1. /\ stack = << >> /\ stack' = <<CallAt("pfb", 0)>> /\ UNCHANGED <<isUpdating, life>>
  BY DEF ApplicationCall, Idle, EventFrame
<1>2. ~Completing /\ (Writing \/ Working \/ Free) /\ (Free => ~isUpdating)
  BY IdleStage DEF ApplicationCall
<1>3. /\ Callbacks(queue') = Callbacks(queue)
      /\ job' \in Jobs /\ job'.stage = job.stage /\ job'.fenced = job.fenced
      /\ job = NoJob => job' = NoJob
  BY ApplicationCallJob
<1>4. AllSettled(stack') /\ AllQuiet(stack') /\ NoComplete(stack')
  <2>1. CallAt("pfb", 0) \in Frames /\ Settled(CallAt("pfb", 0))
    BY CallTypes, CallKinds
  <2>2. AllSettled(<<CallAt("pfb", 0)>>)
    BY <2>1 DEF AllSettled, On
  <2> QED BY <1>1, <2>2, Weaker
<1>5. CASE Writing
  BY <1>1, <1>3, <1>4, <1>5 DEF InOneStage, Writing, One
<1>6. CASE Working
  BY <1>1, <1>3, <1>4, <1>6 DEF InOneStage, Working, None
<1>7. CASE Free
  BY <1>1, <1>2, <1>3, <1>4, <1>7 DEF InOneStage, Free, None
<1> QED BY <1>2, <1>5, <1>6, <1>7

LEMMA StageInit == Init => InOneStage
<1> SUFFICES ASSUME Init PROVE InOneStage
  OBVIOUS
<1>1. queue = << >> /\ stack = << >> /\ job = NoJob /\ isUpdating = FALSE
  BY DEF Init, StreamInit
<1>2. None(queue) /\ NoComplete(stack)
  BY <1>1, Bare DEF None, Callbacks
<1> QED BY <1>1, <1>2 DEF InOneStage, Free

LEMMA StageStep ==
  ASSUME TypeOK, ~SendErrors, InOneStage, [Next]_vars
  PROVE  InOneStage'
<1>1. CASE Handler
  BY <1>1, FenceStage, EnterUpdateStage, ActiveStage, StartFrameStage, SendPingStage,
     CompleteUpdateStage, ReturnStage, MessageStage, OnFenceRequestStage, CloseStage
     DEF Handler
<1>2. CASE Next /\ ~Handler
  BY <1>2, CompositeDoneStage, FinishUpdateStage, EventStage, CloseStage, ClosedStage,
     OnWritableStage, ApplicationCallStage DEF Next
<1>3. CASE UNCHANGED vars
  BY <1>3 DEF vars, streamVars, updateVars, lifeVars, InOneStage, Writing,
              Completing, Working, Free
<1> QED BY <1>1, <1>2, <1>3 DEF Next

(* Without unhandled errors of sendmsg, an update is in one stage: is_updating *)
(* stands for one frame, which is composited or encoded, or written, or about  *)
(* to be completed, and for none otherwise.                                    *)
THEOREM Staged == ~SendErrors => (Spec => []InOneStage)
<1> SUFFICES ASSUME ~SendErrors PROVE Spec => []InOneStage
  OBVIOUS
<1>1. TypeOK /\ InOneStage /\ [Next]_vars => InOneStage'
  BY StageStep
<1> QED BY <1>1, StageInit, TypeCorrect, PTL DEF Spec

-----------------------------------------------------------------------------
(* Fences and the frame they wait for, whatever fails. *)

(* A fence waits for the job: it is the only update in flight, and no call   *)
(* on the stack can end it or answer a fence.                                *)
FenceHeld ==
  job.fenced => isUpdating /\ None(queue) /\ AllSettled(stack)

LEMMA HeldInit == Init => FenceHeld
BY DEF Init, FenceHeld, NoJob

(* What it says of a call that is running. *)
LEMMA RunningHeld ==
  ASSUME TypeOK, FenceHeld, NEW op, Running(op), job.fenced
  PROVE  Settled(Head(stack)) /\ AllSettled(Caller) /\ AllSettled(stack)
<1>1. stack \in Seq(Frames) /\ stack # << >> /\ Caller = Tail(stack)
  BY RunningType DEF Caller
<1> QED BY <1>1, Popped DEF FenceHeld

(* The other calls are not running while a fence waits. *)
LEMMA UnsettledHeld ==
  ASSUME TypeOK, FenceHeld,
         ProcessPendingFence \/ ResumeAfterFence \/ SendNotification
           \/ BeginDecrement \/ EndDecrement \/ SendPing \/ CompleteUpdate \/ EndFlush
  PROVE  FenceHeld'
<1>1. UNCHANGED job
  BY DEF ProcessPendingFence, ResumeAfterFence, SendNotification, BeginDecrement,
         EndDecrement, SendPing, CompleteUpdate, EndFlush
<1>2. PICK op \in Calls : Running(op) /\ ~Settled(Head(stack))
  BY DEF ProcessPendingFence, ResumeAfterFence, SendNotification, BeginDecrement,
         EndDecrement, SendPing, CompleteUpdate, EndFlush, Running, Settled, Calls
<1>3. ~job.fenced
  BY <1>2, RunningHeld
<1> QED BY <1>1, <1>3 DEF FenceHeld

LEMMA StartEncodingHeld ==
  ASSUME NEW f, StartEncoding(f, FALSE) \/ StartEncoding(f, formatsChanged),
         f \in [stage : {"direct", "composite", "none", "encode", "lost"},
                fresh : SUBSET Areas, layout : Layouts, fenced : BOOLEAN]
  PROVE  job'.fenced => f.fenced /\ isUpdating'
<1>1. \/ job' = LostJob
      \/ job' = NoJob
      \/ job' = [f EXCEPT !.stage = "encode"] /\ isUpdating' = TRUE
  BY DEF StartEncoding
<1> QED BY <1>1 DEF LostJob, NoJob

LEMMA StartFrameHeld ==
  ASSUME TypeOK, FenceHeld, StartFrame
  PROVE  FenceHeld'
<1>1. Running("pfb") /\ ~Settled(Head(stack))
  BY DEF StartFrame, Running, Settled
<1>2. ~job.fenced
  BY <1>1, RunningHeld
<1>3. CASE UNCHANGED job
  BY <1>2, <1>3 DEF FenceHeld
<1>4. CASE \E p \in Pipelines :
             LET f == [stage |-> p, fresh |-> damage, layout |-> layout,
                       fenced |-> FALSE] IN
             \/ /\ p = "direct"
                /\ StartEncoding(f, FALSE)
             \/ /\ p = "composite"
                /\ \/ job' = f
                   \/ "feed" \in EncodeFaults /\ job' = LostJob
                /\ isUpdating' = TRUE
                /\ formatsChanged' = FALSE
                /\ UNCHANGED <<onDone, nPending>>
  <2>0. PICK p \in {"direct", "composite"} : \E f :
             /\ f = [stage |-> p, fresh |-> damage, layout |-> layout, fenced |-> FALSE]
             /\ StartEncoding(f, FALSE) \/ job' \in {f, LostJob}
    BY <1>4
  <2>1. PICK f :
             /\ f = [stage |-> p, fresh |-> damage, layout |-> layout, fenced |-> FALSE]
             /\ StartEncoding(f, FALSE) \/ job' \in {f, LostJob}
    BY <2>0
  <2>2. /\ f \in [stage : {"direct", "composite", "none", "encode", "lost"},
                  fresh : SUBSET Areas, layout : Layouts, fenced : BOOLEAN]
        /\ ~f.fenced
    BY <2>1 DEF TypeOK
  <2>3. ~job'.fenced
    BY <2>1, <2>2, StartEncodingHeld DEF LostJob, NoJob
  <2> QED BY <2>3 DEF FenceHeld
<1> QED BY <1>3, <1>4, Zenon DEF StartFrame

(* process_fb_update_requests returns at once while an update is under way. *)
LEMMA EnterUpdateHeld ==
  ASSUME TypeOK, FenceHeld, EnterUpdate
  PROVE  FenceHeld'
<1> SUFFICES ASSUME job'.fenced
             PROVE  isUpdating' /\ None(queue') /\ AllSettled(stack')
  BY DEF FenceHeld
<1>1. Running("pfb") /\ UNCHANGED <<job, queue, isUpdating>>
  BY DEF EnterUpdate, NoSend, streamVars
<1>2. isUpdating /\ None(queue) /\ AllSettled(Caller)
  BY <1>1, RunningHeld DEF FenceHeld
<1>3. stack' = Caller
  BY <1>2 DEF EnterUpdate, ReturnsAtOnce
<1> QED BY <1>1, <1>2, <1>3

(* A message that is not a frame completes none. *)
LEMMA SendHeld ==
  ASSUME TypeOK, FenceHeld, NEW kind \in {"fence", "other"},
         Send(<<Item(kind)>>, stack, stack), UNCHANGED job
  PROVE  FenceHeld'
<1> SUFFICES ASSUME job.fenced
             PROVE  isUpdating' /\ None(queue') /\ AllSettled(stack')
  BY DEF FenceHeld
<1>1. SendTypes /\ stack \in Seq(Frames)
  BY TypeParts DEF SendTypes
<1>2. <<Item(kind)>> \in Seq(Requests) /\ None(<<Item(kind)>>)
  BY ItemType
<1>3. isUpdating /\ None(queue) /\ AllSettled(stack)
  BY DEF FenceHeld
<1> QED BY <1>1, <1>2, <1>3, SendOutcome

LEMMA MessageHeld ==
  ASSUME TypeOK, FenceHeld,
         LoopEnds \/ IgnoreRequest \/ RefuseFence \/ OnFbUpdateRequest
           \/ OnSetEncodings \/ OnSetPixelFormat \/ OnEnableContinuousUpdates
           \/ OnFenceResponse
  PROVE  FenceHeld'
<1>1. Running("loop") /\ UNCHANGED job
  BY DEF LoopEnds, IgnoreRequest, RefuseFence, OnFbUpdateRequest, OnSetEncodings,
         OnSetPixelFormat, OnEnableContinuousUpdates, OnFenceResponse, NextMessage
<1>2. CASE Send(<<Item("other")>>, stack, stack)
  BY <1>1, <1>2, SendHeld
<1>3. CASE stack' \in {Caller, stack, <<CallAt("pfb", 0)>> \o stack} /\ NoSend
  <2> SUFFICES ASSUME job.fenced
               PROVE  isUpdating' /\ None(queue') /\ AllSettled(stack')
    BY <1>1 DEF FenceHeld
  <2>1. /\ stack \in Seq(Frames) /\ AllSettled(Caller) /\ AllSettled(stack)
        /\ isUpdating /\ None(queue)
    BY <1>1, RunningHeld, RunningType DEF FenceHeld
  <2>2. CallAt("pfb", 0) \in Frames /\ Settled(CallAt("pfb", 0))
    BY CallTypes, CallKinds
  <2>3. AllSettled(<<CallAt("pfb", 0)>> \o stack)
    BY <2>1, <2>2, Stacks
  <2> QED BY <1>3, <2>1, <2>3 DEF NoSend, streamVars
<1> QED BY <1>2, <1>3 DEF LoopEnds, IgnoreRequest, RefuseFence, OnFbUpdateRequest,
           OnSetEncodings, OnSetPixelFormat, OnEnableContinuousUpdates,
           OnFenceResponse, Accept

LEMMA OnFenceRequestHeld ==
  ASSUME TypeOK, FenceHeld, OnFenceRequest
  PROVE  FenceHeld'
<1>1. CASE Send(<<Item("fence")>>, stack, stack) /\ UNCHANGED job
  BY <1>1, SendHeld
<1>2. CASE /\ job' = [job EXCEPT !.fenced = OnlyJobInFlight /\ Len(stack) = 1]
           /\ stack' = stack /\ NoSend
  <2> SUFFICES ASSUME job'.fenced
               PROVE  isUpdating' /\ None(queue') /\ AllSettled(stack')
    BY DEF FenceHeld
  <2>1. OnlyJobInFlight /\ Len(stack) = 1
    BY <1>2 DEF TypeOK, Jobs
  <2>2. Running("loop")
    BY DEF OnFenceRequest, NextMessage
  <2>3. AllSettled(stack)
    <3>1. /\ stack \in Seq(Frames) /\ stack # << >> /\ Head(stack).op = "loop"
      BY <2>2, RunningType
    <3>2. Len(Tail(stack)) = 0 /\ Tail(stack) \in Seq(Frames)
      BY <2>1, <3>1
    <3>3. AllSettled(Tail(stack))
      BY <3>2, Short
    <3> QED BY <3>1, <3>3, Popped DEF Settled
  <2>4. isUpdating' /\ None(queue')
    BY <1>2, <2>1 DEF OnlyJobInFlight, None, NoSend, streamVars
  <2> QED BY <1>2, <2>3, <2>4
<1> QED BY <1>1, <1>2 DEF OnFenceRequest

LEMMA CompositeDoneHeld ==
  ASSUME TypeOK, FenceHeld, CompositeDone
  PROVE  FenceHeld'
<1> SUFFICES ASSUME job'.fenced
             PROVE  isUpdating' /\ None(queue') /\ AllSettled(stack')
  BY DEF FenceHeld
<1>1. UNCHANGED <<stack, queue>> /\ (StartEncoding(job, formatsChanged) \/ job' = NoJob)
  BY DEF CompositeDone, streamVars
<1>2. job \in [stage : {"direct", "composite", "none", "encode", "lost"},
               fresh : SUBSET Areas, layout : Layouts, fenced : BOOLEAN]
  BY DEF TypeOK, Jobs
<1>3. job.fenced /\ isUpdating'
  <2>1. job' # NoJob
    BY DEF NoJob
  <2> QED BY <1>1, <1>2, <2>1, StartEncodingHeld
<1> QED BY <1>1, <1>3 DEF FenceHeld

LEMMA EventHeld ==
  ASSUME TypeOK, FenceHeld,
         OnClientEvent \/ RemoteClosed \/ ClientSends \/ OnWritable
  PROVE  FenceHeld'
<1> SUFFICES ASSUME job'.fenced
             PROVE  isUpdating' /\ None(queue') /\ AllSettled(stack')
  BY DEF FenceHeld
<1>1. stack = << >> /\ job' \in {job, NoJob}
  BY DEF OnClientEvent, RemoteClosed, ClientSends, OnWritable, Idle
<1>2. job.fenced /\ isUpdating /\ None(queue)
  BY <1>1 DEF FenceHeld, NoJob
<1>3. CASE /\ StreamClose /\ isUpdating' = (isUpdating /\ Callbacks(queue) = {})
           /\ stack' = << >>
  <2>1. queue' = << >>
    BY <1>3 DEF StreamClose
  <2>2. None(queue') /\ AllSettled(stack')
    BY <1>3, <2>1, Bare DEF None, Callbacks
  <2>3. isUpdating'
    BY <1>2, <1>3, Zenon DEF None
  <2> QED BY <2>2, <2>3
<1>4. CASE /\ stack' \in {<< >>, <<Call("loop")>> \o << >>}
           /\ UNCHANGED <<queue, isUpdating>>
  <2>1. Call("loop") \in Frames /\ Settled(Call("loop")) /\ << >> \in Seq(Frames)
    BY CallTypes, CallKinds DEF Calls
  <2>2. AllSettled(<< >>) /\ AllSettled(<<Call("loop")>> \o << >>)
    BY <2>1, Bare, Stacks
  <2> QED BY <1>2, <1>4, <2>2
<1>5. CASE OnClientEvent
  BY <1>1, <1>3, <1>4, <1>5 DEF OnClientEvent, ProcessMessages, NoSend, streamVars
<1>6. CASE RemoteClosed
  BY <1>1, <1>3, <1>6 DEF RemoteClosed
<1>8. CASE ClientSends
  BY <1>1, <1>4, <1>8 DEF ClientSends, streamVars
<1>9. CASE OnWritable
  <2>1. PICK e \in Seq(Frames) : e = << >>
    <3>1. << >> \in Seq(Frames)
      OBVIOUS
    <3> QED BY <3>1, Zenon
  <2>2. SendTypes /\ queue \in Seq(Requests) /\ Flush(queue, e, e)
    BY <1>9, <2>1, TypeParts DEF OnWritable, SendTypes
  <2>3. None(queue') /\ isUpdating' = isUpdating /\ stack' = e
    BY <1>2, <2>2, FlushOutcome
  <2> QED BY <1>2, <2>1, <2>3, Bare
<1> QED BY <1>5, <1>6, <1>8, <1>9

LEMMA ClosingHeld ==
  ASSUME TypeOK, FenceHeld, Closing
  PROVE  FenceHeld'
<1> SUFFICES ASSUME job'.fenced
             PROVE  isUpdating' /\ None(queue') /\ AllSettled(stack')
  BY DEF FenceHeld
<1>1. job' = job /\ stack' = << >>
  BY ClosingStep, Zenon
<1>2. isUpdating /\ None(queue)
  BY <1>1 DEF FenceHeld
<1>3. AllSettled(stack')
  BY <1>1, Bare
<1>4. CASE StreamClose /\ isUpdating' = (isUpdating /\ Callbacks(queue) = {})
  <2>1. queue' = << >>
    BY <1>4 DEF StreamClose
  <2>2. None(queue')
    BY <2>1 DEF None, Callbacks
  <2>3. isUpdating'
    BY <1>2, <1>4, Zenon DEF None
  <2> QED BY <1>3, <2>2, <2>3
<1>5. CASE UNCHANGED <<streamVars, isUpdating>>
  BY <1>2, <1>3, <1>5 DEF streamVars
<1> QED BY <1>4, <1>5, ClosingStep

LEMMA ApplicationCallHeld ==
  ASSUME TypeOK, FenceHeld, ApplicationCall
  PROVE  FenceHeld'
<1>1. stack' = <<CallAt("pfb", 0)>> /\ UNCHANGED isUpdating
  BY DEF ApplicationCall
<1>2. Callbacks(queue') = Callbacks(queue) /\ job'.fenced = job.fenced
  BY ApplicationCallJob
<1>3. AllSettled(stack')
  BY <1>1, CallKinds DEF AllSettled, On
<1> QED BY <1>1, <1>2, <1>3 DEF FenceHeld, None

LEMMA HeldStep ==
  ASSUME TypeOK, FenceHeld, [Next]_vars
  PROVE  FenceHeld'
<1>1. CASE Handler \/ Closing
  BY <1>1, UnsettledHeld, EnterUpdateHeld, StartFrameHeld, MessageHeld,
     OnFenceRequestHeld, ClosingHeld DEF Handler, Closing
<1>2. CASE FinishUpdate
  BY <1>2 DEF FinishUpdate, FenceHeld, NoJob
<1>3. CASE CompositeDone \/ OnClientEvent \/ RemoteClosed \/ OnWritable
           \/ ApplicationCall \/ ClientSends
  BY <1>3, CompositeDoneHeld, EventHeld, ApplicationCallHeld
<1>4. CASE UNCHANGED vars
  BY <1>4 DEF vars, streamVars, updateVars, FenceHeld
<1> QED BY <1>1, <1>2, <1>3, <1>4 DEF Next, Closing

(* Only process_pending_fence forgets a fence. *)
LEMMA FenceForgotten ==
  ASSUME TypeOK, [Next]_vars, fence' # fence
  PROVE  Running("ppf") \/ Running("ppf2") \/ fence'.n # 0
<1>1. CASE ProcessPendingFence \/ ResumeAfterFence
  BY <1>1 DEF ProcessPendingFence, ResumeAfterFence
<1>2. CASE OnFenceRequest
  BY <1>2 DEF OnFenceRequest
<1>3. ~(EnterUpdate \/ SendNotification \/ BeginDecrement \/ EndDecrement
          \/ StartFrame \/ CompleteUpdate \/ EndFlush \/ CompositeDone)
  BY DEF EnterUpdate, SendNotification, BeginDecrement, EndDecrement, StartFrame,
         CompleteUpdate, EndFlush, CompositeDone, PfbVars, fenceVars
<1>4. ~(SendPing \/ LoopEnds \/ IgnoreRequest \/ RefuseFence \/ OnFbUpdateRequest
          \/ OnSetEncodings \/ OnSetPixelFormat \/ OnEnableContinuousUpdates
          \/ OnFenceResponse)
  BY DEF SendPing, LoopEnds, IgnoreRequest, RefuseFence, OnFbUpdateRequest,
         OnSetEncodings, OnSetPixelFormat, OnEnableContinuousUpdates,
         OnFenceResponse, BlockIfMust, fenceVars
<1>5. ~(OnClientEvent \/ RemoteClosed \/ OnWritable \/ ApplicationCall \/ ClientSends
          \/ FinishUpdate)
  BY DEF OnClientEvent, RemoteClosed, OnWritable, ApplicationCall, ClientSends,
         FinishUpdate, EventFrame, fenceVars
<1>6. ~UNCHANGED vars
  BY DEF vars, fenceVars
<1>7. ~Closing
  BY ClosingStep DEF BlockIfMust, fenceVars
<1> QED BY <1>1, <1>2, <1>3, <1>4, <1>5, <1>6, <1>7 DEF Next, Handler, Closing

(* process_pending_fence answers a fence that on_client_event received       *)
(* during a frame, the only one in flight, only after finish_fb_update has   *)
(* queued or dropped that frame, whatever fences, continuous updates, nested *)
(* calls and failures there are.                                             *)
THEOREM FencesWait == Spec => FenceAfterFrame
<1>1. TypeOK /\ FenceHeld /\ [Next]_vars =>
        [fence.n > 0 /\ fence'.n = 0 => ~job.fenced]_fence
  <2> SUFFICES ASSUME TypeOK, FenceHeld, [Next]_vars, fence' # fence, fence'.n = 0,
                      job.fenced
               PROVE  FALSE
    OBVIOUS
  <2>1. PICK op \in {"ppf", "ppf2"} : Running(op)
    BY FenceForgotten
  <2>2. Settled(Head(stack)) /\ Head(stack).op = op
    BY <2>1, RunningHeld, RunningType
  <2> QED BY <2>1, <2>2 DEF Settled
<1>2. TypeOK /\ FenceHeld /\ [Next]_vars => FenceHeld'
  BY HeldStep
<1> QED BY <1>1, <1>2, HeldInit, TypeCorrect, PTL DEF Spec, FenceAfterFrame

-----------------------------------------------------------------------------
(* A client without fence requests. *)

NoFenceRequests == \A m \in Msgs : m.type # "fence"

(* What the client has sent and the server has not processed. *)
Unprocessed == On(net) \cup On(buffer)

(* No fence is pending or on its way. *)
NoFences ==
  /\ fence = NoFence /\ isBlocked = FALSE /\ mustBlock = FALSE
  /\ \A m \in Unprocessed : m.type # "fence"

Plain(c) == ~Active(c) /\ c.op # "ppf2"
AllPlain(s) == \A c \in On(s) : Plain(c)

(* One call at most is past the early returns of process_fb_update_requests: *)
(* the innermost, or the one that has just called process_pending_fence.     *)
Nesting(s) ==
  \/ AllPlain(s)
  \/ s # << >> /\ Active(Head(s)) /\ AllPlain(Tail(s))
  \/ /\ s # << >> /\ Head(s).op = "ppf"
     /\ Tail(s) # << >> /\ Head(Tail(s)).op = "dec2" /\ AllPlain(Tail(Tail(s)))

(* It runs only while no update is in flight. *)
Nested ==
  /\ aborted = FALSE
  /\ Nesting(stack)
  /\ isUpdating => AllPlain(stack)

LEMMA Concat ==
  ASSUME NEW S, NEW s \in Seq(S), NEW t \in Seq(S)
  PROVE  On(s \o t) \subseteq On(s) \cup On(t)
<1>1. /\ Len(s \o t) = Len(s) + Len(t) /\ Len(s) \in Nat /\ Len(t) \in Nat
      /\ \A i \in 1..Len(s) + Len(t) : (s \o t)[i] = IF i <= Len(s) THEN s[i] ELSE t[i - Len(s)]
  BY ConcatProperties
<1>2. PICK u : u = s \o t
  OBVIOUS
<1>3. \A i \in 1..Len(u) : \/ i \in 1..Len(s) /\ u[i] = s[i]
                           \/ i - Len(s) \in 1..Len(t) /\ u[i] = t[i - Len(s)]
  BY <1>1, <1>2
<1> QED BY <1>2, <1>3 DEF On

LEMMA Part ==
  ASSUME NEW S, NEW s \in Seq(S), NEW i \in Nat \ {0}, NEW j \in Nat, j <= Len(s)
  PROVE  SubSeq(s, i, j) \in Seq(S) /\ On(SubSeq(s, i, j)) \subseteq On(s)
<1>1. \A k \in i..j : s[k] \in S
  OBVIOUS
<1>2. /\ SubSeq(s, i, j) \in Seq(S)
      /\ Len(SubSeq(s, i, j)) = IF i <= j THEN j - i + 1 ELSE 0
      /\ \A k \in 1..j - i + 1 : SubSeq(s, i, j)[k] = s[i + k - 1]
  BY <1>1, SubSeqProperties
<1>3. PICK u : u = SubSeq(s, i, j)
  OBVIOUS
<1>4. Len(s) \in Nat /\ Len(u) \in Nat
  BY <1>2, <1>3
<1>5. \A k \in 1..Len(u) : k \in 1..j - i + 1 /\ i + k - 1 \in 1..Len(s)
  BY <1>2, <1>3, <1>4
<1>6. \A k \in 1..Len(u) : i + k - 1 \in 1..Len(s) /\ u[k] = s[i + k - 1]
  BY <1>2, <1>3, <1>5
<1>7. On(u) \subseteq On(s)
  BY <1>6 DEF On
<1> QED BY <1>2, <1>3, <1>7

(* What a step adds to the messages on their way. *)
LEMMA Arrivals ==
  ASSUME TypeOK, [Next]_vars
  PROVE  \A m \in Unprocessed' : m \in Unprocessed \/ m \in Msgs \/ m = [type |-> "pong"]
<1>0. net \in Seq(Messages) /\ buffer \in Seq(Messages)
  BY DEF TypeOK
<1>1. CASE UNCHANGED <<net, buffer>>
  BY <1>1 DEF Unprocessed
<1>2. CASE UNCHANGED net /\ buffer # << >> /\ buffer' = Tail(buffer)
  <2>1. On(buffer') \subseteq On(buffer)
    BY <1>0, <1>2, Pop
  <2> QED BY <1>2, <2>1 DEF Unprocessed
<1>3. ASSUME NEW k \in 1..Len(net), buffer' = buffer \o SubSeq(net, 1, k),
             net' = SubSeq(net, k + 1, Len(net))
      PROVE  Unprocessed' \subseteq Unprocessed
  <2>1. Len(net) \in Nat /\ k \in Nat /\ k <= Len(net) /\ k + 1 \in Nat \ {0} /\ 1 \in Nat \ {0}
    BY <1>0
  <2>2. SubSeq(net, 1, k) \in Seq(Messages) /\ On(SubSeq(net, 1, k)) \subseteq On(net)
    BY <1>0, <2>1, Part
  <2>3. On(net') \subseteq On(net)
    BY <1>0, <1>3, <2>1, Part
  <2>4. On(buffer') \subseteq On(buffer) \cup On(SubSeq(net, 1, k))
    BY <1>0, <1>3, <2>2, Concat
  <2> QED BY <2>2, <2>3, <2>4 DEF Unprocessed
<1>4. ASSUME NEW m, m \in Msgs \/ m = [type |-> "pong"], net' = Append(net, m), UNCHANGED buffer
      PROVE  \A n \in Unprocessed' : n \in Unprocessed \/ n = m
  <2>1. /\ Len(net) \in Nat /\ Len(net') = Len(net) + 1
        /\ \A i \in 1..Len(net) : net'[i] = net[i]
        /\ net'[Len(net) + 1] = m
    BY <1>0, <1>4
  <2>2. \A i \in 1..Len(net') : i \in 1..Len(net) \/ i = Len(net) + 1
    BY <2>1
  <2>3. \A n \in On(net') : n \in On(net) \/ n = m
    BY <2>1, <2>2 DEF On
  <2> QED BY <1>4, <2>3 DEF Unprocessed
<1>5. CASE OnFbUpdateRequest \/ OnSetEncodings \/ OnSetPixelFormat
           \/ OnEnableContinuousUpdates \/ OnFenceResponse \/ OnFenceRequest
  <2>1. UNCHANGED net /\ buffer # << >> /\ buffer' = Tail(buffer)
    BY <1>5 DEF OnFbUpdateRequest, OnSetEncodings, OnSetPixelFormat,
         OnEnableContinuousUpdates, OnFenceResponse, OnFenceRequest, NextMessage,
         Accept, HandlerFrame
  <2> QED BY <1>2, <2>1
<1>6. CASE EnterUpdate \/ SendNotification \/ BeginDecrement \/ EndDecrement
          \/ StartFrame \/ CompleteUpdate \/ EndFlush \/ CompositeDone
  BY <1>1, <1>6 DEF EnterUpdate, SendNotification, BeginDecrement, EndDecrement, StartFrame,
         CompleteUpdate, EndFlush, CompositeDone, PfbVars, loopVars
<1>7. CASE ProcessPendingFence \/ ResumeAfterFence \/ SendPing \/ LoopEnds \/ IgnoreRequest \/ RefuseFence
  BY <1>1, <1>7 DEF ProcessPendingFence, ResumeAfterFence, SendPing, LoopEnds, IgnoreRequest,
         RefuseFence, loopVars
<1>8. CASE RemoteClosed \/ OnWritable \/ ApplicationCall \/ FinishUpdate \/ Closing
  BY <1>1, <1>8, ClosingStep DEF RemoteClosed, OnWritable, ApplicationCall, FinishUpdate,
         loopVars
<1>9. CASE OnClientEvent
  BY <1>1, <1>3, <1>9 DEF OnClientEvent
<1>10. CASE ClientSends
  <2>1. UNCHANGED buffer
    BY <1>10 DEF ClientSends
  <2>2. \/ \E m \in Msgs : net' = Append(net, m)
        \/ net' = Append(net, [type |-> "pong"])
    BY <1>10 DEF ClientSends
  <2> QED BY <1>4, <2>1, <2>2
<1>11. CASE UNCHANGED vars
  BY <1>1, <1>11 DEF vars, loopVars
<1> QED BY <1>5, <1>6, <1>7, <1>8, <1>9, <1>10, <1>11 DEF Next, Handler, Closing

LEMMA NoFenceMessage ==
  ASSUME TypeOK, NoFences
  PROVE  ~NextMessage("fence")
<1> SUFFICES ASSUME NextMessage("fence") PROVE FALSE
  OBVIOUS
<1>1. Head(buffer).type = "fence" /\ Head(buffer) \in On(buffer)
  BY MessageAtHead
<1> QED BY <1>1 DEF NoFences, Unprocessed

LEMMA FencesStep ==
  ASSUME TypeOK, NoFenceRequests, NoFences, [Next]_vars
  PROVE  NoFences'
<1>1. \A m \in Unprocessed' : m.type # "fence"
  <2>1. [type |-> "pong"].type # "fence"
    OBVIOUS
  <2> QED BY <2>1, Arrivals DEF NoFences, NoFenceRequests
<1>2. fence = NoFence /\ isBlocked = FALSE /\ mustBlock = FALSE
  BY DEF NoFences
<1>3. fence' = NoFence /\ isBlocked' = FALSE /\ mustBlock' = FALSE
  <2>1. CASE UNCHANGED <<fence, isBlocked, mustBlock>> \/ BlockIfMust
    BY <1>2, <2>1 DEF BlockIfMust
  <2>2. CASE ProcessPendingFence
    <3>1. fence.n = 0
      BY <1>2 DEF NoFence
    <3> QED BY <2>1, <2>2, <3>1 DEF ProcessPendingFence
  <2>3. CASE ResumeAfterFence
    BY <1>2, <2>3 DEF ResumeAfterFence
  <2>4. CASE EnterUpdate \/ SendNotification \/ BeginDecrement \/ EndDecrement
          \/ StartFrame \/ CompleteUpdate \/ EndFlush \/ CompositeDone
    BY <2>1, <2>4 DEF EnterUpdate, SendNotification, BeginDecrement, EndDecrement,
           StartFrame, CompleteUpdate, EndFlush, CompositeDone, PfbVars, fenceVars
  <2>5. CASE SendPing \/ LoopEnds \/ IgnoreRequest \/ OnFbUpdateRequest
          \/ OnSetEncodings \/ OnSetPixelFormat \/ OnEnableContinuousUpdates
          \/ OnFenceResponse
    BY <2>1, <2>5 DEF SendPing, LoopEnds, IgnoreRequest, OnFbUpdateRequest,
           OnSetEncodings, OnSetPixelFormat, OnEnableContinuousUpdates,
           OnFenceResponse, fenceVars
  <2>6. ~RefuseFence /\ ~OnFenceRequest
    BY NoFenceMessage DEF RefuseFence, OnFenceRequest
  <2>7. CASE OnClientEvent \/ RemoteClosed \/ OnWritable \/ ApplicationCall
          \/ ClientSends \/ FinishUpdate \/ Closing
    BY <2>1, <2>7, ClosingStep DEF OnClientEvent, RemoteClosed, OnWritable,
           ApplicationCall, ClientSends, FinishUpdate, EventFrame, fenceVars
  <2>8. CASE UNCHANGED vars
    BY <2>1, <2>8 DEF vars, fenceVars
  <2> QED BY <2>2, <2>3, <2>4, <2>5, <2>6, <2>7, <2>8 DEF Next, Handler, Closing
<1> QED BY <1>1, <1>3 DEF NoFences

-----------------------------------------------------------------------------
(* How process_fb_update_requests is nested then. *)

LEMMA PlainStacks ==
  ASSUME NEW c \in Frames, NEW s \in Seq(Frames)
  PROVE  AllPlain(<<c>> \o s) <=> Plain(c) /\ AllPlain(s)
<1>1. On(<<c>> \o s) = {c} \cup On(s)
  BY Push
<1> QED BY <1>1 DEF AllPlain

LEMMA PlainPopped ==
  ASSUME NEW s \in Seq(Frames), s # << >>
  PROVE  AllPlain(s) <=> Plain(Head(s)) /\ AllPlain(Tail(s))
<1>1. On(s) = {Head(s)} \cup On(Tail(s))
  BY Pop
<1> QED BY <1>1 DEF AllPlain

LEMMA PlainBare == AllPlain(<< >>)
BY OnEmpty DEF AllPlain

LEMMA PlainCalls ==
  /\ \A op \in Calls \ {"pfb", "dec", "dec2", "ppf2"} : Plain(Call(op))
  /\ Plain(CallAt("pfb", 0))
BY DEF Plain, Active, Call, CallAt, Calls

(* A call that is not past the early returns, nor on its way back to one    *)
(* that is, runs on a plain stack.                                          *)
LEMMA RunningPlain ==
  ASSUME TypeOK, Nested, NEW op, Running(op)
  PROVE  /\ Active(Head(stack)) => ~isUpdating /\ AllPlain(Caller)
         /\ ~Active(Head(stack)) /\ op # "ppf" => AllPlain(stack) /\ AllPlain(Caller)
         /\ op # "ppf2"
<1>1. stack \in Seq(Frames) /\ stack # << >> /\ Head(stack).op = op /\ Caller = Tail(stack)
  BY RunningType DEF Caller
<1>2. AllPlain(stack) <=> Plain(Head(stack)) /\ AllPlain(Caller)
  BY <1>1, PlainPopped
<1>3. ~Active(Head(stack)) /\ op # "ppf" => AllPlain(stack)
  BY <1>1 DEF Nested, Nesting
<1>4. Active(Head(stack)) => ~AllPlain(stack) /\ AllPlain(Caller)
  BY <1>1, <1>2 DEF Nested, Nesting, Plain, Active
<1>5. op # "ppf2"
  BY <1>1, <1>2, <1>3 DEF Plain, Active
<1> QED BY <1>2, <1>3, <1>4, <1>5 DEF Nested

(* A message sent from a plain stack. *)
LEMMA PlainSend ==
  ASSUME TypeOK, ~SendErrors, InOneStage, ~Completing,
         NEW items \in Seq(Requests), None(items),
         NEW ok \in Seq(Frames), NEW bad \in Seq(Frames), Send(items, ok, bad),
         AllPlain(ok), AllPlain(bad)
  PROVE  AllPlain(stack')
<1>1. SendTypes
  BY TypeParts
<1>2. None(queue) \/ One(queue)
  BY DEF InOneStage, Writing, Working, Free, Completing
<1>3. stack' \in {ok, bad, <<Call("complete")>> \o (<<Call("uncork")>> \o ok)}
  BY <1>1, <1>2, SendOutcome
<1>4. /\ Call("complete") \in Frames /\ Call("uncork") \in Frames
      /\ Plain(Call("complete")) /\ Plain(Call("uncork"))
  BY CallTypes, PlainCalls DEF Calls
<1>5. <<Call("uncork")>> \o ok \in Seq(Frames) /\ AllPlain(<<Call("uncork")>> \o ok)
  BY <1>4, Stacks, PlainStacks
<1>6. AllPlain(<<Call("complete")>> \o (<<Call("uncork")>> \o ok))
  BY <1>4, <1>5, PlainStacks
<1> QED BY <1>3, <1>6

(* The handlers that begin and end on a plain stack. *)
PlainHandler ==
  \/ SendPing \/ CompleteUpdate \/ EndFlush \/ LoopEnds \/ IgnoreRequest
  \/ OnFbUpdateRequest \/ OnSetEncodings \/ OnSetPixelFormat
  \/ OnEnableContinuousUpdates \/ OnFenceResponse

PlainEvent ==
  \/ CompositeDone \/ FinishUpdate \/ OnClientEvent \/ RemoteClosed
  \/ OnWritable \/ ApplicationCall \/ ClientSends

LEMMA PlainHandlers ==
  ASSUME TypeOK, ~SendErrors, InOneStage, Nested, PlainHandler
  PROVE  AllPlain(stack) /\ AllPlain(stack') /\ UNCHANGED aborted
<1>1. PICK op \in {"ping", "complete", "uncork", "loop"} : Running(op)
  BY DEF PlainHandler, SendPing, CompleteUpdate, EndFlush, LoopEnds, IgnoreRequest,
         OnFbUpdateRequest, OnSetEncodings, OnSetPixelFormat,
         OnEnableContinuousUpdates, OnFenceResponse, NextMessage
<1>2. stack \in Seq(Frames) /\ Caller \in Seq(Frames) /\ Head(stack).op = op
  BY <1>1, RunningType
<1>3. AllPlain(stack) /\ AllPlain(Caller)
  BY <1>1, <1>2, RunningPlain DEF Active
<1>4. UNCHANGED aborted
  BY DEF PlainHandler, SendPing, CompleteUpdate, EndFlush, LoopEnds, IgnoreRequest,
         OnFbUpdateRequest, OnSetEncodings, OnSetPixelFormat,
         OnEnableContinuousUpdates, OnFenceResponse, HandlerFrame
<1>5. CallAt("pfb", 0) \in Frames /\ Plain(CallAt("pfb", 0))
  BY CallTypes, PlainCalls
<1>6. AllPlain(<<CallAt("pfb", 0)>> \o stack) /\ AllPlain(<<CallAt("pfb", 0)>> \o Caller)
  BY <1>2, <1>3, <1>5, PlainStacks
<1>7. ASSUME op # "complete", NEW kind \in {"ping", "other"}, NEW s \in {stack, Caller},
             Send(<<Item(kind)>>, s, s)
      PROVE  AllPlain(stack')
  <2>1. ~Completing
    BY <1>1, <1>7, RunningStage
  <2>2. <<Item(kind)>> \in Seq(Requests) /\ None(<<Item(kind)>>)
    BY ItemType
  <2> QED BY <1>2, <1>3, <1>7, <2>1, <2>2, PlainSend
<1>8. CASE CompleteUpdate \/ EndFlush \/ LoopEnds \/ IgnoreRequest \/ OnFbUpdateRequest
           \/ OnFenceResponse
  <2>1. stack' \in {Caller, <<CallAt("pfb", 0)>> \o Caller, <<CallAt("pfb", 0)>> \o stack}
    BY <1>8 DEF CompleteUpdate, EndFlush, LoopEnds, IgnoreRequest, OnFbUpdateRequest,
                OnFenceResponse, Accept
  <2> QED BY <1>3, <1>4, <1>6, <2>1
<1>9. CASE SendPing
  <2>1. Running("ping")
    BY <1>9 DEF SendPing
  <2>2. op # "complete"
    BY <1>2, <2>1, RunningType
  <2>3. CASE Send(<<Item("ping")>>, Caller, Caller)
    BY <1>3, <1>4, <1>7, <2>2, <2>3
  <2>4. CASE stack' = Caller
    BY <1>3, <1>4, <2>4
  <2> QED BY <1>9, <2>3, <2>4 DEF SendPing
<1>10. CASE OnSetEncodings \/ OnSetPixelFormat \/ OnEnableContinuousUpdates
  <2>1. Running("loop")
    BY <1>10 DEF OnSetEncodings, OnSetPixelFormat, OnEnableContinuousUpdates, NextMessage
  <2>2. op # "complete"
    BY <1>2, <2>1, RunningType
  <2>3. CASE Send(<<Item("other")>>, stack, stack)
    BY <1>3, <1>4, <1>7, <2>2, <2>3
  <2>4. CASE stack' \in {stack, <<CallAt("pfb", 0)>> \o stack}
    BY <1>3, <1>4, <1>6, <2>4
  <2> QED BY <1>10, <2>3, <2>4 DEF OnSetEncodings, OnSetPixelFormat,
                                   OnEnableContinuousUpdates
<1> QED BY <1>8, <1>9, <1>10 DEF PlainHandler

LEMMA PlainEvents ==
  ASSUME TypeOK, ~SendErrors, InOneStage, PlainEvent
  PROVE  AllPlain(stack) /\ AllPlain(stack') /\ UNCHANGED aborted
<1>1. stack = << >>
  BY DEF PlainEvent, CompositeDone, FinishUpdate, OnClientEvent, RemoteClosed,
         OnWritable, ApplicationCall, ClientSends, Idle
<1>2. UNCHANGED aborted
  BY DEF PlainEvent, CompositeDone, FinishUpdate, OnClientEvent, RemoteClosed,
         OnWritable, ApplicationCall, ClientSends, EventFrame
<1>3. PICK e \in Seq(Frames) : e = << >>
  <2>1. << >> \in Seq(Frames)
    OBVIOUS
  <2> QED BY <2>1, Zenon
<1>4. AllPlain(e)
  BY <1>3, PlainBare
<1>5. \A op \in {"complete", "uncork", "loop", "ping", "ppf"} :
        Call(op) \in Frames /\ Plain(Call(op))
  BY CallTypes, PlainCalls DEF Calls
<1>6. CASE CompositeDone \/ RemoteClosed \/ ClientSends
  <2>1. stack' = e
    BY <1>1, <1>3, <1>6 DEF CompositeDone, RemoteClosed, ClientSends
  <2> QED BY <1>1, <1>2, <1>3, <1>4, <2>1
<1>7. CASE OnClientEvent
  <2>1. stack' \in {e, <<Call("loop")>> \o e}
    BY <1>1, <1>3, <1>7 DEF OnClientEvent, ProcessMessages
  <2>2. AllPlain(<<Call("loop")>> \o e)
    BY <1>4, <1>5, PlainStacks
  <2> QED BY <1>1, <1>2, <1>3, <1>4, <2>1, <2>2
<1>8. CASE ApplicationCall
  <2>1. stack' = <<CallAt("pfb", 0)>> /\ Plain(CallAt("pfb", 0))
    BY <1>8, PlainCalls DEF ApplicationCall
  <2>2. AllPlain(<<CallAt("pfb", 0)>>)
    BY <2>1 DEF AllPlain, On
  <2> QED BY <1>1, <1>2, <1>3, <1>4, <2>1, <2>2
<1>9. ASSUME NEW q \in Seq(Requests), None(q) \/ One(q), NEW ok \in Seq(Frames),
             NEW bad \in Seq(Frames), AllPlain(ok), AllPlain(bad), Flush(q, ok, bad)
      PROVE  AllPlain(stack')
  <2>1. stack' \in {ok, bad, <<Call("complete")>> \o (<<Call("uncork")>> \o ok)}
    BY <1>9, FlushOutcome, TypeParts
  <2>2. <<Call("uncork")>> \o ok \in Seq(Frames) /\ AllPlain(<<Call("uncork")>> \o ok)
    BY <1>5, <1>9, Stacks, PlainStacks
  <2>3. AllPlain(<<Call("complete")>> \o (<<Call("uncork")>> \o ok))
    BY <1>5, <2>2, PlainStacks
  <2> QED BY <1>9, <2>1, <2>3
<1>10. CASE OnWritable
  <2>1. Flush(queue, e, e) /\ queue \in Seq(Requests)
    BY <1>3, <1>10 DEF OnWritable, TypeOK
  <2>2. None(queue) \/ One(queue)
    BY DEF InOneStage, Writing, Working, Free, Completing
  <2> QED BY <1>1, <1>2, <1>3, <1>4, <1>9, <2>1, <2>2
<1>11. CASE FinishUpdate
  <2>1. AllPlain(<<Call("complete")>>)
    BY <1>5 DEF AllPlain, On
  <2>2. PICK ok \in Seq(Frames) : ok = <<Call("ping"), Call("ppf")>> /\ AllPlain(ok)
    <3>1. <<Call("ping"), Call("ppf")>> \in Seq(Frames) /\ Len(<<Call("ping"), Call("ppf")>>) = 2
      BY <1>5
    <3>2. \A i \in 1..2 : i = 1 \/ i = 2
      OBVIOUS
    <3>3. AllPlain(<<Call("ping"), Call("ppf")>>)
      BY <1>5, <3>1, <3>2 DEF AllPlain, On
    <3> QED BY <3>1, <3>3
  <2>3. CASE stack' = <<Call("complete")>>
    BY <1>1, <1>2, <1>3, <1>4, <2>1, <2>3
  <2>4. CASE ClientClose("destroy")
    BY <1>1, <1>2, <1>3, <1>4, <2>4 DEF ClientClose
  <2>5. CASE state = "normal" /\ Send(<<[kind |-> "frame", fresh |-> job.fresh]>>, ok, <<Call("complete")>>)
    <3>1. PICK items \in Seq(Requests) :
               items = <<[kind |-> "frame", fresh |-> job.fresh]>> /\ One(items)
      BY FrameType
    <3>2. queue \in Seq(Requests) /\ None(queue)
      <4>1. job.stage = "encode"
        BY <1>11 DEF FinishUpdate
      <4> QED BY <4>1 DEF TypeOK, InOneStage, Writing, Working, Free, Completing, NoJob
    <3>3. queue \o items \in Seq(Requests) /\ One(queue \o items)
      BY <3>1, <3>2, Joined
    <3>4. <<Call("complete")>> \in Seq(Frames)
      BY <1>5
    <3>5. stack' = ok \/ Flush(queue \o items, ok, <<Call("complete")>>)
      BY <2>5, <3>1 DEF Send
    <3>6. AllPlain(stack')
      BY <1>9, <2>1, <2>2, <3>3, <3>4, <3>5
    <3> QED BY <1>1, <1>2, <1>3, <1>4, <3>6
  <2> QED BY <1>11, <2>2, <2>3, <2>4, <2>5 DEF FinishUpdate
<1> QED BY <1>6, <1>7, <1>8, <1>10, <1>11 DEF PlainEvent

LEMMA PlainClosing ==
  ASSUME TypeOK, Nested, Closing
  PROVE  AllPlain(stack) /\ AllPlain(stack') /\ UNCHANGED aborted
<1>1. stack' = << >> /\ UNCHANGED aborted /\ (stack = << >> \/ NextMessage("bad"))
  BY ClosingStep, Zenon
<1>2. CASE NextMessage("bad")
  <2>1. Running("loop")
    BY <1>2 DEF NextMessage
  <2>2. ~Active(Head(stack))
    BY <2>1 DEF Running, Active
  <2> QED BY <1>1, <2>1, <2>2, RunningPlain, PlainBare
<1> QED BY <1>1, <1>2, PlainBare

(* decrement_pending_requests is about to take a request off. *)
Spends(s) == \E c \in On(s) : c.op \in {"dec", "dec2"}

LEMMA SpendingStacks ==
  ASSUME NEW c \in Frames, NEW s \in Seq(Frames), AllPlain(s)
  PROVE  /\ ~Spends(s)
         /\ Spends(<<c>> \o s) <=> c.op \in {"dec", "dec2"}
         /\ Nesting(<<c>> \o s) <=> Active(c) \/ Plain(c)
<1>1. <<c>> \o s \in Seq(Frames) /\ <<c>> \o s # << >> /\ Head(<<c>> \o s) = c
      /\ Tail(<<c>> \o s) = s /\ On(<<c>> \o s) = {c} \cup On(s)
  BY Push
<1>2. ~Spends(s)
  BY DEF AllPlain, Spends, Plain, Active
<1>3. Spends(<<c>> \o s) <=> c.op \in {"dec", "dec2"}
  BY <1>1, <1>2 DEF Spends
<1>4. AllPlain(<<c>> \o s) <=> Plain(c)
  BY PlainStacks
<1>5. ASSUME Active(c) PROVE Nesting(<<c>> \o s)
  BY <1>1, <1>5 DEF Nesting
<1>6. ASSUME Nesting(<<c>> \o s), ~Active(c) PROVE Plain(c)
  <2>1. ~Plain(c) => c.op = "ppf2"
    BY <1>6 DEF Plain
  <2> QED BY <1>1, <1>4, <1>6, <2>1 DEF Nesting
<1>7. Plain(c) => Nesting(<<c>> \o s)
  BY <1>4 DEF Nesting
<1> QED BY <1>2, <1>3, <1>5, <1>6, <1>7

LEMMA SpendingTwo ==
  ASSUME NEW c \in Frames, c.op = "ppf", NEW d \in Frames, d.op = "dec2",
         NEW s \in Seq(Frames), AllPlain(s)
  PROVE  Nesting(<<c, d>> \o s) /\ Spends(<<c, d>> \o s)
<1>1. PICK t \in Seq(Frames) : t = <<d>> \o s
  BY Push
<1>2. t # << >> /\ Head(t) = d /\ Tail(t) = s /\ On(t) = {d} \cup On(s)
  BY <1>1, Push
<1>3. PICK u : u = <<c>> \o t
  OBVIOUS
<1>4. u # << >> /\ Head(u) = c /\ Tail(u) = t /\ On(u) = {c} \cup On(t)
  BY <1>3, Push
<1>5. u = <<c, d>> \o s
  <2>1. <<c, d>> \o s = <<c>> \o t
    BY <1>1, PushTwo, SMTT(40)
  <2> QED BY <1>3, <2>1
<1>6. Nesting(u)
  BY <1>2, <1>4 DEF Nesting
<1>7. Spends(u)
  BY <1>2, <1>4 DEF Spends
<1> QED BY <1>5, <1>6, <1>7

LEMMA PlainSpends ==
  ASSUME NEW s, AllPlain(s)
  PROVE  ~Spends(s) /\ Nesting(s)
BY DEF AllPlain, Spends, Plain, Active, Nesting

(* process_pending_fence finds nothing to do and returns. *)
LEMMA FenceNesting ==
  ASSUME TypeOK, NoFences, Nested, ProcessPendingFence
  PROVE  /\ Nested' /\ (Spends(stack') <=> Spends(stack))
         /\ AllPlain(stack) => AllPlain(stack')
<1>1. /\ Running("ppf") /\ stack' = Caller /\ aborted' = FALSE /\ UNCHANGED isUpdating
  <2>1. fence.n = 0 /\ ~isBlocked
    BY DEF NoFences, NoFence
  <2>2. Running("ppf") /\ Assert(~isBlocked, Caller) /\ NoSend
    BY <2>1 DEF ProcessPendingFence
  <2> QED BY <2>1, <2>2 DEF Assert, NoSend, Nested
<1>2. /\ stack \in Seq(Frames) /\ stack # << >> /\ Head(stack).op = "ppf"
      /\ Caller = Tail(stack) /\ On(stack) = {Head(stack)} \cup On(Caller)
  BY <1>1, RunningType DEF Caller
<1>3. Spends(stack) <=> Spends(Caller)
  BY <1>2 DEF Spends
<1>4. AllPlain(stack) => AllPlain(Caller)
  BY <1>2 DEF AllPlain
<1>5. Nesting(Caller)
  <2>1. CASE AllPlain(stack)
    BY <1>4, <2>1 DEF Nesting
  <2>2. CASE Active(Head(stack))
    BY <1>2, <2>2 DEF Active
  <2>3. CASE Caller # << >> /\ Head(Caller).op = "dec2" /\ AllPlain(Tail(Caller))
    BY <2>3 DEF Nesting, Active
  <2> QED BY <1>2, <2>1, <2>2, <2>3 DEF Nested, Nesting
<1> QED BY <1>1, <1>3, <1>4, <1>5 DEF Nested

LEMMA EnterUpdateNesting ==
  ASSUME TypeOK, Nested, EnterUpdate
  PROVE  /\ Nested' /\ AllPlain(stack) /\ ~Spends(stack')
         /\ AllPlain(stack') \/ ~ReturnsAtOnce
<1>1. /\ Running("pfb") /\ Head(stack).at = 0 /\ UNCHANGED <<isUpdating, aborted>>
      /\ stack' = IF ReturnsAtOnce THEN Caller ELSE <<CallAt("pfb", 1)>> \o Caller
  BY DEF EnterUpdate, NoSend
<1>2. Caller \in Seq(Frames) /\ AllPlain(stack) /\ AllPlain(Caller)
  BY <1>1, RunningType, RunningPlain DEF Active, Running
<1>3. /\ CallAt("pfb", 1) \in Frames /\ CallAt("pfb", 1).op = "pfb"
      /\ Active(CallAt("pfb", 1))
  BY CallTypes DEF CallAt, Active
<1>4. CASE ReturnsAtOnce
  BY <1>1, <1>2, <1>4, PlainSpends DEF Nested
<1>5. CASE ~ReturnsAtOnce
  <2>1. Nesting(stack') /\ ~Spends(stack')
    BY <1>1, <1>2, <1>3, <1>5, SpendingStacks
  <2>2. ~isUpdating
    BY <1>5 DEF ReturnsAtOnce
  <2> QED BY <1>1, <1>2, <1>5, <2>1, <2>2 DEF Nested
<1> QED BY <1>4, <1>5

(* Past the early returns nothing is in flight. *)
LEMMA ActiveFree ==
  ASSUME TypeOK, InOneStage, Nested, NEW op \in {"pfb", "dec", "dec2"}, Running(op),
         Active(Head(stack))
  PROVE  /\ Free /\ isUpdating = FALSE /\ job = NoJob /\ None(queue)
         /\ Caller \in Seq(Frames) /\ AllPlain(Caller)
         /\ ~AllPlain(stack) /\ (Spends(stack) <=> op # "pfb")
<1>1. ~isUpdating /\ AllPlain(Caller)
  BY RunningPlain
<1>2. Free
  BY <1>1, RunningStage DEF Working
<1>3. isUpdating = FALSE
  BY <1>1 DEF TypeOK
<1>4. /\ Caller \in Seq(Frames) /\ On(stack) = {Head(stack)} \cup On(Caller)
      /\ Head(stack).op = op
  BY RunningType
<1>5. ~AllPlain(stack)
  BY <1>4 DEF AllPlain, Plain
<1>6. Spends(stack) <=> op # "pfb"
  BY <1>1, <1>4, PlainSpends DEF Spends
<1> QED BY <1>1, <1>2, <1>3, <1>4, <1>5, <1>6 DEF Free

LEMMA SendNotificationNesting ==
  ASSUME TypeOK, ~SendErrors, InOneStage, Nested, SendNotification
  PROVE  /\ Nested' /\ ~Spends(stack) /\ ~AllPlain(stack)
         /\ \/ ~Spends(stack') /\ owed' = owed
            \/ Spends(stack') /\ owed' = owed - 1
<1>1. Running("pfb") /\ Active(Head(stack)) /\ UNCHANGED aborted
  BY DEF SendNotification, Running, Active
<1>2. /\ isUpdating = FALSE /\ None(queue) /\ Caller \in Seq(Frames) /\ AllPlain(Caller)
      /\ ~Spends(stack) /\ ~AllPlain(stack)
  BY <1>1, ActiveFree
<1>3. CASE stack' = <<CallAt("pfb", 5)>> \o Caller /\ NoSend /\ owed' = owed
  <2>1. /\ CallAt("pfb", 5) \in Frames /\ CallAt("pfb", 5).op = "pfb"
        /\ Active(CallAt("pfb", 5))
    BY CallTypes DEF CallAt, Active
  <2>2. Nesting(stack') /\ ~Spends(stack')
    BY <1>2, <1>3, <2>1, SpendingStacks
  <2> QED BY <1>1, <1>2, <1>3, <2>2 DEF Nested, NoSend
<1>4. ASSUME NEW i \in Head(stack).at..4, Head(stack).at \in 1..4, owed' = owed - 1,
             Send(<<Item("update")>>, <<CallAt("dec", i)>> \o Caller,
                  <<CallAt("dec", i)>> \o Caller)
      PROVE  Nested' /\ Spends(stack') /\ owed' = owed - 1
  <2>1. i \in 1..4
    BY <1>4
  <2>2. /\ CallAt("dec", i) \in Frames /\ CallAt("dec", i).op = "dec"
        /\ Active(CallAt("dec", i))
    BY <2>1, CallTypes, CallKinds DEF Active
  <2>3. <<CallAt("dec", i)>> \o Caller \in Seq(Frames)
    BY <1>2, <2>2, Stacks
  <2>4. /\ Nesting(<<CallAt("dec", i)>> \o Caller)
        /\ Spends(<<CallAt("dec", i)>> \o Caller)
    BY <1>2, <2>2, SpendingStacks
  <2>5. <<Item("update")>> \in Seq(Requests) /\ None(<<Item("update")>>) /\ SendTypes
    BY ItemType, TypeParts
  <2>6. isUpdating' = isUpdating /\ stack' = <<CallAt("dec", i)>> \o Caller
    BY <1>2, <1>4, <2>3, <2>5, SendOutcome
  <2> QED BY <1>1, <1>2, <1>4, <2>4, <2>6 DEF Nested
<1>5. ASSUME NEW i \in Head(stack).at..4, Head(stack).at \in 1..4, owed' = owed - 1,
             stack' = <<CallAt("dec", i)>> \o Caller, NoSend
      PROVE  Nested' /\ Spends(stack') /\ owed' = owed - 1
  <2>1. i \in 1..4
    BY <1>5
  <2>2. /\ CallAt("dec", i) \in Frames /\ CallAt("dec", i).op = "dec"
        /\ Active(CallAt("dec", i))
    BY <2>1, CallTypes, CallKinds DEF Active
  <2>3. Nesting(stack') /\ Spends(stack')
    BY <1>2, <1>5, <2>2, SpendingStacks
  <2> QED BY <1>1, <1>2, <1>5, <2>3 DEF Nested, NoSend
<1> QED BY <1>2, <1>3, <1>4, <1>5 DEF SendNotification

LEMMA DecrementNesting ==
  ASSUME TypeOK, InOneStage, Nested, BeginDecrement \/ EndDecrement
  PROVE  /\ Nested' /\ Spends(stack) /\ ~AllPlain(stack) /\ job = NoJob
         /\ BeginDecrement => Spends(stack') \/ cu
         /\ EndDecrement => /\ ~Spends(stack')
                            /\ AllPlain(stack') \/ nPending - 1 > 0
<1>1. PICK op \in {"dec", "dec2"} : Running(op)
  BY DEF BeginDecrement, EndDecrement
<1>2. Head(stack) \in Frames /\ Head(stack).op = op /\ Active(Head(stack))
  BY <1>1, RunningType DEF Active
<1>3. /\ isUpdating = FALSE /\ job = NoJob /\ Caller \in Seq(Frames) /\ AllPlain(Caller)
      /\ Spends(stack) /\ ~AllPlain(stack)
  BY <1>1, <1>2, ActiveFree
<1>4. Head(stack).at \in 1..4
  BY <1>2 DEF Frames, Calls
<1>5. PICK pfb \in Frames : pfb = CallAt("pfb", Head(stack).at + 1)
  BY <1>4, CallTypes
<1>6. PICK dec2 \in Frames : dec2 = CallAt("dec2", Head(stack).at)
  BY <1>4, CallTypes
<1>7. PICK ppf \in Frames : ppf = Call("ppf")
  BY CallTypes DEF Calls
<1>8. /\ pfb.op = "pfb" /\ Active(pfb) /\ dec2.op = "dec2" /\ Active(dec2)
      /\ ppf.op = "ppf" /\ Plain(ppf)
  BY <1>4, <1>5, <1>6, <1>7 DEF CallAt, Call, Active, Plain
<1>9. Nesting(<<pfb>> \o Caller) /\ ~Spends(<<pfb>> \o Caller)
  BY <1>3, <1>8, SpendingStacks
<1>10. Nesting(<<ppf, dec2>> \o Caller) /\ Spends(<<ppf, dec2>> \o Caller)
  BY <1>3, <1>8, SpendingTwo
<1>11. CASE BeginDecrement
  <2>1. /\ aborted' = FALSE /\ UNCHANGED isUpdating
        /\ stack' = IF cu THEN <<pfb>> \o Caller ELSE <<ppf, dec2>> \o Caller
    BY <1>3, <1>5, <1>6, <1>7, <1>11 DEF BeginDecrement, Assert, NoSend, Nested
  <2>2. ~EndDecrement
    BY <1>11 DEF BeginDecrement, EndDecrement, Running
  <2> QED BY <1>3, <1>9, <1>10, <2>1, <2>2 DEF Nested
<1>12. CASE EndDecrement
  <2>1. /\ UNCHANGED <<aborted, isUpdating>>
        /\ stack' = IF nPending - 1 <= 0 THEN Caller ELSE <<pfb>> \o Caller
    BY <1>5, <1>12 DEF EndDecrement, NoSend
  <2>2. ~BeginDecrement
    BY <1>12 DEF BeginDecrement, EndDecrement, Running
  <2>3. Nesting(stack') /\ ~Spends(stack')
    BY <1>3, <1>9, <2>1, PlainSpends
  <2>4. AllPlain(stack') \/ nPending - 1 > 0
    BY <1>3, <2>1 DEF TypeOK
  <2> QED BY <1>3, <2>1, <2>2, <2>3, <2>4 DEF Nested
<1> QED BY <1>11, <1>12

LEMMA StartFrameNesting ==
  ASSUME TypeOK, InOneStage, Nested, StartFrame
  PROVE  /\ Nested' /\ ~Spends(stack) /\ ~AllPlain(stack) /\ AllPlain(stack')
         /\ job = NoJob
<1>1. Running("pfb") /\ Active(Head(stack)) /\ stack' = Caller /\ UNCHANGED aborted
  BY DEF StartFrame, Running, Active
<1>2. job = NoJob /\ AllPlain(Caller) /\ ~Spends(stack) /\ ~AllPlain(stack)
  BY <1>1, ActiveFree
<1> QED BY <1>1, <1>2, PlainSpends DEF Nested

(* The handlers that answer fences do not run. *)
LEMMA NoFenceHandlers ==
  ASSUME TypeOK, NoFences, Nested
  PROVE  ~ResumeAfterFence /\ ~RefuseFence /\ ~OnFenceRequest
BY RunningPlain, NoFenceMessage DEF ResumeAfterFence, RefuseFence, OnFenceRequest

LEMMA NestedStep ==
  ASSUME TypeOK, ~SendErrors, InOneStage, NoFences, Nested, [Next]_vars
  PROVE  Nested'
<1>1. CASE PlainHandler \/ PlainEvent \/ Closing
  BY <1>1, PlainHandlers, PlainEvents, PlainClosing DEF Nested, Nesting
<1>2. CASE ProcessPendingFence \/ EnterUpdate \/ SendNotification \/ BeginDecrement
           \/ EndDecrement \/ StartFrame
  BY <1>2, FenceNesting, EnterUpdateNesting, SendNotificationNesting, DecrementNesting,
     StartFrameNesting
<1>3. CASE UNCHANGED vars
  BY <1>3 DEF vars, updateVars, lifeVars, Nested
<1> QED BY <1>1, <1>2, <1>3, NoFenceHandlers DEF Next, Handler, PlainHandler, PlainEvent,
                                                   Closing

(* Together. *)
Calm == TypeOK /\ InOneStage /\ NoFences /\ Nested

LEMMA CalmInit == Init => Calm
<1> SUFFICES ASSUME Init PROVE Calm
  OBVIOUS
<1>1. /\ stack = << >> /\ net = << >> /\ buffer = << >> /\ fence = NoFence
      /\ isBlocked = FALSE /\ mustBlock = FALSE /\ aborted = FALSE
  BY DEF Init
<1>2. NoFences
  BY <1>1, OnEmpty DEF NoFences, Unprocessed
<1>3. Nested
  BY <1>1, PlainBare DEF Nested, Nesting
<1> QED BY <1>2, <1>3, InitType, StageInit DEF Calm

LEMMA CalmStep ==
  ASSUME ~SendErrors, NoFenceRequests, Calm, [Next]_vars
  PROVE  Calm'
BY NextType, StageStep, FencesStep, NestedStep DEF Calm

-----------------------------------------------------------------------------
(* The accounting of requests. *)

(* The request that decrement_pending_requests is about to take off, and    *)
(* the one that on_compositing_done took off for a frame not yet sent.      *)
Spending == IF Spends(stack) THEN 1 ELSE 0
Encoding == IF job.stage = "encode" THEN 1 ELSE 0

Counted ==
  /\ cu => cuEver
  /\ ~cuEver =>
       /\ nPending >= 0
       /\ owed >= nPending + Encoding - Spending
       /\ state = "normal" => owed = nPending + Encoding - Spending
       /\ job.stage = "composite" => nPending > 0
       /\ AllPlain(stack) \/ nPending > 0

(* A closed stream stays closed. *)
LEMMA ClosedStays ==
  ASSUME [Next]_vars
  PROVE  state' = state \/ state' = "closed"
<1>1. ASSUME NEW q, NEW ok, NEW bad, Flush(q, ok, bad)
      PROVE  state' = state \/ state' = "closed"
  BY <1>1 DEF Flush, SendTakes, StreamClose, SendFails
<1>2. ASSUME NEW items, NEW ok, NEW bad, Send(items, ok, bad)
      PROVE  state' = state \/ state' = "closed"
  BY <1>1, <1>2 DEF Send, streamVars
<1>3. NoSend => state' = state
  BY DEF NoSend, streamVars
<1>4. CASE ProcessPendingFence \/ ResumeAfterFence \/ EnterUpdate \/ SendNotification
           \/ BeginDecrement \/ EndDecrement
  BY <1>2, <1>3, <1>4 DEF ProcessPendingFence, ResumeAfterFence, EnterUpdate,
     SendNotification, BeginDecrement, EndDecrement
<1>5. CASE StartFrame \/ CompleteUpdate \/ EndFlush \/ CompositeDone \/ ClientSends
  BY <1>5 DEF StartFrame, CompleteUpdate, EndFlush, CompositeDone, ClientSends, streamVars
<1>6. CASE SendPing \/ LoopEnds \/ IgnoreRequest \/ OnFbUpdateRequest \/ OnSetEncodings
  BY <1>2, <1>3, <1>6 DEF SendPing, LoopEnds, IgnoreRequest, OnFbUpdateRequest, OnSetEncodings
<1>7. CASE OnSetPixelFormat \/ OnEnableContinuousUpdates \/ OnFenceResponse
           \/ RefuseFence \/ OnFenceRequest
  BY <1>2, <1>3, <1>7 DEF OnSetPixelFormat, OnEnableContinuousUpdates, OnFenceResponse,
     RefuseFence, OnFenceRequest
<1>8. CASE FinishUpdate
  BY <1>2, <1>3, <1>8 DEF FinishUpdate, ClientClose, StreamClose
<1>9. CASE OnClientEvent \/ RemoteClosed \/ OnWritable \/ ApplicationCall \/ Closing
  BY <1>1, <1>3, <1>9, ClosingStep DEF OnClientEvent, RemoteClosed, OnWritable,
     ApplicationCall, StreamClose, streamVars
<1>10. CASE UNCHANGED vars
  BY <1>10 DEF vars, streamVars
<1> QED BY <1>4, <1>5, <1>6, <1>7, <1>8, <1>9, <1>10 DEF Next, Handler, Closing

(* client_close closes the stream first. *)
Severed == life # "open" => state = "closed"

LEMMA SeveredStep ==
  ASSUME Severed, [Next]_vars
  PROVE  Severed'
<1>1. CASE life' = life
  BY <1>1, ClosedStays DEF Severed
<1>2. CASE life' # life
  <2>1. CASE DrainEnds \/ DestroyEnds
    BY <2>1 DEF DrainEnds, DestroyEnds, streamVars, Severed
  <2>2. CASE ~(DrainEnds \/ DestroyEnds)
    <3>1. \E loop \in {"drain", "destroy"} : ClientClose(loop)
      <4>1. CASE DeferredClose \/ ReadError \/ ServerClose \/ OnBadMessage \/ FinishUpdate
        BY <1>2, <4>1 DEF DeferredClose, ReadError, ServerClose, CloseNow, OnBadMessage,
                         FinishUpdate
      <4>2. ~(ProcessPendingFence \/ ResumeAfterFence \/ SendPing)
        BY <1>2 DEF ProcessPendingFence, ResumeAfterFence, SendPing
      <4>3. ~(EnterUpdate \/ SendNotification \/ BeginDecrement \/ EndDecrement
                \/ CompleteUpdate \/ EndFlush \/ StartFrame \/ CompositeDone)
        BY <1>2 DEF EnterUpdate, SendNotification, BeginDecrement, EndDecrement,
                   CompleteUpdate, EndFlush, StartFrame, CompositeDone, PfbVars
      <4>4. ~(LoopEnds \/ IgnoreRequest \/ RefuseFence \/ OnFbUpdateRequest
                \/ OnSetEncodings \/ OnSetPixelFormat \/ OnEnableContinuousUpdates
                \/ OnFenceResponse \/ OnFenceRequest)
        BY <1>2 DEF LoopEnds, IgnoreRequest, RefuseFence, OnFbUpdateRequest,
                   OnSetEncodings, OnSetPixelFormat, OnEnableContinuousUpdates,
                   OnFenceResponse, OnFenceRequest, HandlerFrame
      <4>5. ~(OnClientEvent \/ RemoteClosed \/ OnWritable \/ ApplicationCall
                \/ ClientSends)
        BY <1>2 DEF OnClientEvent, RemoteClosed, OnWritable, ApplicationCall, ClientSends,
                   EventFrame
      <4>6. ~UNCHANGED vars
        BY <1>2 DEF vars, lifeVars
      <4> QED BY <2>2, <4>1, <4>2, <4>3, <4>4, <4>5, <4>6 DEF Next, Handler
    <3> QED BY <3>1 DEF ClientClose, StreamClose, Severed
  <2> QED BY <2>1, <2>2
<1> QED BY <1>1, <1>2

(* A step between plain stacks that counts nothing. *)
LEMMA CountedKept ==
  ASSUME TypeOK, Counted, AllPlain(stack), AllPlain(stack'), job'.stage = job.stage,
         state' = state \/ state' = "closed", UNCHANGED <<nPending, owed, cu, cuEver>>
  PROVE  Counted'
<1>1. Spending = 0 /\ Spending' = 0
  BY PlainSpends DEF Spending
<1>2. Encoding' = Encoding
  BY DEF Encoding
<1> QED BY <1>1, <1>2 DEF Counted, TypeOK

LEMMA MessageCounted ==
  ASSUME TypeOK, Counted, AllPlain(stack), AllPlain(stack'),
         state' = state \/ state' = "closed",
         OnFbUpdateRequest \/ OnEnableContinuousUpdates
  PROVE  Counted'
<1>1. Spending = 0 /\ Spending' = 0
  BY PlainSpends DEF Spending
<1>2. job' = job /\ Encoding' = Encoding /\ Encoding \in {0, 1}
  BY DEF OnFbUpdateRequest, OnEnableContinuousUpdates, Encoding
<1>3. CASE OnFbUpdateRequest
  <2>1. nPending' = nPending + 1 /\ owed' = owed + 1 /\ UNCHANGED <<cu, cuEver>>
    BY <1>3 DEF OnFbUpdateRequest, formatVars
  <2> QED BY <1>1, <1>2, <2>1 DEF Counted, TypeOK
<1>4. CASE OnEnableContinuousUpdates
  <2>1. UNCHANGED <<nPending, owed>> /\ cuEver' = (cuEver \/ cu')
    BY <1>4 DEF OnEnableContinuousUpdates
  <2> QED BY <1>1, <1>2, <2>1 DEF Counted, TypeOK
<1> QED BY <1>3, <1>4

(* on_compositing_done takes a request off, if there is one. *)
LEMMA EncodingCounted ==
  ASSUME TypeOK, Counted, Encoding = 0, Spending = 0, AllPlain(stack'), UNCHANGED <<owed, cu, cuEver>>,
         state' = state, ~cuEver => nPending > 0,
         NEW f, f \in [stage : {"direct", "composite", "none", "encode", "lost"},
                       fresh : SUBSET Areas, layout : Layouts, fenced : BOOLEAN],
         NEW changed, StartEncoding(f, changed)
  PROVE  Counted'
<1>1. Spending' = 0
  BY PlainSpends DEF Spending
<1>2. CASE job' \in {LostJob, NoJob} /\ UNCHANGED nPending
  <2>1. Encoding' = 0 /\ job'.stage # "composite"
    BY <1>2 DEF Encoding, LostJob, NoJob
  <2> QED BY <1>1, <1>2, <2>1 DEF Counted, TypeOK
<1>3. CASE job' = [f EXCEPT !.stage = "encode"] /\ nPending' = RequestTaken
  <2>1. job'.stage = "encode" /\ Encoding' = 1
    BY <1>3 DEF Encoding
  <2>2. ~cuEver => nPending' = nPending - 1
    BY <1>3 DEF RequestTaken
  <2> QED BY <1>1, <2>1, <2>2 DEF Counted, TypeOK
<1> QED BY <1>2, <1>3 DEF StartEncoding

LEMMA StartFrameCounted ==
  ASSUME TypeOK, InOneStage, Nested, Counted, StartFrame
  PROVE  Counted'
<1>1. /\ ~Spends(stack) /\ ~AllPlain(stack) /\ AllPlain(stack') /\ job = NoJob
  BY StartFrameNesting
<1>2. /\ Encoding = 0 /\ Spending = 0 /\ Spending' = 0
  BY <1>1, PlainSpends DEF Encoding, Spending, NoJob
<1>3. UNCHANGED <<owed, cu, cuEver, state>>
  BY DEF StartFrame, PfbVars, streamVars
<1>4. ~cuEver => nPending > 0
  BY <1>1 DEF Counted
<1>5. CASE UNCHANGED <<nPending, job>>
  <2>1. Encoding' = 0
    BY <1>2, <1>5 DEF Encoding
  <2> QED BY <1>1, <1>2, <1>3, <1>5, <2>1 DEF Counted, TypeOK
<1>6. CASE \E p \in Pipelines :
             LET f == [stage |-> p, fresh |-> damage, layout |-> layout,
                       fenced |-> FALSE] IN
             \/ /\ p = "direct"
                /\ StartEncoding(f, FALSE)
             \/ /\ p = "composite"
                /\ \/ job' = f
                   \/ "feed" \in EncodeFaults /\ job' = LostJob
                /\ isUpdating' = TRUE
                /\ formatsChanged' = FALSE
                /\ UNCHANGED <<onDone, nPending>>
  <2>0. PICK p \in {"direct", "composite"} : \E f :
             /\ f = [stage |-> p, fresh |-> damage, layout |-> layout, fenced |-> FALSE]
             /\ \/ StartEncoding(f, FALSE)
                \/ p = "composite" /\ job' \in {f, LostJob} /\ UNCHANGED nPending
    BY <1>6
  <2>1. PICK f :
             /\ f = [stage |-> p, fresh |-> damage, layout |-> layout, fenced |-> FALSE]
             /\ \/ StartEncoding(f, FALSE)
                \/ p = "composite" /\ job' \in {f, LostJob} /\ UNCHANGED nPending
    BY <2>0
  <2>2. CASE StartEncoding(f, FALSE)
    <3>1. f \in [stage : {"direct", "composite", "none", "encode", "lost"},
                 fresh : SUBSET Areas, layout : Layouts, fenced : BOOLEAN]
      BY <2>1 DEF TypeOK
    <3> QED BY <1>1, <1>2, <1>3, <1>4, <2>2, <3>1, EncodingCounted
  <2>3. CASE p = "composite" /\ job' \in {f, LostJob} /\ UNCHANGED nPending
    <3>1. job'.stage # "encode"
      BY <2>1, <2>3 DEF LostJob, NoJob
    <3>2. Encoding' = 0
      BY <3>1 DEF Encoding
    <3> QED BY <1>1, <1>2, <1>3, <1>4, <2>3, <3>2 DEF Counted, TypeOK
  <2> QED BY <2>1, <2>2, <2>3
<1> QED BY <1>5, <1>6, Zenon DEF StartFrame

LEMMA CompositeDoneCounted ==
  ASSUME TypeOK, Counted, AllPlain(stack), AllPlain(stack'), CompositeDone
  PROVE  Counted'
<1>1. /\ job.stage = "composite" /\ UNCHANGED <<owed, cu, cuEver, state>>
      /\ \/ StartEncoding(job, formatsChanged)
         \/ job' = NoJob /\ UNCHANGED nPending
  BY DEF CompositeDone, PfbVars, streamVars
<1>2. Encoding = 0 /\ Spending = 0 /\ (~cuEver => nPending > 0)
  BY <1>1, PlainSpends DEF Encoding, Spending, Counted
<1>3. job \in [stage : {"direct", "composite", "none", "encode", "lost"},
               fresh : SUBSET Areas, layout : Layouts, fenced : BOOLEAN]
  BY DEF TypeOK, Jobs
<1>4. CASE StartEncoding(job, formatsChanged)
  BY <1>1, <1>2, <1>3, <1>4, EncodingCounted
<1>5. CASE job' = NoJob /\ UNCHANGED nPending
  <2>1. Encoding' = 0 /\ Spending' = 0 /\ job'.stage = "none"
    BY <1>5, PlainSpends DEF Encoding, Spending, NoJob
  <2> QED BY <1>1, <1>2, <1>5, <2>1 DEF Counted, TypeOK
<1> QED BY <1>1, <1>4, <1>5

LEMMA FinishUpdateCounted ==
  ASSUME TypeOK, Counted, AllPlain(stack), AllPlain(stack'),
         state' = state \/ state' = "closed", FinishUpdate
  PROVE  Counted'
<1>1. /\ job.stage = "encode" /\ job' = NoJob /\ UNCHANGED <<cu, cuEver>>
  BY DEF FinishUpdate, formatVars
<1>2. Encoding = 1 /\ Encoding' = 0 /\ Spending = 0 /\ Spending' = 0 /\ job'.stage = "none"
  BY <1>1, PlainSpends DEF Encoding, Spending, NoJob
<1>3. \/ UNCHANGED <<nPending, owed>> /\ state' = "closed"
      \/ nPending' = nPending + 1 /\ UNCHANGED owed
      \/ UNCHANGED nPending /\ owed' = owed - 1
  <2>1. \/ state = "closed" /\ NoSend /\ UNCHANGED <<nPending, owed>>
        \/ nPending' = nPending + 1 /\ UNCHANGED owed
        \/ ClientClose("destroy") /\ UNCHANGED <<nPending, owed>>
        \/ UNCHANGED nPending /\ owed' = owed - 1
    BY Zenon DEF FinishUpdate
  <2> QED BY <2>1 DEF ClientClose, StreamClose, NoSend, streamVars
<1>4. nPending \in Int /\ owed \in Int /\ (cu => cuEver)
  BY DEF TypeOK, Counted
<1>5. ASSUME ~cuEver
      PROVE  /\ nPending' >= 0 /\ owed' >= nPending'
             /\ state' = "normal" => owed' = nPending'
  <2>1. /\ nPending >= 0 /\ owed >= nPending + 1
        /\ state = "normal" => owed = nPending + 1
    BY <1>2, <1>4, <1>5 DEF Counted
  <2> QED BY <1>3, <1>4, <2>1
<1>6. /\ cu' => cuEver'
      /\ ~cuEver' => ~cuEver
  BY <1>1, <1>4
<1> QED BY <1>2, <1>5, <1>6, <1>4, <1>3 DEF Counted

LEMMA CountedStep ==
  ASSUME ~SendErrors, NoFenceRequests, Calm, Counted, [Next]_vars
  PROVE  Counted'
<1>1. TypeOK /\ InOneStage /\ NoFences /\ Nested
  BY DEF Calm
<1>2. state' = state \/ state' = "closed"
  BY ClosedStays
<1>3. CASE PlainHandler
  <2>1. AllPlain(stack) /\ AllPlain(stack')
    BY <1>1, <1>3, PlainHandlers
  <2>2. CASE OnFbUpdateRequest \/ OnEnableContinuousUpdates
    BY <1>1, <1>2, <2>1, <2>2, MessageCounted
  <2>3. CASE SendPing \/ CompleteUpdate \/ EndFlush \/ LoopEnds \/ IgnoreRequest
             \/ OnSetEncodings \/ OnSetPixelFormat \/ OnFenceResponse
    <3>1. UNCHANGED <<nPending, owed, cu, cuEver, job>>
      BY <2>3 DEF SendPing, CompleteUpdate, EndFlush, LoopEnds, IgnoreRequest,
         OnSetEncodings, OnSetPixelFormat, OnFenceResponse, formatVars, PfbVars
    <3> QED BY <1>1, <1>2, <2>1, <3>1, CountedKept
  <2> QED BY <1>3, <2>2, <2>3 DEF PlainHandler
<1>11. CASE Closing
  <2>1. AllPlain(stack) /\ AllPlain(stack')
    BY <1>1, <1>11, PlainClosing
  <2>2. UNCHANGED <<nPending, owed, cu, cuEver, job>>
    BY <1>11, ClosingStep DEF formatVars
  <2> QED BY <1>1, <1>2, <2>1, <2>2, CountedKept
<1>4. CASE PlainEvent
  <2>1. AllPlain(stack) /\ AllPlain(stack')
    BY <1>1, <1>4, PlainEvents
  <2>2. CASE OnClientEvent \/ RemoteClosed \/ OnWritable \/ ClientSends
    <3>1. UNCHANGED <<nPending, owed, cu, cuEver, job>>
      BY <2>2 DEF OnClientEvent, RemoteClosed, OnWritable, ClientSends, EventFrame, formatVars
    <3> QED BY <1>1, <1>2, <2>1, <3>1, CountedKept
  <2>3. CASE ApplicationCall
    <3>1. UNCHANGED <<nPending, owed, cu, cuEver>>
      BY <2>3 DEF ApplicationCall, EventFrame, formatVars
    <3>2. job'.stage = job.stage
      <4>1. job \in Jobs
        BY <1>1 DEF TypeOK
      <4>2. ASSUME NEW hit, job' = [job EXCEPT !.fresh = @ \ hit]
            PROVE  job'.stage = job.stage
        BY <4>1, <4>2 DEF Jobs
      <4> QED BY <2>3, <4>2, ApplicationCalls
    <3> QED BY <1>1, <1>2, <2>1, <3>1, <3>2, CountedKept
  <2> QED BY <1>1, <1>2, <1>4, <2>1, <2>2, <2>3, CompositeDoneCounted,
             FinishUpdateCounted DEF PlainEvent
<1>5. CASE ProcessPendingFence
  <2>1. (Spends(stack') <=> Spends(stack)) /\ (AllPlain(stack) => AllPlain(stack'))
    BY <1>1, <1>5, FenceNesting
  <2>2. UNCHANGED <<nPending, owed, cu, cuEver, job>>
    BY <1>5 DEF ProcessPendingFence, formatVars
  <2>3. Spending' = Spending /\ Encoding' = Encoding
    BY <2>1, <2>2 DEF Spending, Encoding
  <2> QED BY <1>1, <1>2, <2>1, <2>2, <2>3 DEF Counted, TypeOK
<1>6. CASE EnterUpdate
  <2>1. /\ AllPlain(stack) /\ ~Spends(stack') /\ (AllPlain(stack') \/ ~ReturnsAtOnce)
    BY <1>1, <1>6, EnterUpdateNesting
  <2>2. UNCHANGED <<nPending, owed, cu, cuEver, job>>
    BY <1>6 DEF EnterUpdate, PfbVars
  <2>3. Spending' = 0 /\ Spending = 0 /\ Encoding' = Encoding
    BY <2>1, <2>2, PlainSpends DEF Spending, Encoding
  <2>4. ~cuEver /\ ~ReturnsAtOnce => nPending > 0
    BY <1>1 DEF ReturnsAtOnce, Counted, TypeOK
  <2> QED BY <1>1, <1>2, <2>1, <2>2, <2>3, <2>4 DEF Counted, TypeOK
<1>7. CASE SendNotification
  <2>1. /\ ~Spends(stack) /\ ~AllPlain(stack)
        /\ \/ ~Spends(stack') /\ owed' = owed
           \/ Spends(stack') /\ owed' = owed - 1
    BY <1>1, <1>7, SendNotificationNesting
  <2>2. UNCHANGED <<nPending, cu, cuEver, job>>
    BY <1>7 DEF SendNotification, PfbVars
  <2>3. Encoding' = Encoding /\ Encoding \in {0, 1}
    BY <2>2 DEF Encoding
  <2>4. \/ Spending = 0 /\ Spending' = 0 /\ owed' = owed
        \/ Spending = 0 /\ Spending' = 1 /\ owed' = owed - 1
    BY <2>1 DEF Spending
  <2> QED BY <1>1, <1>2, <2>1, <2>2, <2>3, <2>4, SMTT(40) DEF Counted, TypeOK
<1>8. CASE BeginDecrement
  <2>1. Spends(stack) /\ ~AllPlain(stack) /\ (Spends(stack') \/ cu)
    BY <1>1, <1>8, DecrementNesting
  <2>2. UNCHANGED <<nPending, owed, cu, cuEver, job>>
    BY <1>8 DEF BeginDecrement, PfbVars
  <2>3. Encoding' = Encoding /\ (~cu => Spending' = Spending)
    BY <2>1, <2>2 DEF Encoding, Spending
  <2> QED BY <1>1, <1>2, <2>1, <2>2, <2>3 DEF Counted, TypeOK
<1>9. CASE EndDecrement
  <2>1. /\ Spends(stack) /\ ~AllPlain(stack) /\ job = NoJob /\ ~Spends(stack')
        /\ AllPlain(stack') \/ nPending - 1 > 0
    BY <1>1, <1>9, DecrementNesting
  <2>2. nPending' = nPending - 1 /\ UNCHANGED <<owed, cu, cuEver, job>>
    BY <1>9 DEF EndDecrement, PfbVars
  <2>3. Encoding' = Encoding /\ Encoding = 0 /\ Spending = 1 /\ Spending' = 0 /\ job'.stage = "none"
    BY <2>1, <2>2 DEF Encoding, Spending, NoJob
  <2> QED BY <1>1, <1>2, <2>1, <2>2, <2>3 DEF Counted, TypeOK
<1>10. CASE UNCHANGED vars
  <2>1. UNCHANGED <<state, stack, job, nPending, owed, cu, cuEver>>
    BY <1>10 DEF vars, streamVars, updateVars, formatVars, envVars
  <2> QED BY <2>1 DEF Counted, Spending, Encoding
<1> QED BY <1>1, <1>3, <1>4, <1>5, <1>6, <1>7, <1>8, <1>9, <1>10, <1>11,
           StartFrameCounted, NoFenceHandlers
           DEF Next, Handler, PlainHandler, PlainEvent, Closing

LEMMA CountedInit == Init => Counted
<1> SUFFICES ASSUME Init PROVE Counted
  OBVIOUS
<1>1. stack = << >> /\ job = NoJob /\ nPending = 0 /\ owed = 0 /\ cu = FALSE
  BY DEF Init
<1>2. Spending = 0 /\ Encoding = 0 /\ job.stage = "none" /\ AllPlain(stack)
  BY <1>1, PlainBare, PlainSpends DEF Spending, Encoding, NoJob
<1> QED BY <1>1, <1>2 DEF Counted

-----------------------------------------------------------------------------
(* The safety of a client that sends no fence requests, while no error of  *)
(* sendmsg goes unhandled.                                                 *)

(* The update is in one stage, nothing answers a fence, and at most one     *)
(* call of process_fb_update_requests is past its early returns.            *)
THEOREM Calmness == ~SendErrors /\ NoFenceRequests => (Spec => []Calm)
<1> SUFFICES ASSUME ~SendErrors, NoFenceRequests PROVE Spec => []Calm
  OBVIOUS
<1>1. Calm /\ [Next]_vars => Calm'
  BY CalmStep
<1> QED BY <1>1, CalmInit, PTL DEF Spec

(* The callbacks and the job of a stage. *)
LEMMA StageInFlight ==
  ASSUME InOneStage
  PROVE  /\ Writing => InFlight = 1 /\ isUpdating
         /\ Working => InFlight = 1 /\ isUpdating
         /\ Free => InFlight = 0 /\ (life = "open" => ~isUpdating)
<1>1. ASSUME None(queue) PROVE Cardinality(Callbacks(queue)) = 0
  BY <1>1, FS_EmptySet DEF None
<1>2. CASE Writing
  <2>1. Cardinality(Callbacks(queue)) = 1 /\ job = NoJob
    BY <1>2, OneCallback DEF Writing
  <2>2. ~Working /\ ~Free
    BY <1>2 DEF Writing, Working, Free, One, None
  <2> QED BY <1>2, <2>1, <2>2 DEF Writing, InFlight
<1>3. CASE Working
  <2>1. Cardinality(Callbacks(queue)) = 0 /\ job # NoJob
    BY <1>1, <1>3 DEF Working, NoJob
  <2>2. ~Writing /\ ~Free
    BY <2>1 DEF Writing, Free
  <2> QED BY <1>3, <2>1, <2>2 DEF Working, InFlight
<1>4. CASE Free
  <2>1. Cardinality(Callbacks(queue)) = 0 /\ job = NoJob
    BY <1>1, <1>4 DEF Free
  <2>2. ~Writing /\ ~Working
    BY <1>4, <2>1 DEF Writing, Working, Free, One, None, NoJob
  <2> QED BY <1>4, <2>1, <2>2 DEF Free, InFlight
<1> QED BY <1>2, <1>3, <1>4

(* At most one update is in flight, is_updating says whether there is one,   *)
(* and process_fb_update_requests gets past its early returns only if there  *)
(* is none: without fence requests no nested call of it can start another.   *)
THEOREM AtMostOneUpdate ==
  ~SendErrors /\ NoFenceRequests => (Spec => []OneUpdateInFlight)
<1> SUFFICES ASSUME ~SendErrors, NoFenceRequests PROVE Spec => []OneUpdateInFlight
  OBVIOUS
<1>1. Calm => OneUpdateInFlight
  <2> SUFFICES ASSUME Calm PROVE OneUpdateInFlight
    OBVIOUS
  <2>1. TypeOK /\ InOneStage /\ Nested
    BY DEF Calm
  <2>2. ASSUME stack = << >>, life = "open" PROVE InFlight = IF isUpdating THEN 1 ELSE 0
    <3>1. Writing \/ Working \/ Free
      BY <2>1, <2>2 DEF InOneStage, Completing
    <3> QED BY <2>1, <2>2, <3>1, StageInFlight
  <2>3. ASSUME Running("pfb"), Head(stack).at > 0 PROVE InFlight = 0
    <3>1. Head(stack).op = "pfb"
      BY <2>3 DEF Running
    <3>2. Active(Head(stack))
      BY <2>3, <3>1 DEF Active
    <3>3. Free
      BY <2>1, <2>3, <3>2, ActiveFree
    <3> QED BY <2>1, <3>3, StageInFlight
  <2> QED BY <2>2, <2>3 DEF OneUpdateInFlight
<1>2. Spec => []Calm
  BY Calmness
<1> QED BY <1>1, <1>2, PTL

(* No assert() fails: decrement_pending_requests runs only with no update    *)
(* under way.                                                                *)
THEOREM NoAssertFails == ~SendErrors /\ NoFenceRequests => (Spec => []NoAbort)
<1> SUFFICES ASSUME ~SendErrors, NoFenceRequests PROVE Spec => []NoAbort
  OBVIOUS
<1>1. Calm => NoAbort
  BY DEF Calm, Nested, NoAbort
<1>2. Spec => []Calm
  BY Calmness
<1> QED BY <1>1, <1>2, PTL

(* The requests add up in every state, inside the handlers too. *)
LEMMA CountedAlways == ~SendErrors /\ NoFenceRequests => (Spec => []Counted)
<1> SUFFICES ASSUME ~SendErrors, NoFenceRequests PROVE Spec => []Counted
  OBVIOUS
<1>1. Calm /\ Counted /\ [Next]_vars => Counted'
  BY CountedStep
<1>2. Spec => []Calm
  BY Calmness
<1> QED BY <1>1, <1>2, CountedInit, PTL DEF Spec

(* Every request is answered once: n_pending_requests is what is accepted    *)
(* and not answered, whatever handlers are nested and updates are dropped.   *)
THEOREM RequestsCounted == ~SendErrors /\ NoFenceRequests => (Spec => []Accounting)
<1> SUFFICES ASSUME ~SendErrors, NoFenceRequests PROVE Spec => []Accounting
  OBVIOUS
<1>1. Calm /\ Counted => Accounting
  <2> SUFFICES ASSUME Calm, Counted, stack = << >>, state = "normal", ~cuEver
               PROVE  owed = nPending + (IF job.stage = "encode" THEN 1 ELSE 0)
    BY DEF Accounting
  <2>1. Spending = 0
    BY PlainBare, PlainSpends DEF Spending
  <2>2. owed = nPending + Encoding - Spending /\ nPending \in Int
    BY DEF Counted, Calm, TypeOK
  <2>3. Encoding \in Int
    BY DEF Encoding
  <2> QED BY <2>1, <2>2, <2>3 DEF Encoding
<1>2. Spec => []Calm /\ []Counted
  BY Calmness, CountedAlways
<1> QED BY <1>1, <1>2, PTL

-----------------------------------------------------------------------------
(* Damage reaches the client, when encoding never fails and the client has  *)
(* the fence extension all the time (finish_fb_update drops frames of       *)
(* clients without it that change their formats).                           *)

KeepsFenceExtension ==
  /\ \A e \in EncodingSets : "fence" \in e
  /\ \A m \in Msgs : m.type = "setEncodings" => "fence" \in m.encs

HasFenceExtension ==
  /\ "fence" \in encodings
  /\ \A m \in Unprocessed : m.type = "setEncodings" => "fence" \in m.encs

(* What a flush takes off the queue is no longer old at the client. *)
LEMMA FlushShows ==
  ASSUME ~SendErrors, NEW q \in Seq(Requests), NEW ok, NEW bad, Flush(q, ok, bad),
         NEW S, stale \subseteq S \cup Fresh(q)
  PROVE  state' = "normal" => stale' \subseteq S \cup Fresh(queue')
<1>1. ASSUME NEW k \in 0..Len(q), NEW partly \in BOOLEAN, Taken(q, ok, k, partly)
      PROVE  stale' \subseteq S \cup Fresh(queue')
  <2>1. Fresh(q) \subseteq Fresh(Front(q, k)) \cup Fresh(Rest(q, k))
    BY Cut
  <2>2. stale' = stale \ Fresh(Front(q, k)) /\ queue' = Rest(q, k)
    BY <1>1 DEF Taken, SendTakes, Deliver, Fresh, Front, Rest
  <2> QED BY <2>1, <2>2
<1>2. CASE Gone(q, bad)
  BY <1>2 DEF Gone, StreamClose
<1>3. CASE Failed(q, bad)
  BY <1>3 DEF Failed, SendFails
<1> QED BY <1>1, <1>2, <1>3, FlushEnds

LEMMA SendShows ==
  ASSUME TypeOK, ~SendErrors, NEW items \in Seq(Requests), NEW ok, NEW bad,
         Send(items, ok, bad), NEW S,
         state = "normal" => stale \subseteq S \cup Fresh(queue) \cup Fresh(items)
  PROVE  state' = "normal" => stale' \subseteq S \cup Fresh(queue')
<1>1. queue \in Seq(Requests)
  BY DEF TypeOK
<1>2. queue \o items \in Seq(Requests) /\ Fresh(queue \o items) = Fresh(queue) \cup Fresh(items)
  BY <1>1, Joined
<1>3. CASE state = "closed" /\ UNCHANGED state
  BY <1>3
<1>4. CASE queue' = queue \o items /\ UNCHANGED <<state, stale>>
  BY <1>2, <1>4
<1>5. CASE state = "normal" /\ Flush(queue \o items, ok, bad)
  BY <1>2, <1>5, FlushShows
<1> QED BY <1>3, <1>4, <1>5 DEF Send, streamVars

(* NoLostDamage, with what is in the queue as one set. *)
Shown == state = "normal" => stale \subseteq damage \cup job.fresh \cup Fresh(queue)

(* The steps that leave the update alone, and may send something else. *)
LEMMA ShownKept ==
  ASSUME TypeOK, ~SendErrors, Shown, damage \subseteq damage', UNCHANGED job,
         \/ UNCHANGED <<stale, queue, state>>
         \/ \E items \in Seq(Requests) : \E ok, bad : Send(items, ok, bad)
         \/ \E ok, bad : Flush(queue, ok, bad)
         \/ state' = "closed"
  PROVE  Shown'
<1>1. queue \in Seq(Requests)
  BY DEF TypeOK
<1>2. CASE UNCHANGED <<stale, queue, state>>
  BY <1>2 DEF Shown
<1>3. ASSUME NEW items \in Seq(Requests), NEW ok, NEW bad, Send(items, ok, bad)
      PROVE  Shown'
  <2>1. state' = "normal" => stale' \subseteq (damage \cup job.fresh) \cup Fresh(queue')
    BY <1>3, SendShows DEF Shown
  <2> QED BY <2>1 DEF Shown
<1>4. ASSUME NEW ok, NEW bad, Flush(queue, ok, bad)
      PROVE  Shown'
  <2>0. CASE state = "normal"
    <3>1. state' = "normal" => stale' \subseteq (damage \cup job.fresh) \cup Fresh(queue')
      BY <1>1, <1>4, <2>0, FlushShows DEF Shown
    <3> QED BY <3>1 DEF Shown
  <2>1. CASE state = "closed"
    <3>1. state' = "closed"
      BY <1>4, <2>1 DEF Flush, SendTakes, StreamClose, SendFails
    <3> QED BY <3>1 DEF Shown
  <2> QED BY <2>0, <2>1 DEF TypeOK
<1>5. CASE state' = "closed"
  BY <1>5 DEF Shown
<1> QED BY <1>2, <1>3, <1>4, <1>5

(* The client takes over the formats of the next SetEncodings only. *)
LEMMA FenceExtensionStep ==
  ASSUME TypeOK, KeepsFenceExtension, HasFenceExtension, [Next]_vars
  PROVE  HasFenceExtension'
<1>1. \A m \in Unprocessed' : m.type = "setEncodings" => "fence" \in m.encs
  <2>1. [type |-> "pong"].type # "setEncodings"
    OBVIOUS
  <2> QED BY <2>1, Arrivals DEF HasFenceExtension, KeepsFenceExtension
<1>2. "fence" \in encodings'
  <2>1. CASE UNCHANGED encodings
    BY <2>1 DEF HasFenceExtension
  <2>2. CASE OnSetEncodings
    <3>1. NextMessage("setEncodings") /\ encodings' = Head(buffer).encs
      BY <2>2 DEF OnSetEncodings
    <3>2. Head(buffer) \in On(buffer) /\ Head(buffer).type = "setEncodings"
      BY <3>1, MessageAtHead
    <3> QED BY <3>1, <3>2 DEF HasFenceExtension, Unprocessed
  <2>3. CASE ProcessPendingFence \/ ResumeAfterFence \/ EnterUpdate \/ SendNotification
             \/ BeginDecrement \/ EndDecrement \/ StartFrame \/ CompleteUpdate \/ EndFlush
             \/ CompositeDone
    BY <2>1, <2>3 DEF ProcessPendingFence, ResumeAfterFence, EnterUpdate, SendNotification,
       BeginDecrement, EndDecrement, StartFrame, CompleteUpdate, EndFlush, CompositeDone,
       PfbVars, formatVars
  <2>4. CASE SendPing \/ LoopEnds \/ IgnoreRequest \/ OnFbUpdateRequest \/ OnSetPixelFormat
             \/ OnEnableContinuousUpdates \/ OnFenceResponse \/ RefuseFence \/ OnFenceRequest
    BY <2>1, <2>4 DEF SendPing, LoopEnds, IgnoreRequest, OnFbUpdateRequest, OnSetPixelFormat,
       OnEnableContinuousUpdates, OnFenceResponse, RefuseFence, OnFenceRequest, formatVars
  <2>5. CASE FinishUpdate \/ OnClientEvent \/ RemoteClosed \/ OnWritable
             \/ ApplicationCall \/ ClientSends \/ Closing
    BY <2>1, <2>5, ClosingStep DEF FinishUpdate, OnClientEvent, RemoteClosed, OnWritable,
       ApplicationCall, ClientSends, EventFrame, formatVars
  <2>6. CASE UNCHANGED vars
    BY <2>1, <2>6 DEF vars, formatVars
  <2> QED BY <2>2, <2>3, <2>4, <2>5, <2>6 DEF Next, Handler, Closing
<1> QED BY <1>1, <1>2 DEF HasFenceExtension

(* An encoding that does not fail keeps the areas of the frame. *)
LEMMA EncodingShows ==
  ASSUME EncodeFaults = {},
         NEW f, f \in [stage : {"direct", "composite", "none", "encode", "lost"},
                       fresh : SUBSET Areas, layout : Layouts, fenced : BOOLEAN],
         NEW changed, StartEncoding(f, changed)
  PROVE  job'.fresh = f.fresh
<1>1. job' = [f EXCEPT !.stage = "encode"]
  BY DEF StartEncoding
<1> QED BY <1>1

LEMMA StartFrameShows ==
  ASSUME TypeOK, InOneStage, Nested, EncodeFaults = {}, Shown, StartFrame
  PROVE  Shown'
<1>1. job = NoJob /\ job.fresh = {}
  BY StartFrameNesting DEF NoJob
<1>2. UNCHANGED <<state, queue, stale>>
  BY DEF StartFrame, streamVars
<1>3. CASE UNCHANGED <<damage, job>>
  BY <1>2, <1>3 DEF Shown
<1>4. CASE \E p \in Pipelines :
             LET f == [stage |-> p, fresh |-> damage, layout |-> layout,
                       fenced |-> FALSE] IN
             \/ /\ p = "direct"
                /\ StartEncoding(f, FALSE)
             \/ /\ p = "composite"
                /\ \/ job' = f
                   \/ "feed" \in EncodeFaults /\ job' = LostJob
                /\ isUpdating' = TRUE
                /\ formatsChanged' = FALSE
                /\ UNCHANGED <<onDone, nPending>>
  <2>0. PICK p \in {"direct", "composite"} : \E f :
             /\ f = [stage |-> p, fresh |-> damage, layout |-> layout, fenced |-> FALSE]
             /\ StartEncoding(f, FALSE) \/ job' = f
    BY <1>4
  <2>1. PICK f :
             /\ f = [stage |-> p, fresh |-> damage, layout |-> layout, fenced |-> FALSE]
             /\ StartEncoding(f, FALSE) \/ job' = f
    BY <2>0
  <2>2. /\ f \in [stage : {"direct", "composite", "none", "encode", "lost"},
                  fresh : SUBSET Areas, layout : Layouts, fenced : BOOLEAN]
        /\ f.fresh = damage
    BY <2>1 DEF TypeOK
  <2>3. job'.fresh = damage
    BY <2>1, <2>2, EncodingShows
  <2> QED BY <1>1, <1>2, <2>3 DEF Shown
<1> QED BY <1>3, <1>4, Zenon DEF StartFrame

LEMMA CompositeDoneShows ==
  ASSUME TypeOK, EncodeFaults = {}, Severed, Shown, CompositeDone
  PROVE  Shown'
<1>1. /\ UNCHANGED <<state, queue, stale, damage>>
      /\ StartEncoding(job, formatsChanged) \/ state = "closed"
  BY DEF CompositeDone, streamVars, Severed
<1>2. job \in [stage : {"direct", "composite", "none", "encode", "lost"},
               fresh : SUBSET Areas, layout : Layouts, fenced : BOOLEAN]
  BY DEF TypeOK, Jobs
<1>3. state = "closed" \/ job'.fresh = job.fresh
  BY <1>1, <1>2, EncodingShows
<1> QED BY <1>1, <1>3 DEF Shown

LEMMA FinishUpdateShows ==
  ASSUME TypeOK, ~SendErrors, HasFenceExtension, Shown, FinishUpdate
  PROVE  Shown'
<1>1. job' = NoJob /\ ~IsDropped
  BY DEF FinishUpdate, IsDropped, HasFenceExtension
<1>2. CASE state = "closed" /\ NoSend
  BY <1>2 DEF NoSend, streamVars, Shown
<1>3. CASE ClientClose("destroy")
  BY <1>3 DEF ClientClose, StreamClose, Shown
<1>4. CASE /\ damage' \in {Areas, damage}
           /\ Send(<<[kind |-> "frame", fresh |-> job.fresh]>>,
                   <<Call("ping"), Call("ppf")>>, <<Call("complete")>>)
  <2>1. PICK items \in Seq(Requests) : items = <<[kind |-> "frame", fresh |-> job.fresh]>>
    BY FrameType
  <2>2. job.fresh \subseteq Fresh(items)
    <3>1. DOMAIN items = 1..1 /\ items[1].fresh = job.fresh
      BY <2>1
    <3> QED BY <3>1 DEF Fresh
  <2>3. PICK ok, bad : Send(items, ok, bad)
    BY <1>4, <2>1
  <2>4. state = "normal" => stale \subseteq damage \cup Fresh(queue) \cup Fresh(items)
    BY <2>2 DEF Shown
  <2>5. state' = "normal" => stale' \subseteq damage \cup Fresh(queue')
    BY <2>3, <2>4, SendShows
  <2>6. damage \subseteq damage'
    BY <1>4 DEF TypeOK
  <2> QED BY <2>5, <2>6 DEF Shown
<1> QED BY <1>1, <1>2, <1>3, <1>4 DEF FinishUpdate

LEMMA ApplicationCallShows ==
  ASSUME TypeOK, Shown, ApplicationCall
  PROVE  Shown'
<1>1. queue \in Seq(Requests) /\ job \in Jobs
  BY DEF TypeOK
<1>2. UNCHANGED state
  BY DEF ApplicationCall
<1>3. ASSUME NEW hit, damage' = DamageRegion(hit), stale' = stale \cup hit,
             job' = [job EXCEPT !.fresh = @ \ hit],
             queue' = [i \in DOMAIN queue |-> [queue[i] EXCEPT !.fresh = @ \ hit]]
      PROVE  Shown'
  <2>1. Fresh(queue') = Fresh(queue) \ hit
    BY <1>1, <1>3, Outdated, Zenon
  <2>2. job'.fresh = job.fresh \ hit
    BY <1>1, <1>3 DEF Jobs
  <2>3. state = "normal" => damage' = damage \cup hit
    BY <1>3 DEF DamageRegion
  <2> QED BY <1>2, <1>3, <2>1, <2>2, <2>3 DEF Shown
<1>4. CASE UNCHANGED <<damage, stale, job, queue>>
  BY <1>2, <1>4 DEF Shown
<1> QED BY <1>3, <1>4, ApplicationCalls

LEMMA ShownStep ==
  ASSUME ~SendErrors, EncodeFaults = {}, Calm, HasFenceExtension, Severed, Shown,
         [Next]_vars
  PROVE  Shown'
<1>1. TypeOK /\ InOneStage /\ NoFences /\ Nested
  BY DEF Calm
<1>2. \A kind \in {"update", "fence", "ping", "other"} : <<Item(kind)>> \in Seq(Requests)
  BY ItemType
<1>3. ASSUME NEW kind \in {"update", "fence", "ping", "other"}, NEW ok, NEW bad,
             Send(<<Item(kind)>>, ok, bad), UNCHANGED <<damage, job>>
      PROVE  Shown'
  BY <1>1, <1>2, <1>3, ShownKept
<1>4. ASSUME NoSend, damage \subseteq damage', UNCHANGED job
      PROVE  Shown'
  BY <1>4 DEF NoSend, streamVars, Shown
<1>5. CASE ProcessPendingFence \/ SendNotification \/ SendPing \/ OnSetEncodings
           \/ OnSetPixelFormat \/ OnEnableContinuousUpdates
  BY <1>3, <1>4, <1>5 DEF ProcessPendingFence, SendNotification, SendPing, OnSetEncodings,
     OnSetPixelFormat, OnEnableContinuousUpdates
<1>6. CASE EnterUpdate \/ BeginDecrement \/ EndDecrement \/ LoopEnds \/ IgnoreRequest
           \/ OnFbUpdateRequest \/ OnFenceResponse
  BY <1>4, <1>6 DEF EnterUpdate, BeginDecrement, EndDecrement, LoopEnds, IgnoreRequest,
     OnFbUpdateRequest, OnFenceResponse
<1>7. CASE CompleteUpdate \/ EndFlush \/ ClientSends
  BY <1>7 DEF CompleteUpdate, EndFlush, ClientSends, streamVars, Shown
<1>8. CASE OnClientEvent \/ RemoteClosed
  BY <1>4, <1>8 DEF OnClientEvent, RemoteClosed, StreamClose, Shown
<1>9. CASE Closing
  <2>1. UNCHANGED <<damage, job, stale>>
    BY <1>9, ClosingStep
  <2>2. CASE StreamClose
    BY <2>2 DEF StreamClose, Shown
  <2>3. CASE UNCHANGED streamVars
    BY <2>1, <2>3 DEF streamVars, Shown
  <2> QED BY <1>9, <2>2, <2>3, ClosingStep
<1>10. CASE OnWritable
  <2>1. UNCHANGED <<damage, job>> /\ Flush(queue, << >>, << >>)
    BY <1>10 DEF OnWritable
  <2> QED BY <1>1, <2>1, ShownKept
<1>11. CASE UNCHANGED vars
  BY <1>11 DEF vars, streamVars, updateVars, Shown
<1> QED BY <1>1, <1>5, <1>6, <1>7, <1>8, <1>9, <1>10, <1>11, StartFrameShows,
           CompositeDoneShows, FinishUpdateShows, ApplicationCallShows, NoFenceHandlers
           DEF Next, Handler, Closing

(* No damage is lost: an area that the client shows old is in its damage or  *)
(* on its way in a frame, when frames are not dropped for want of the fence  *)
(* extension or of an encoder, and no error of sendmsg or nested answer to a *)
(* fence overlaps two of them.                                               *)
THEOREM DamageKept ==
  ~SendErrors /\ NoFenceRequests /\ EncodeFaults = {} /\ KeepsFenceExtension =>
    (Spec => []NoLostDamage)
<1> SUFFICES ASSUME ~SendErrors, NoFenceRequests, EncodeFaults = {}, KeepsFenceExtension
             PROVE  Spec => []NoLostDamage
  OBVIOUS
<1>1. Init => HasFenceExtension /\ Severed /\ Shown
  <2> SUFFICES ASSUME Init PROVE HasFenceExtension /\ Severed /\ Shown
    OBVIOUS
  <2>1. /\ encodings \in EncodingSets /\ net = << >> /\ buffer = << >> /\ stale = {}
        /\ life = "open"
    BY DEF Init
  <2> QED BY <2>1, OnEmpty DEF HasFenceExtension, KeepsFenceExtension, Unprocessed,
                                 Severed, Shown
<1>2. Calm /\ HasFenceExtension /\ Severed /\ Shown /\ [Next]_vars
        => HasFenceExtension' /\ Severed' /\ Shown'
  BY FenceExtensionStep, SeveredStep, ShownStep DEF Calm
<1>3. Shown => NoLostDamage
  BY DEF Shown, Fresh, NoLostDamage
<1>4. Spec => []Calm
  BY Calmness
<1> QED BY <1>1, <1>2, <1>3, <1>4, PTL DEF Spec

=============================================================================
