--------------------------- MODULE EncodersProofs ---------------------------
(***************************************************************************)
(* Proofs about Encoders, for any displays, damage and number of zlib      *)
(* streams, frames and back ends.  The inductive invariant is Safe.  It    *)
(* says of the state that WorldOk holds: each reference count is the       *)
(* number of references that the client and the jobs have, the back ends   *)
(* in use are those of the contexts, a back end has a frame at the worker  *)
(* exactly if there is a work for it, and frame_barrier is not less than   *)
(* the number of packets to come.  WorldOk also takes the references that  *)
(* the running function holds, so that it can be stated in between the     *)
(* calls of a handler: each function of the code has a lemma saying what   *)
(* it does to WorldOk, and each action one saying that it keeps Safe.      *)
(***************************************************************************)
EXTENDS Encoders, SequenceTheorems, FunctionTheorems, FiniteSetTheorems,
        WellFoundedInduction, TLAPS

-----------------------------------------------------------------------------
(* Reference counts.  rn and tn are the references that the client and the  *)
(* function that is running hold; each work has one of its own.             *)
Bit(b) == IF b THEN 1 ELSE 0

Of(ks, kind) == {k \in ks : k.of = kind}

WorldFields == {"raw", "tight", "h264", "backEnds", "works", "client", "peer", "fault"}

RawOk(r, ks, rn) ==
  /\ \A j, k \in Of(ks, "raw") : j = k
  /\ r = None => Of(ks, "raw") = {} /\ rn = 0
  /\ r # None => /\ DOMAIN r = {"ref", "work"}
                 /\ r.ref = Bit(Of(ks, "raw") # {}) + rn
                 /\ r.ref # 0

TightFields ==
  {"ref", "w", "n", "grid", "frame", "quality", "nRects", "nJobs", "dst", "deflated"}

(* The jobs of the tight encoder are for streams of their own; it is        *)
(* finished when the last of them is done.                                  *)
JobsOk(ks) ==
  /\ IsFiniteSet(Of(ks, "tight"))
  /\ \A k \in Of(ks, "tight") : k = [of |-> "tight", stream |-> k.stream, stage |-> k.stage]
  /\ \A j, k \in Of(ks, "tight") : j.stream = k.stream => j = k
  /\ \A j, k \in Of(ks, "finish") : j = k
  /\ Of(ks, "finish") # {} => Of(ks, "tight") = {}

TightOk(t, ks, tn) ==
  /\ JobsOk(ks)
  /\ t = None => Of(ks, "tight") = {} /\ Of(ks, "finish") = {} /\ tn = 0
  /\ t # None => /\ DOMAIN t = TightFields
                 /\ t.nJobs = Cardinality(Of(ks, "tight"))
                 /\ t.ref = t.nJobs + Bit(Of(ks, "finish") # {}) + tn
                 /\ t.ref # 0

LEMMA HasField ==
  ASSUME NEW r, "none" \notin DOMAIN r
  PROVE  r # None
BY DEF None

(* The fields other than f of two worlds are the same. *)
Only(w, v, f) == \A k \in WorldFields \ f : v[k] = w[k]

(* encoder_unref of the raw encoder. *)
LEMMA RawUnref ==
  ASSUME NEW w, DOMAIN w = WorldFields, NEW rn \in Nat, RawOk(w.raw, w.works, rn + 1)
  PROVE  LET v == Unref(w, "raw")
         IN  /\ DOMAIN v = WorldFields
             /\ Only(w, v, {"raw"})
             /\ RawOk(v.raw, v.works, rn)
<1> DEFINE v == Unref(w, "raw")
           R == Of(w.works, "raw")
<1>1. /\ w.raw # None /\ DOMAIN w.raw = {"ref", "work"}
      /\ w.raw.ref = Bit(R # {}) + (rn + 1)
  BY DEF RawOk
<1>2. CASE w.raw.ref = 1
  <2>1. R = {} /\ rn = 0
    BY <1>1, <1>2 DEF Bit
  <2>2. {k \in w.works : k.of # "raw"} = w.works
    BY <2>1 DEF Of
  <2>3. v = [w EXCEPT !.raw = None, !.works = w.works]
    BY <1>2, <2>2 DEF Unref, Destroyed
  <2>4. DOMAIN v = WorldFields /\ v.raw = None /\ Only(w, v, {"raw"})
    BY <2>3 DEF Only, WorldFields
  <2>5. v.works = w.works
    BY <2>4 DEF Only, WorldFields
  <2> QED
    BY <2>1, <2>4, <2>5 DEF RawOk
<1>3. CASE w.raw.ref # 1
  <2>1. v = [w EXCEPT !.raw = [w.raw EXCEPT !.ref = w.raw.ref - 1]]
    BY <1>3 DEF Unref
  <2>2. DOMAIN v = WorldFields /\ Only(w, v, {"raw"})
    BY <2>1 DEF Only, WorldFields
  <2>3. v.raw = [w.raw EXCEPT !.ref = w.raw.ref - 1]
    BY <2>1 DEF WorldFields
  <2>4. DOMAIN v.raw = {"ref", "work"} /\ v.raw.ref = w.raw.ref - 1
    BY <1>1, <2>3
  <2>5. v.raw.ref = Bit(R # {}) + rn /\ v.raw.ref # 0
    BY <1>1, <1>3, <2>4 DEF Bit
  <2>6. v.works = w.works /\ v.raw # None
    BY <2>2, <2>4, HasField DEF Only, WorldFields
  <2> QED
    BY <2>2, <2>4, <2>5, <2>6 DEF RawOk
<1> QED
  BY <1>2, <1>3

(* encoder_unref of the tight encoder. *)
LEMMA TightUnref ==
  ASSUME NEW w, DOMAIN w = WorldFields, NEW tn \in Nat, TightOk(w.tight, w.works, tn + 1)
  PROVE  LET v == Unref(w, "tight")
         IN  /\ DOMAIN v = WorldFields
             /\ Only(w, v, {"tight"})
             /\ TightOk(v.tight, v.works, tn)
<1> DEFINE v == Unref(w, "tight")
           T == Of(w.works, "tight")
           F == Of(w.works, "finish")
<1>1. /\ w.tight # None /\ DOMAIN w.tight = TightFields
      /\ w.tight.nJobs = Cardinality(T)
      /\ w.tight.ref = w.tight.nJobs + Bit(F # {}) + (tn + 1)
  BY DEF TightOk
<1>2. IsFiniteSet(T) /\ Cardinality(T) \in Nat
  BY FS_CardinalityType DEF TightOk, JobsOk
<1>3. CASE w.tight.ref = 1
  <2>1. Cardinality(T) = 0 /\ F = {} /\ tn = 0
    BY <1>1, <1>2, <1>3 DEF Bit
  <2>2. T = {}
    BY <1>2, <2>1, FS_EmptySet
  <2>3. v = [w EXCEPT !.tight = None]
    BY <1>3 DEF Unref, Destroyed
  <2>4. DOMAIN v = WorldFields /\ v.tight = None /\ Only(w, v, {"tight"})
    BY <2>3 DEF Only, WorldFields
  <2>5. v.works = w.works
    BY <2>4 DEF Only, WorldFields
  <2> QED
    BY <2>1, <2>2, <2>4, <2>5 DEF TightOk
<1>4. CASE w.tight.ref # 1
  <2>1. v = [w EXCEPT !.tight = [w.tight EXCEPT !.ref = w.tight.ref - 1]]
    BY <1>4 DEF Unref
  <2>2. DOMAIN v = WorldFields /\ Only(w, v, {"tight"})
    BY <2>1 DEF Only, WorldFields
  <2>3. v.tight = [w.tight EXCEPT !.ref = w.tight.ref - 1]
    BY <2>1 DEF WorldFields
  <2>4. /\ DOMAIN v.tight = TightFields
        /\ v.tight.ref = w.tight.ref - 1 /\ v.tight.nJobs = w.tight.nJobs
    BY <1>1, <2>3 DEF TightFields
  <2>5. v.tight.ref = v.tight.nJobs + Bit(F # {}) + tn /\ v.tight.ref # 0
    BY <1>1, <1>2, <1>4, <2>4 DEF Bit
  <2>6. v.works = w.works
    BY <2>2 DEF Only, WorldFields
  <2>7. v.tight # None
    BY <2>4, HasField DEF TightFields
  <2> QED
    BY <1>1, <2>2, <2>4, <2>5, <2>6, <2>7 DEF TightOk
<1> QED
  BY <1>3, <1>4

-----------------------------------------------------------------------------
(* Sequences of which only the length and the elements are known. *)
IsSequence(s) == s \in Seq({s[i] : i \in DOMAIN s})

LEMMA SequenceIs ==
  ASSUME NEW s, IsSequence(s)
  PROVE  Len(s) \in Nat /\ DOMAIN s = 1..Len(s)
BY DEF IsSequence

LEMMA FunctionIsSequence ==
  ASSUME NEW n \in Nat, NEW f, DOMAIN f = 1..n, f = [i \in 1..n |-> f[i]]
  PROVE  IsSequence(f) /\ Len(f) = n
<1> DEFINE S == {f[i] : i \in DOMAIN f}
<1>1. f \in [1..n -> S]
  OBVIOUS
<1>2. f \in Seq(S)
  BY <1>1
<1>3. Len(f) = n
  BY <1>2, <1>1
<1> QED
  BY <1>2, <1>3 DEF IsSequence

LEMMA EmptyIs ==
  /\ IsSequence(<< >>) /\ Len(<< >>) = 0 /\ DOMAIN << >> = {}
  /\ \A s : (IsSequence(s) /\ Len(s) = 0) => s = << >>
<1>1. IsSequence(<< >>) /\ Len(<< >>) = 0 /\ DOMAIN << >> = {}
  BY DEF IsSequence
<1>2. ASSUME NEW s, IsSequence(s), Len(s) = 0 PROVE s = << >>
  BY <1>2 DEF IsSequence
<1> QED
  BY <1>1, <1>2

LEMMA AppendedIs ==
  ASSUME NEW s, IsSequence(s), NEW e
  PROVE  LET t == Append(s, e)
         IN  /\ IsSequence(t)
             /\ DOMAIN t = DOMAIN s \cup {Len(s) + 1}
             /\ Len(t) = Len(s) + 1
             /\ Len(s) + 1 \notin DOMAIN s
             /\ \A j \in DOMAIN s : t[j] = s[j]
             /\ t[Len(s) + 1] = e
<1> DEFINE S == {s[i] : i \in DOMAIN s} \cup {e}
           t == Append(s, e)
<1>1. Len(s) \in Nat /\ DOMAIN s = 1..Len(s)
  BY SequenceIs
<1>2. s \in Seq(S)
  <2>1. s \in [1..Len(s) -> S]
    BY <1>1 DEF IsSequence
  <2> QED
    BY <1>1, <2>1
<1> HIDE DEF S
<1>3. /\ t \in Seq(S) /\ Len(t) = Len(s) + 1
      /\ \A j \in 1..Len(s) : t[j] = s[j]
      /\ t[Len(s) + 1] = e
  BY <1>2, AppendProperties DEF S
<1> HIDE DEF t
<1>4. DOMAIN t = 1..(Len(s) + 1) /\ t = [j \in 1..(Len(s) + 1) |-> t[j]]
  BY <1>1, <1>3
<1>5. IsSequence(t)
  BY <1>1, <1>4, FunctionIsSequence
<1> QED
  BY <1>1, <1>3, <1>4, <1>5 DEF t

LEMMA TailIs ==
  ASSUME NEW s, IsSequence(s), s # << >>
  PROVE  /\ IsSequence(Tail(s)) /\ Len(s) \in Nat \ {0} /\ Len(Tail(s)) = Len(s) - 1
         /\ 1 \in DOMAIN s /\ Head(s) = s[1]
         /\ \A j \in DOMAIN Tail(s) : j + 1 \in DOMAIN s /\ Tail(s)[j] = s[j + 1]
<1> DEFINE S == {s[i] : i \in DOMAIN s}
           t == Tail(s)
<1>1. s \in Seq(S) /\ Len(s) \in Nat /\ DOMAIN s = 1..Len(s)
  BY DEF IsSequence
<1>2. Len(s) # 0
  BY <1>1, EmptyIs
<1>3. t \in Seq(S) /\ Len(t) = Len(s) - 1 /\ \A j \in 1..Len(t) : t[j] = s[j + 1]
  BY <1>1, <1>2, HeadTailProperties
<1> HIDE DEF t
<1>4. DOMAIN t = 1..(Len(s) - 1) /\ t = [j \in 1..(Len(s) - 1) |-> t[j]]
  BY <1>1, <1>3
<1>5. IsSequence(t)
  BY <1>1, <1>2, <1>4, FunctionIsSequence
<1> QED
  BY <1>1, <1>2, <1>3, <1>4, <1>5 DEF t

LEMMA MappedIs ==
  ASSUME NEW s, IsSequence(s), NEW t, DOMAIN t = DOMAIN s, t = [i \in DOMAIN s |-> t[i]]
  PROVE  IsSequence(t) /\ Len(t) = Len(s)
BY SequenceIs, FunctionIsSequence

(* t is s with e at i. *)
Replaced(s, t, i, e) ==
  /\ DOMAIN t = DOMAIN s
  /\ i \in DOMAIN s
  /\ t[i] = e
  /\ \A j \in DOMAIN s : j # i => t[j] = s[j]
  /\ IsSequence(t) /\ Len(t) = Len(s)

LEMMA ReplacedIs ==
  ASSUME NEW s, IsSequence(s), NEW i \in DOMAIN s, NEW e
  PROVE  Replaced(s, [s EXCEPT ![i] = e], i, e)
<1> DEFINE t == [s EXCEPT ![i] = e]
<1>1. DOMAIN t = DOMAIN s /\ t = [j \in DOMAIN s |-> t[j]]
  OBVIOUS
<1>2. s = [j \in DOMAIN s |-> s[j]]
  BY DEF IsSequence
<1>3. t[i] = e /\ \A j \in DOMAIN s : j # i => t[j] = s[j]
  BY <1>2
<1> HIDE DEF t
<1>4. IsSequence(t) /\ Len(t) = Len(s)
  BY <1>1, MappedIs
<1> QED
  BY <1>1, <1>3, <1>4 DEF Replaced, t

-----------------------------------------------------------------------------
(* Back ends.  One is in use until it is destroyed or shall be; its load is *)
(* the frames it was fed and has not handed back as packets.                *)
BackFields ==
  {"type", "live", "nextKey", "asked", "made", "queue", "cur", "packet", "pleaseDestroy",
   "src", "at", "device", "ready"}

InUse(e) == e.live /\ ~e.pleaseDestroy

Working(e) == IF e.cur = None THEN 0 ELSE 1

Load(e) == Len(e.queue) + Working(e) + Len(e.device) + Len(e.ready)

(* An FFmpeg back end lives on while its worker is at work; the device's is *)
(* never with a worker.                                                     *)
BackEndOk(e, type) ==
  /\ DOMAIN e = BackFields /\ e.type = type
  /\ IsSequence(e.queue) /\ IsSequence(e.device) /\ IsSequence(e.ready)
  /\ \A i \in DOMAIN e.queue : "none" \notin DOMAIN e.queue[i]
  /\ e.pleaseDestroy => e.cur # None
  /\ e.cur # None => e.live /\ type = "ffmpeg"
  /\ type = "ffmpeg" => e.device = << >> /\ e.ready = << >>
  /\ type = "v4l2" => e.queue = << >>
  /\ ~e.live => e.queue = << >> /\ e.device = << >> /\ e.ready = << >>

LEMMA SumOfTwo ==
  \A a, b \in Nat : a + b \in Nat /\ (a + b = 0 => a = 0 /\ b = 0)
OBVIOUS

LEMMA LoadIs ==
  ASSUME NEW e, NEW type, BackEndOk(e, type)
  PROVE  /\ Load(e) \in Nat
         /\ Load(e) = 0 => e.queue = << >> /\ e.cur = None /\ e.device = << >> /\ e.ready = << >>
<1>1. Len(e.queue) \in Nat /\ Len(e.device) \in Nat /\ Len(e.ready) \in Nat
  BY SequenceIs DEF BackEndOk
<1>2. Working(e) \in Nat /\ (Working(e) = 0 => e.cur = None)
  BY DEF Working
<1>3. Len(e.queue) + Working(e) \in Nat
  BY <1>1, <1>2, SumOfTwo, Zenon
<1>4. Len(e.queue) + Working(e) + Len(e.device) \in Nat
  BY <1>1, <1>3, SumOfTwo, Zenon
<1>5. /\ Load(e) \in Nat
      /\ Load(e) = 0 => Len(e.ready) = 0 /\ Len(e.queue) + Working(e) + Len(e.device) = 0
  BY <1>1, <1>4, SumOfTwo, Zenon DEF Load
<1>6. (Len(e.queue) + Working(e)) + Len(e.device) = 0 =>
        Len(e.device) = 0 /\ Len(e.queue) + Working(e) = 0
  BY <1>1, <1>3, SumOfTwo, Zenon
<1>7. Len(e.queue) + Working(e) = 0 => Len(e.queue) = 0 /\ Working(e) = 0
  BY <1>1, <1>2, SumOfTwo, Zenon
<1> QED
  BY <1>2, <1>5, <1>6, <1>7, EmptyIs DEF BackEndOk

LEMMA NewOk ==
  ASSUME NEW type \in {"ffmpeg", "v4l2"}
  PROVE  LET e == BackEndNew(type)
         IN  BackEndOk(e, type) /\ InUse(e) /\ Load(e) = 0 /\ e.cur = None
<1> DEFINE e == BackEndNew(type)
<1>1. /\ DOMAIN e = BackFields /\ e.type = type
      /\ e.queue = << >> /\ e.device = << >> /\ e.ready = << >>
      /\ e.cur = None /\ e.live = TRUE /\ e.pleaseDestroy = FALSE
  BY DEF BackEndNew, FfmpegNew, V4l2New, BackFields
<1> HIDE DEF e
<1> QED
  BY <1>1, EmptyIs DEF BackEndOk, InUse, Load, Working, e

(* h264_encoder_destroy: a back end whose worker is not done is there until *)
(* it is.                                                                   *)
Dead(type) == [BackEndNew(type) EXCEPT !.live = FALSE]

LEMMA DeadOk ==
  ASSUME NEW type \in {"ffmpeg", "v4l2"}
  PROVE  LET d == Dead(type)
         IN  BackEndOk(d, type) /\ ~InUse(d) /\ d.cur = None
<1> DEFINE d == Dead(type)
           n == BackEndNew(type)
<1>1. /\ DOMAIN n = BackFields /\ BackEndOk(n, type) /\ n.cur = None
      /\ Load(n) = 0 /\ InUse(n)
  BY NewOk DEF BackEndOk
<1>2. d = [n EXCEPT !.live = FALSE]
  BY DEF Dead
<1> HIDE DEF n, d
<1>3. /\ DOMAIN d = BackFields /\ d.live = FALSE
      /\ \A k \in BackFields \ {"live"} : d[k] = n[k]
  BY <1>1, <1>2 DEF BackFields
<1>4. /\ d.type = n.type /\ d.queue = n.queue /\ d.cur = n.cur /\ d.device = n.device
      /\ d.ready = n.ready /\ d.pleaseDestroy = n.pleaseDestroy
  BY <1>3 DEF BackFields
<1>5. n.queue = << >> /\ n.device = << >> /\ n.ready = << >>
  BY <1>1, LoadIs
<1>6. n.type = type /\ ~n.pleaseDestroy /\ n.cur = None
  BY <1>1 DEF BackEndOk, InUse
<1> QED
  BY <1>3, <1>4, <1>5, <1>6, EmptyIs DEF BackEndOk, InUse, d

LEMMA DestroyedOk ==
  ASSUME NEW type \in {"ffmpeg", "v4l2"}, NEW e, BackEndOk(e, type)
  PROVE  LET d == BackEndDestroyed(e)
         IN  BackEndOk(d, type) /\ ~InUse(d) /\ d.cur = e.cur
<1> DEFINE d == BackEndDestroyed(e)
<1>1. CASE e.cur # None
  <2>1. d = [e EXCEPT !.pleaseDestroy = TRUE]
    BY <1>1 DEF BackEndDestroyed, BackEndOk
  <2>2. /\ DOMAIN d = BackFields /\ d.pleaseDestroy = TRUE
        /\ \A k \in BackFields \ {"pleaseDestroy"} : d[k] = e[k]
    BY <2>1 DEF BackEndOk, BackFields
  <2> HIDE DEF d
  <2>3. /\ d.type = e.type /\ d.queue = e.queue /\ d.cur = e.cur /\ d.device = e.device
        /\ d.ready = e.ready /\ d.live = e.live
    BY <2>2 DEF BackFields
  <2> QED
    BY <1>1, <2>2, <2>3 DEF BackEndOk, InUse, d
<1>2. CASE e.cur = None
  <2>1. d = Dead(type)
    BY <1>2 DEF BackEndDestroyed, BackEndOk, Dead
  <2> QED
    BY <1>2, <2>1, DeadOk
<1> QED
  BY <1>1, <1>2

-----------------------------------------------------------------------------
(* frame_barrier.  The packets that are due are the loads of the back ends  *)
(* in use; there are never more of them than frame_barrier counts.          *)
Due(bs, b) == IF b \in DOMAIN bs /\ InUse(bs[b]) THEN Load(bs[b]) ELSE 0

Outstanding(bs) == {t \in Nat \X Nat : 1 <= t[2] /\ t[2] <= Due(bs, t[1])}

BarrierOk(bs, m) ==
  /\ \A b \in Nat : Due(bs, b) \in Nat
  /\ IsFiniteSet(Outstanding(bs))
  /\ Cardinality(Outstanding(bs)) <= m

LEMMA NoMoreDue ==
  ASSUME NEW bs, NEW cs, NEW m \in Nat, BarrierOk(bs, m),
         \A b \in Nat : Due(cs, b) \in Nat /\ Due(cs, b) <= Due(bs, b)
  PROVE  BarrierOk(cs, m)
<1>1. Outstanding(cs) \subseteq Outstanding(bs)
  <2> SUFFICES ASSUME NEW x \in Nat, NEW y \in Nat, 1 <= y, y <= Due(cs, x)
               PROVE  y <= Due(bs, x)
    BY DEF Outstanding
  <2>1. Due(bs, x) \in Nat /\ Due(cs, x) \in Nat /\ Due(cs, x) <= Due(bs, x)
    BY DEF BarrierOk
  <2> QED
    BY <2>1
<1>2. /\ IsFiniteSet(Outstanding(cs))
      /\ Cardinality(Outstanding(cs)) <= Cardinality(Outstanding(bs))
  BY <1>1, FS_Subset DEF BarrierOk
<1>3. Cardinality(Outstanding(cs)) \in Nat /\ Cardinality(Outstanding(bs)) \in Nat
  BY <1>2, FS_CardinalityType DEF BarrierOk
<1>4. Cardinality(Outstanding(bs)) <= m
  BY DEF BarrierOk
<1>5. Cardinality(Outstanding(cs)) <= m
  BY <1>2, <1>3, <1>4
<1> QED
  BY <1>2, <1>5 DEF BarrierOk

(* A frame is fed. *)
LEMMA OneMoreDue ==
  ASSUME NEW bs, NEW cs, NEW m \in Nat, BarrierOk(bs, m), NEW b \in Nat,
         \A a \in Nat : Due(cs, a) \in Nat /\ (a # b => Due(cs, a) <= Due(bs, a)),
         Due(cs, b) <= Due(bs, b) + 1
  PROVE  BarrierOk(cs, m + 1)
<1> DEFINE d == Due(bs, b)
           S == Outstanding(bs) \cup {<<b, d + 1>>}
<1>1. Outstanding(cs) \subseteq S
  <2> SUFFICES ASSUME NEW x \in Nat, NEW y \in Nat, 1 <= y, y <= Due(cs, x)
               PROVE  <<x, y>> \in S
    BY DEF Outstanding
  <2>1. Due(bs, x) \in Nat /\ Due(cs, x) \in Nat /\ d \in Nat
    BY DEF BarrierOk
  <2>2. CASE x # b
    <3>1. y <= Due(bs, x)
      BY <2>1, <2>2
    <3> QED
      BY <3>1 DEF Outstanding
  <2>3. CASE x = b /\ y <= d
    BY <2>3 DEF Outstanding
  <2>4. CASE x = b /\ y = d + 1
    BY <2>4
  <2>5. x = b => y <= d \/ y = d + 1
    BY <2>1
  <2> QED
    BY <2>2, <2>3, <2>4, <2>5
<1>2. /\ IsFiniteSet(S) /\ Cardinality(Outstanding(bs)) \in Nat
      /\ Cardinality(S) <= Cardinality(Outstanding(bs)) + 1 /\ Cardinality(S) \in Nat
  <2>1. IsFiniteSet(Outstanding(bs))
    BY DEF BarrierOk
  <2> HIDE DEF d
  <2>2. /\ IsFiniteSet(S)
        /\ \/ Cardinality(S) = Cardinality(Outstanding(bs))
           \/ Cardinality(S) = Cardinality(Outstanding(bs)) + 1
    BY <2>1, FS_AddElement
  <2> HIDE DEF S
  <2>3. Cardinality(Outstanding(bs)) \in Nat /\ Cardinality(S) \in Nat
    BY <2>1, <2>2, FS_CardinalityType
  <2> QED
    BY <2>2, <2>3
<1> HIDE DEF S
<1>3. IsFiniteSet(Outstanding(cs)) /\ Cardinality(Outstanding(cs)) <= Cardinality(S)
  BY <1>1, <1>2, FS_Subset
<1>4. Cardinality(Outstanding(cs)) \in Nat
  BY <1>3, FS_CardinalityType
<1>5. Cardinality(Outstanding(bs)) <= m
  BY DEF BarrierOk
<1>6. Cardinality(Outstanding(cs)) <= m + 1
  BY <1>2, <1>3, <1>4, <1>5
<1> QED
  BY <1>3, <1>6 DEF BarrierOk

(* A packet is handed over. *)
LEMMA OneLessDue ==
  ASSUME NEW bs, NEW cs, NEW m \in Nat, BarrierOk(bs, m), NEW b \in Nat, Due(bs, b) # 0,
         \A a \in Nat : Due(cs, a) \in Nat /\ (a # b => Due(cs, a) <= Due(bs, a)),
         Due(cs, b) <= Due(bs, b) - 1
  PROVE  m - 1 \in Nat /\ BarrierOk(cs, m - 1)
<1> DEFINE d == Due(bs, b)
           S == Outstanding(bs) \ {<<b, d>>}
<1>0. d \in Nat
  BY DEF BarrierOk
<1>1. Outstanding(cs) \subseteq S
  <2> SUFFICES ASSUME NEW x \in Nat, NEW y \in Nat, 1 <= y, y <= Due(cs, x)
               PROVE  <<x, y>> \in S
    BY DEF Outstanding
  <2>1. Due(bs, x) \in Nat /\ Due(cs, x) \in Nat
    BY DEF BarrierOk
  <2>2. CASE x # b
    <3>1. y <= Due(bs, x)
      BY <2>1, <2>2
    <3> QED
      BY <2>2, <3>1 DEF Outstanding
  <2>3. CASE x = b
    <3>1. y <= d /\ y # d
      BY <2>1, <2>3, <1>0
    <3> QED
      BY <2>3, <3>1 DEF Outstanding
  <2> QED
    BY <2>2, <2>3
<1>2. IsFiniteSet(Outstanding(bs)) /\ <<b, d>> \in Outstanding(bs)
  BY <1>0 DEF BarrierOk, Outstanding
<1>3. IsFiniteSet(S) /\ Cardinality(S) = Cardinality(Outstanding(bs)) - 1
  <2> HIDE DEF d
  <2> QED
    BY <1>2, FS_RemoveElement
<1>4. Cardinality(S) \in Nat /\ Cardinality(Outstanding(bs)) \in Nat
  BY <1>2, <1>3, FS_CardinalityType
<1> HIDE DEF S
<1>5. IsFiniteSet(Outstanding(cs)) /\ Cardinality(Outstanding(cs)) <= Cardinality(S)
  BY <1>1, <1>3, FS_Subset
<1>6. Cardinality(Outstanding(cs)) \in Nat
  BY <1>5, FS_CardinalityType
<1>7. Cardinality(Outstanding(bs)) <= m
  BY DEF BarrierOk
<1>8. m - 1 \in Nat /\ Cardinality(Outstanding(cs)) <= m - 1
  BY <1>3, <1>4, <1>5, <1>6, <1>7
<1> QED
  BY <1>5, <1>8 DEF BarrierOk

LEMMA NoneDue ==
  ASSUME NEW bs
  PROVE  /\ BarrierOk(bs, 0) => \A b \in Nat : Due(bs, b) = 0
         /\ (\A b \in Nat : Due(bs, b) = 0) => BarrierOk(bs, 0)
<1>1. ASSUME BarrierOk(bs, 0), NEW b \in Nat PROVE Due(bs, b) = 0
  <2>1. IsFiniteSet(Outstanding(bs)) /\ Cardinality(Outstanding(bs)) <= 0
    BY <1>1 DEF BarrierOk
  <2>2. Outstanding(bs) = {}
    BY <2>1, FS_CardinalityType, FS_EmptySet
  <2>3. Due(bs, b) \in Nat /\ <<b, 1>> \notin Outstanding(bs)
    BY <1>1, <2>2 DEF BarrierOk
  <2> QED
    BY <2>3 DEF Outstanding
<1>2. ASSUME \A b \in Nat : Due(bs, b) = 0 PROVE BarrierOk(bs, 0)
  <2>1. Outstanding(bs) = {}
    BY <1>2 DEF Outstanding
  <2>2. IsFiniteSet({}) /\ Cardinality({}) = 0
    BY FS_EmptySet
  <2>3. Cardinality(Outstanding(bs)) <= 0 /\ IsFiniteSet(Outstanding(bs))
    BY <2>1, <2>2
  <2> QED
    BY <1>2, <2>3 DEF BarrierOk
<1> QED
  BY <1>1, <1>2

-----------------------------------------------------------------------------
(* The back ends and the works of FFmpeg: each back end that has a frame at *)
(* the worker has one work, and no other has any.                           *)
PoolOk(bs, ks, type) ==
  /\ type \in {"ffmpeg", "v4l2"}
  /\ IsSequence(bs)
  /\ \A b \in DOMAIN bs : BackEndOk(bs[b], type)
  /\ \A k \in Of(ks, "ffmpeg") :
       "id" \in DOMAIN k /\ k.id \in DOMAIN bs /\ bs[k.id].cur # None
  /\ \A j, k \in Of(ks, "ffmpeg") : j.id = k.id => j = k
  /\ \A b \in DOMAIN bs : bs[b].cur # None => \E k \in Of(ks, "ffmpeg") : k.id = b

LEMMA DueIs ==
  ASSUME NEW bs, NEW ks, NEW type, PoolOk(bs, ks, type)
  PROVE  /\ \A b \in Nat : Due(bs, b) \in Nat
         /\ DOMAIN bs \subseteq Nat
<1>1. ASSUME NEW b \in Nat PROVE Due(bs, b) \in Nat
  <2>1. CASE b \in DOMAIN bs /\ InUse(bs[b])
    <3>1. Load(bs[b]) \in Nat
      BY <2>1, LoadIs DEF PoolOk
    <3> QED
      BY <2>1, <3>1 DEF Due
  <2>2. CASE ~(b \in DOMAIN bs /\ InUse(bs[b]))
    BY <2>2 DEF Due
  <2> QED
    BY <2>1, <2>2
<1>2. DOMAIN bs \subseteq Nat
  BY SequenceIs DEF PoolOk
<1> QED
  BY <1>1, <1>2

(* One back end changes, and keeps its frame at the worker. *)
LEMMA PoolReplaced ==
  ASSUME NEW bs, NEW cs, NEW ks, NEW type, PoolOk(bs, ks, type), NEW b, NEW e,
         Replaced(bs, cs, b, e), BackEndOk(e, type), bs[b].cur = None <=> e.cur = None
  PROVE  PoolOk(cs, ks, type)
<1>1. \A a \in DOMAIN cs : BackEndOk(cs[a], type)
  BY DEF PoolOk, Replaced
<1>2. DOMAIN cs = DOMAIN bs /\ \A a \in DOMAIN bs : bs[a].cur # None <=> cs[a].cur # None
  BY DEF Replaced
<1>3. \A k \in Of(ks, "ffmpeg") :
        "id" \in DOMAIN k /\ k.id \in DOMAIN cs /\ cs[k.id].cur # None
  BY <1>2 DEF PoolOk
<1> QED
  BY <1>1, <1>3 DEF PoolOk, Replaced

(* ... and with it what is due of it. *)
LEMMA DueReplaced ==
  ASSUME NEW bs, NEW cs, NEW b, NEW e, Replaced(bs, cs, b, e)
  PROVE  /\ \A a \in Nat : a # b => Due(cs, a) = Due(bs, a)
         /\ InUse(e) => Due(cs, b) = Load(e)
         /\ ~InUse(e) => Due(cs, b) = 0
         /\ InUse(bs[b]) => Due(bs, b) = Load(bs[b])
BY DEF Due, Replaced

(* The worlds of the works: what they are for and how far they are. *)
Kinds(ks) ==
  \A k \in ks : /\ {"of", "stage"} \subseteq DOMAIN k
                /\ k.of \in {"raw", "tight", "finish", "ffmpeg"}

ClientFields == {"open", "encoder", "keepsTight", "frame", "updating", "quality", "lost"}

(* What the H.264 encoder does leaves the others, and the client, alone. *)
Aside(w, v) ==
  /\ DOMAIN v = WorldFields
  /\ v.raw = w.raw /\ v.tight = w.tight /\ v.fault = w.fault
  /\ Of(v.works, "raw") = Of(w.works, "raw")
  /\ Of(v.works, "tight") = Of(w.works, "tight")
  /\ Of(v.works, "finish") = Of(w.works, "finish")
  /\ Kinds(v.works)
  /\ DOMAIN v.client = ClientFields
  /\ v.client.open = w.client.open /\ v.client.encoder = w.client.encoder
  /\ v.client.keepsTight = w.client.keepsTight /\ v.client.updating = w.client.updating

LEMMA AsideTrans ==
  ASSUME NEW u, NEW v, NEW w, Aside(u, v), Aside(v, w)
  PROVE  Aside(u, w)
BY DEF Aside

(* ... when it changes just itself and its back ends. *)
LEMMA OnlyAside ==
  ASSUME NEW w, NEW v, DOMAIN v = WorldFields, Only(w, v, {"h264", "backEnds"}),
         Kinds(w.works), DOMAIN w.client = ClientFields
  PROVE  Aside(w, v) /\ v.works = w.works
<1>1. /\ v.raw = w.raw /\ v.tight = w.tight /\ v.fault = w.fault
      /\ v.works = w.works /\ v.client = w.client
  BY DEF Only, WorldFields
<1> QED
  BY <1>1 DEF Aside

(* h264_encoder__schedule_work. *)
LEMMA Schedules ==
  ASSUME NEW w, DOMAIN w = WorldFields, Kinds(w.works), DOMAIN w.client = ClientFields,
         NEW type, PoolOk(w.backEnds, w.works, type), NEW b \in DOMAIN w.backEnds
  PROVE  LET v == ScheduleWork(w, b)
             d == v.backEnds[b]
             e == w.backEnds[b]
         IN  /\ Aside(w, v) /\ v.h264 = w.h264
             /\ PoolOk(v.backEnds, v.works, type)
             /\ Replaced(w.backEnds, v.backEnds, b, d)
             /\ Load(d) = Load(e) /\ InUse(d) = InUse(e)
<1> DEFINE v == ScheduleWork(w, b)
           e == w.backEnds[b]
<1>0. BackEndOk(e, type) /\ IsSequence(w.backEnds) /\ Aside(w, w)
  BY DEF PoolOk, Aside
<1>1. CASE e.cur # None \/ e.queue = << >>
  <2>1. v = w
    BY <1>1 DEF ScheduleWork
  <2>2. Replaced(w.backEnds, w.backEnds, b, e)
    BY <1>0 DEF Replaced
  <2> QED
    BY <1>0, <2>1, <2>2
<1>2. CASE e.cur = None /\ e.queue # << >>
  <2> DEFINE c == [Head(e.queue) EXCEPT !.key = e.nextKey]
             d == [e EXCEPT !.cur = c, !.queue = Tail(e.queue), !.nextKey = FALSE]
             k == [of |-> "ffmpeg", id |-> b, stage |-> "run"]
             cs == [w.backEnds EXCEPT ![b] = d]
  <2>1. v = [w EXCEPT !.backEnds = cs, !.works = w.works \cup {k}]
    BY <1>2 DEF ScheduleWork
  <2>2. /\ IsSequence(Tail(e.queue)) /\ Len(e.queue) \in Nat \ {0}
        /\ Len(Tail(e.queue)) = Len(e.queue) - 1
        /\ 1 \in DOMAIN e.queue /\ Head(e.queue) = e.queue[1]
        /\ \A j \in DOMAIN Tail(e.queue) :
             j + 1 \in DOMAIN e.queue /\ Tail(e.queue)[j] = e.queue[j + 1]
    BY <1>0, <1>2, TailIs DEF BackEndOk
  <2>3. c # None
    <3>1. DOMAIN c = DOMAIN Head(e.queue)
      OBVIOUS
    <3>2. "none" \notin DOMAIN Head(e.queue)
      BY <1>0, <2>2 DEF BackEndOk
    <3> QED
      BY <3>1, <3>2, HasField
  <2> HIDE DEF c
  <2>4. /\ DOMAIN d = BackFields /\ d.cur = c /\ d.queue = Tail(e.queue)
        /\ d.type = e.type /\ d.device = e.device /\ d.ready = e.ready
        /\ d.live = e.live /\ d.pleaseDestroy = e.pleaseDestroy
    BY <1>0 DEF BackEndOk, BackFields
  <2> HIDE DEF d
  <2>5. type = "ffmpeg" /\ e.live
    BY <1>0, <1>2 DEF BackEndOk, PoolOk
  <2>6. \A j \in DOMAIN d.queue : "none" \notin DOMAIN d.queue[j]
    BY <1>0, <2>2, <2>4 DEF BackEndOk
  <2>7. BackEndOk(d, type)
    BY <1>0, <2>2, <2>3, <2>4, <2>5, <2>6 DEF BackEndOk
  <2>8. InUse(d) = InUse(e)
    BY <2>4 DEF InUse
  <2>9. Load(d) = Load(e)
    <3>1. Working(d) = 1 /\ Working(e) = 0
      BY <1>2, <2>3, <2>4 DEF Working
    <3>2. PICK n \in Nat : n = Len(e.device)
      BY <1>0, SequenceIs DEF BackEndOk
    <3>3. PICK m \in Nat : m = Len(e.ready)
      BY <1>0, SequenceIs DEF BackEndOk
    <3>4. PICK q \in Nat : q = Len(e.queue)
      BY <2>2
    <3>5. Load(e) = q + 0 + n + m /\ Load(d) = (q - 1) + 1 + n + m
      BY <2>2, <2>4, <3>1, <3>2, <3>3, <3>4 DEF Load
    <3> QED
      BY <3>5
  <2>10. Replaced(w.backEnds, cs, b, d)
    BY <1>0, ReplacedIs
  <2> HIDE DEF cs
  <2>11. /\ DOMAIN cs = DOMAIN w.backEnds /\ IsSequence(cs) /\ cs[b] = d
         /\ \A a \in DOMAIN cs : a # b => cs[a] = w.backEnds[a]
    BY <2>10 DEF Replaced
  <2>12. /\ DOMAIN v = WorldFields /\ v.backEnds = cs /\ v.works = w.works \cup {k}
         /\ v.raw = w.raw /\ v.tight = w.tight /\ v.fault = w.fault
         /\ v.client = w.client /\ v.h264 = w.h264
    BY <2>1 DEF WorldFields
  <2>13. PoolOk(cs, v.works, type)
    <3> DEFINE F == Of(w.works, "ffmpeg")
               G == Of(v.works, "ffmpeg")
    <3>1. G = F \cup {k}
      BY <2>12 DEF Of
    <3>2. k.id = b /\ "id" \in DOMAIN k /\ b \in DOMAIN cs /\ cs[b].cur # None
      BY <2>3, <2>4, <2>11
    <3> HIDE DEF k
    <3>3. /\ \A j \in F : "id" \in DOMAIN j /\ j.id \in DOMAIN w.backEnds
                           /\ w.backEnds[j.id].cur # None
          /\ \A i, j \in F : i.id = j.id => i = j
          /\ \A a \in DOMAIN w.backEnds : w.backEnds[a].cur # None => \E j \in F : j.id = a
      BY DEF PoolOk
    <3>4. \A j \in F : j.id # b
      BY <1>2, <3>3
    <3> HIDE DEF F, G
    <3>5. /\ \A j \in G : "id" \in DOMAIN j /\ j.id \in DOMAIN cs /\ cs[j.id].cur # None
          /\ \A i, j \in G : i.id = j.id => i = j
      BY <2>11, <3>1, <3>2, <3>3, <3>4
    <3>6. ASSUME NEW a \in DOMAIN cs, cs[a].cur # None PROVE \E j \in G : j.id = a
      <4>1. CASE a = b
        BY <3>1, <3>2, <4>1
      <4>2. CASE a # b
        BY <2>11, <3>1, <3>3, <3>6, <4>2
      <4> QED
        BY <4>1, <4>2
    <3>7. \A a \in DOMAIN cs : BackEndOk(cs[a], type)
      BY <2>7, <2>11 DEF PoolOk
    <3> QED
      BY <2>5, <2>11, <3>5, <3>6, <3>7 DEF PoolOk, G
  <2>14. Aside(w, v)
    <3>1. \A kind \in {"raw", "tight", "finish"} : Of(v.works, kind) = Of(w.works, kind)
      BY <2>12 DEF Of
    <3>2. Kinds(v.works)
      BY <2>12 DEF Kinds
    <3> QED
      BY <2>12, <3>1, <3>2 DEF Aside
  <2>15. v.backEnds[b] = d
    BY <2>10, <2>12 DEF Replaced
  <2> HIDE DEF v, e
  <2> QED
    BY <2>8, <2>9, <2>10, <2>12, <2>13, <2>14, <2>15 DEF v, e
<1> QED
  BY <1>1, <1>2

(* h264_encoder_feed: the frame is one more that is due, or is dropped for  *)
(* want of a source buffer.                                                 *)
Fed(w, v, b, type) ==
  LET d == v.backEnds[b]
      e == w.backEnds[b]
  IN  /\ Aside(w, v) /\ v.h264 = w.h264
      /\ PoolOk(v.backEnds, v.works, type)
      /\ Replaced(w.backEnds, v.backEnds, b, d)
      /\ InUse(d)
      /\ Load(d) \in Nat /\ Load(e) \in Nat /\ Load(d) <= Load(e) + 1

LEMMA FfmpegFeeds ==
  ASSUME NEW w, DOMAIN w = WorldFields, Kinds(w.works), DOMAIN w.client = ClientFields,
         PoolOk(w.backEnds, w.works, "ffmpeg"), NEW b \in DOMAIN w.backEnds,
         InUse(w.backEnds[b]), NEW f
  PROVE  Fed(w, FfmpegFeed(w, b, f), b, "ffmpeg")
<1> DEFINE e == w.backEnds[b]
           q == [frame |-> f, key |-> FALSE, asked |-> e.asked]
           d == [e EXCEPT !.queue = Append(e.queue, q), !.asked = FALSE]
           cs == [w.backEnds EXCEPT ![b] = d]
           u == [w EXCEPT !.backEnds = cs]
           v == FfmpegFeed(w, b, f)
<1>0. BackEndOk(e, "ffmpeg") /\ IsSequence(w.backEnds)
  BY DEF PoolOk
<1>1. v = ScheduleWork(u, b)
  BY DEF FfmpegFeed
<1>2. /\ DOMAIN d = BackFields /\ d.cur = e.cur /\ d.queue = Append(e.queue, q)
      /\ d.type = e.type /\ d.device = e.device /\ d.ready = e.ready
      /\ d.live = e.live /\ d.pleaseDestroy = e.pleaseDestroy
  BY <1>0 DEF BackEndOk, BackFields
<1> HIDE DEF d
<1>3. "none" \notin DOMAIN q
  OBVIOUS
<1> HIDE DEF q
<1>4. /\ IsSequence(d.queue)
      /\ DOMAIN d.queue = DOMAIN e.queue \cup {Len(e.queue) + 1}
      /\ Len(d.queue) = Len(e.queue) + 1
      /\ \A j \in DOMAIN e.queue : d.queue[j] = e.queue[j]
      /\ d.queue[Len(e.queue) + 1] = q
  BY <1>0, <1>2, AppendedIs DEF BackEndOk
<1>5. \A j \in DOMAIN d.queue : "none" \notin DOMAIN d.queue[j]
  BY <1>0, <1>3, <1>4 DEF BackEndOk
<1>6. InUse(d) /\ d.live
  BY <1>2 DEF InUse
<1>7. BackEndOk(d, "ffmpeg")
  BY <1>0, <1>2, <1>4, <1>5, <1>6 DEF BackEndOk
<1>8. Load(d) \in Nat /\ Load(e) \in Nat /\ Load(d) <= Load(e) + 1
  <2>1. Working(d) = Working(e) /\ Working(e) \in Nat
    BY <1>2 DEF Working
  <2>2. PICK n \in Nat : n = Len(e.device)
    BY <1>0, SequenceIs DEF BackEndOk
  <2>3. PICK m \in Nat : m = Len(e.ready)
    BY <1>0, SequenceIs DEF BackEndOk
  <2>4. PICK p \in Nat : p = Len(e.queue)
    BY <1>0, SequenceIs DEF BackEndOk
  <2>5. PICK c \in Nat : c = Working(e)
    BY <2>1
  <2>6. Load(e) = p + c + n + m /\ Load(d) = (p + 1) + c + n + m
    BY <1>2, <1>4, <2>1, <2>2, <2>3, <2>4, <2>5 DEF Load
  <2> QED
    BY <2>6
<1>9. Replaced(w.backEnds, cs, b, d)
  BY <1>0, ReplacedIs
<1> HIDE DEF cs
<1>10. PoolOk(cs, w.works, "ffmpeg")
  BY <1>2, <1>7, <1>9, PoolReplaced
<1>11. DOMAIN u = WorldFields /\ u.backEnds = cs /\ Only(w, u, {"backEnds"})
  BY DEF WorldFields, Only
<1>12. u.works = w.works /\ u.client = w.client /\ u.h264 = w.h264
  BY <1>11 DEF WorldFields, Only
<1>13. Aside(w, u)
  BY <1>11, <1>12 DEF WorldFields, Only, Aside
<1>14. b \in DOMAIN u.backEnds /\ u.backEnds[b] = d /\ DOMAIN u.client = ClientFields
  BY <1>9, <1>11, <1>12 DEF Replaced
<1> HIDE DEF u
<1>15. /\ Aside(u, v) /\ v.h264 = u.h264
       /\ PoolOk(v.backEnds, v.works, "ffmpeg")
       /\ Replaced(u.backEnds, v.backEnds, b, v.backEnds[b])
       /\ Load(v.backEnds[b]) = Load(d) /\ InUse(v.backEnds[b]) = InUse(d)
  BY <1>1, <1>10, <1>11, <1>12, <1>14, Schedules
<1> HIDE DEF v
<1>16. Aside(w, v) /\ v.h264 = w.h264
  BY <1>12, <1>13, <1>15, AsideTrans
<1>17. Replaced(w.backEnds, v.backEnds, b, v.backEnds[b])
  BY <1>9, <1>11, <1>15 DEF Replaced
<1>18. Load(v.backEnds[b]) \in Nat /\ Load(v.backEnds[b]) <= Load(e) + 1
  BY <1>8, <1>15
<1>19. InUse(v.backEnds[b])
  BY <1>6, <1>15
<1> QED
  BY <1>8, <1>15, <1>16, <1>17, <1>18, <1>19 DEF Fed, v

Grown(s, t) == t = s \/ \E g : t = Append(s, g)

LEMMA GrownIs ==
  ASSUME NEW s, IsSequence(s), NEW t, Grown(s, t)
  PROVE  IsSequence(t) /\ (Len(t) = Len(s) \/ Len(t) = Len(s) + 1)
<1>1. CASE t = s
  BY <1>1
<1>2. CASE \E g : t = Append(s, g)
  <2>1. PICK g : t = Append(s, g)
    BY <1>2
  <2>2. IsSequence(Append(s, g)) /\ Len(Append(s, g)) = Len(s) + 1
    BY AppendedIs
  <2> QED
    BY <2>1, <2>2
<1> QED
  BY <1>1, <1>2 DEF Grown

Queued(w, v, b, p, d, cs, c) ==
  /\ v = [w EXCEPT !.backEnds = cs, !.client = c]
  /\ cs = [w.backEnds EXCEPT ![b] = d]
  /\ c = w.client \/ c = [w.client EXCEPT !.lost = TRUE]
  /\ DOMAIN d = BackFields /\ d.cur = p.cur /\ d.queue = p.queue
  /\ d.type = p.type /\ d.ready = p.ready
  /\ d.live = p.live /\ d.pleaseDestroy = p.pleaseDestroy
  /\ Grown(p.device, d.device)

LEMMA V4l2Feeds ==
  ASSUME NEW w, DOMAIN w = WorldFields, Kinds(w.works), DOMAIN w.client = ClientFields,
         PoolOk(w.backEnds, w.works, "v4l2"), NEW b \in DOMAIN w.backEnds,
         InUse(w.backEnds[b]), NEW f
  PROVE  Fed(w, V4l2Feed(w, b, f), b, "v4l2")
<1> DEFINE e == w.backEnds[b]
           p == ProcessSrcBufs(e)
           v == V4l2Feed(w, b, f)
<1>0. BackEndOk(e, "v4l2") /\ IsSequence(w.backEnds)
  BY DEF PoolOk
<1>1. /\ DOMAIN p = BackFields /\ p.cur = e.cur /\ p.queue = e.queue
      /\ p.type = e.type /\ p.device = e.device /\ p.ready = e.ready
      /\ p.live = e.live /\ p.pleaseDestroy = e.pleaseDestroy
  BY <1>0 DEF BackEndOk, BackFields, ProcessSrcBufs
<1>2. \E d, cs, c : Queued(w, v, b, p, d, cs, c)
  <2> DEFINE free == {k \in 1..NSrcBufs : p.src[SrcOrder(p.at)[k]] = "free"}
  <2>1. CASE free = {}
    <3>1. v = [w EXCEPT !.backEnds[b] = p, !.client.lost = TRUE]
      BY <2>1 DEF V4l2Feed
    <3>2. v = [w EXCEPT !.backEnds = [w.backEnds EXCEPT ![b] = p],
                        !.client = [w.client EXCEPT !.lost = TRUE]]
      BY <3>1
    <3>3. Queued(w, v, b, p, p, [w.backEnds EXCEPT ![b] = p], [w.client EXCEPT !.lost = TRUE])
      BY <1>1, <3>2 DEF Queued, Grown
    <3> QED
      BY <3>3
  <2>2. CASE free # {}
    <3> DEFINE k == CHOOSE j \in free : \A i \in free : j <= i
               s == SrcOrder(p.at)[k]
               g == [frame |-> f, key |-> p.nextKey, asked |-> p.asked, src |-> s]
               d == [p EXCEPT !.src[s] = "queued", !.at = (s % NSrcBufs) + 1,
                              !.device = Append(@, g), !.nextKey = FALSE, !.asked = FALSE]
    <3>1. v = [w EXCEPT !.backEnds[b] = d]
      BY <2>2 DEF V4l2Feed
    <3>2. v = [w EXCEPT !.backEnds = [w.backEnds EXCEPT ![b] = d], !.client = w.client]
      BY <3>1 DEF WorldFields
    <3>3. /\ DOMAIN d = BackFields /\ d.cur = p.cur /\ d.queue = p.queue
          /\ d.type = p.type /\ d.ready = p.ready
          /\ d.live = p.live /\ d.pleaseDestroy = p.pleaseDestroy
          /\ d.device = Append(p.device, g)
      BY <1>1 DEF BackFields
    <3> HIDE DEF d, g
    <3>4. Queued(w, v, b, p, d, [w.backEnds EXCEPT ![b] = d], w.client)
      BY <3>2, <3>3 DEF Queued, Grown
    <3> QED
      BY <3>4
  <2> QED
    BY <2>1, <2>2
<1>3. PICK d, cs, c : Queued(w, v, b, p, d, cs, c)
  BY <1>2
<1> HIDE DEF p, v
<1>4. IsSequence(d.device) /\ (Len(d.device) = Len(e.device) \/ Len(d.device) = Len(e.device) + 1)
  <2>1. IsSequence(p.device) /\ p.device = e.device /\ Grown(p.device, d.device)
    BY <1>0, <1>1, <1>3 DEF BackEndOk, Queued
  <2> QED
    BY <2>1, GrownIs
<1>5. InUse(d) /\ d.live
  BY <1>1, <1>3 DEF InUse, Queued
<1>6. BackEndOk(d, "v4l2")
  BY <1>0, <1>1, <1>3, <1>4, <1>5 DEF BackEndOk, Queued
<1>7. Load(d) \in Nat /\ Load(e) \in Nat /\ Load(d) <= Load(e) + 1
  <2>1. Working(d) = Working(e) /\ Working(e) \in Nat
    BY <1>1, <1>3 DEF Working, Queued
  <2>2. PICK n \in Nat : n = Len(e.device)
    BY <1>0, SequenceIs DEF BackEndOk
  <2>3. PICK m \in Nat : m = Len(e.ready)
    BY <1>0, SequenceIs DEF BackEndOk
  <2>4. PICK q \in Nat : q = Len(e.queue)
    BY <1>0, SequenceIs DEF BackEndOk
  <2>5. PICK z \in Nat : z = Working(e)
    BY <2>1
  <2>6. PICK l \in Nat : l = Len(d.device) /\ (l = n \/ l = n + 1)
    BY <1>4, <2>2
  <2>7. Load(e) = q + z + n + m /\ Load(d) = q + z + l + m
    BY <1>1, <1>3, <2>1, <2>2, <2>3, <2>4, <2>5, <2>6 DEF Load, Queued
  <2>8. l = n \/ l = n + 1
    BY <2>6
  <2> QED
    BY <2>7, <2>8
<1>8. Replaced(w.backEnds, cs, b, d)
  BY <1>0, <1>3, ReplacedIs DEF Queued
<1>9. PoolOk(cs, w.works, "v4l2")
  BY <1>1, <1>3, <1>6, <1>8, PoolReplaced DEF Queued
<1>10. /\ DOMAIN v = WorldFields /\ v.backEnds = cs /\ v.client = c
       /\ Only(w, v, {"backEnds", "client"})
  BY <1>3 DEF WorldFields, Only, Queued
<1>11. /\ DOMAIN c = ClientFields /\ c.open = w.client.open /\ c.encoder = w.client.encoder
       /\ c.keepsTight = w.client.keepsTight /\ c.updating = w.client.updating
  BY <1>3 DEF ClientFields, Queued
<1>12. Aside(w, v) /\ v.h264 = w.h264 /\ v.works = w.works
  BY <1>10, <1>11 DEF WorldFields, Only, Aside
<1>13. v.backEnds[b] = d
  BY <1>8, <1>10 DEF Replaced
<1> QED
  BY <1>5, <1>7, <1>8, <1>9, <1>10, <1>12, <1>13 DEF Fed, v

LEMMA Feeds ==
  ASSUME NEW w, DOMAIN w = WorldFields, Kinds(w.works), DOMAIN w.client = ClientFields,
         NEW type, PoolOk(w.backEnds, w.works, type), NEW b \in DOMAIN w.backEnds,
         InUse(w.backEnds[b]), NEW f
  PROVE  Fed(w, Feed(w, b, f), b, type)
<1>1. w.backEnds[b].type = type /\ type \in {"ffmpeg", "v4l2"}
  BY DEF PoolOk, BackEndOk
<1>2. CASE type = "ffmpeg"
  <2>1. Feed(w, b, f) = FfmpegFeed(w, b, f)
    BY <1>1, <1>2 DEF Feed
  <2> QED
    BY <1>2, <2>1, FfmpegFeeds
<1>3. CASE type = "v4l2"
  <2>1. Feed(w, b, f) = V4l2Feed(w, b, f)
    BY <1>1, <1>3 DEF Feed
  <2> QED
    BY <1>3, <2>1, V4l2Feeds
<1> QED
  BY <1>1, <1>2, <1>3

-----------------------------------------------------------------------------
(* Open H.264: the back ends in use are those of its contexts, each has one *)
(* of its own, and a context whose quality changed has no frame in flight.  *)
CtxFields == {"x", "w", "id", "pending", "qualityChanged"}

Ids(cs) == {cs[i].id : i \in DOMAIN cs}

ContextsOk(cs, bs) ==
  /\ IsSequence(cs)
  /\ \A i \in DOMAIN cs : /\ DOMAIN cs[i] = CtxFields
                          /\ cs[i].id \in DOMAIN bs
                          /\ InUse(bs[cs[i].id])
                          /\ Load(bs[cs[i].id]) # 0 => ~cs[i].qualityChanged
  /\ \A i, j \in DOMAIN cs : cs[i].id = cs[j].id => i = j
  /\ \A b \in DOMAIN bs : InUse(bs[b]) => b \in Ids(cs)

HFields == {"ref", "contexts", "barrier", "quality", "fullReset", "frame"}

H264Ok(h, bs, type) ==
  /\ DOMAIN h = HFields
  /\ h.ref = 1
  /\ ContextsOk(h.contexts, bs)
  /\ h.barrier \in Nat
  /\ BarrierOk(bs, h.barrier)

(* The H.264 encoder is there and well. *)
Encoding(w, type) ==
  /\ DOMAIN w = WorldFields
  /\ Kinds(w.works)
  /\ DOMAIN w.client = ClientFields
  /\ PoolOk(w.backEnds, w.works, type)
  /\ H264Ok(w.h264, w.backEnds, type)

(* A frame is fed to the back end of a context, and waited for. *)
Counted(w) == [w EXCEPT !.h264.barrier = @ + 1]

LEMMA FeedsContext ==
  ASSUME NEW w, NEW type, Encoding(w, type), NEW i \in DOMAIN w.h264.contexts,
         ~w.h264.contexts[i].qualityChanged, NEW f
  PROVE  LET u == Feed(w, w.h264.contexts[i].id, f)
             v == Counted(u)
         IN  /\ Encoding(v, type) /\ Aside(w, v)
             /\ v.h264.contexts = w.h264.contexts
             /\ v.h264.fullReset = w.h264.fullReset
<1> DEFINE h == w.h264
           cs == h.contexts
           b == cs[i].id
           u == Feed(w, b, f)
           v == Counted(u)
           bs == w.backEnds
           ds == u.backEnds
<1>1. /\ b \in DOMAIN bs /\ InUse(bs[b]) /\ h.barrier \in Nat
      /\ ContextsOk(cs, bs) /\ BarrierOk(bs, h.barrier) /\ DOMAIN h = HFields
  BY DEF Encoding, H264Ok, ContextsOk
<1>2. Fed(w, u, b, type)
  BY <1>1, Feeds DEF Encoding
<1>3. /\ Aside(w, u) /\ u.h264 = h /\ PoolOk(ds, u.works, type)
      /\ Replaced(bs, ds, b, ds[b]) /\ InUse(ds[b])
      /\ Load(ds[b]) \in Nat /\ Load(bs[b]) \in Nat /\ Load(ds[b]) <= Load(bs[b]) + 1
  BY <1>2 DEF Fed
<1> HIDE DEF u
<1>4. /\ \A a \in Nat : Due(ds, a) \in Nat /\ (a # b => Due(ds, a) <= Due(bs, a))
      /\ Due(ds, b) <= Due(bs, b) + 1
  <2>1. \A a \in Nat : Due(ds, a) \in Nat
    BY <1>3, DueIs
  <2> HIDE DEF b, bs, ds
  <2>2. \A a \in Nat : a # b => Due(ds, a) = Due(bs, a)
    BY <1>3, DueReplaced
  <2>3. Due(ds, b) = Load(ds[b]) /\ Due(bs, b) = Load(bs[b])
    BY <1>1, <1>3, DueReplaced
  <2>4. \A a \in Nat : a # b => Due(ds, a) <= Due(bs, a)
    BY <2>1, <2>2
  <2> QED
    BY <1>3, <2>1, <2>3, <2>4
<1>5. BarrierOk(ds, h.barrier + 1)
  <2>1. b \in Nat
    BY <1>1, DueIs DEF Encoding
  <2> HIDE DEF b, bs, ds
  <2> QED
    BY <1>1, <1>4, <2>1, OneMoreDue
<1>6. ContextsOk(cs, ds)
  <2>1. \A j \in DOMAIN cs : j # i => cs[j].id # b
    BY <1>1 DEF ContextsOk
  <2>2. \A j \in DOMAIN cs : cs[j].id \in DOMAIN ds /\ InUse(ds[cs[j].id])
    BY <1>1, <1>3 DEF ContextsOk, Replaced
  <2>3. \A j \in DOMAIN cs : Load(ds[cs[j].id]) # 0 => ~cs[j].qualityChanged
    BY <1>1, <1>3, <2>1 DEF ContextsOk, Replaced
  <2>4. \A a \in DOMAIN ds : InUse(ds[a]) => a \in Ids(cs)
    BY <1>1, <1>3 DEF ContextsOk, Replaced
  <2> QED
    BY <1>1, <2>2, <2>3, <2>4 DEF ContextsOk
<1>7. DOMAIN u = WorldFields
  BY <1>3 DEF Aside
<1>8. /\ DOMAIN v = WorldFields /\ Only(u, v, {"h264"})
      /\ v.h264 = [h EXCEPT !.barrier = h.barrier + 1]
  BY <1>3, <1>7 DEF WorldFields, Only, Counted
<1>9. /\ DOMAIN v.h264 = HFields /\ v.h264.barrier = h.barrier + 1
      /\ v.h264.contexts = cs /\ v.h264.ref = h.ref /\ v.h264.fullReset = h.fullReset
  BY <1>1, <1>8 DEF HFields
<1>10. v.backEnds = ds /\ v.works = u.works /\ v.client = u.client
  BY <1>8 DEF Only, WorldFields
<1>11. Aside(w, v)
  <2>1. Aside(u, v)
    BY <1>3, <1>8, <1>10 DEF Aside, Only, WorldFields
  <2> QED
    BY <1>3, <2>1, AsideTrans
<1>12. H264Ok(v.h264, v.backEnds, type)
  BY <1>1, <1>5, <1>6, <1>9, <1>10 DEF H264Ok, Encoding
<1>13. Encoding(v, type)
  BY <1>3, <1>8, <1>10, <1>12 DEF Encoding, Aside
<1> HIDE DEF v
<1> QED
  BY <1>9, <1>11, <1>13 DEF v, u

(* open_h264_resize: the context at i gets a new back end, the one that it  *)
(* had before is destroyed.                                                 *)
Renewed(cs, ds, i, bs, es, type) ==
  LET b == Len(bs) + 1
  IN  /\ IsSequence(ds) /\ i \in DOMAIN ds
      /\ DOMAIN cs \subseteq DOMAIN ds
      /\ \A j \in DOMAIN ds : j # i => j \in DOMAIN cs /\ ds[j] = cs[j]
      /\ DOMAIN ds[i] = CtxFields /\ ds[i].id = b /\ ~ds[i].qualityChanged
      /\ IsSequence(es) /\ DOMAIN es = DOMAIN bs \cup {b}
      /\ b \notin DOMAIN bs
      /\ es[b] = BackEndNew(type)
      /\ \A a \in DOMAIN bs : (i \in DOMAIN cs /\ a = cs[i].id) => es[a] = BackEndDestroyed(bs[a])
      /\ \A a \in DOMAIN bs : ~(i \in DOMAIN cs /\ a = cs[i].id) => es[a] = bs[a]

LEMMA Renews ==
  ASSUME NEW cs, NEW ds, NEW i, NEW bs, NEW es, NEW type, Renewed(cs, ds, i, bs, es, type),
         NEW ks, PoolOk(bs, ks, type), ContextsOk(cs, bs), NEW m \in Nat, BarrierOk(bs, m)
  PROVE  PoolOk(es, ks, type) /\ ContextsOk(ds, es) /\ BarrierOk(es, m)
<1> DEFINE b == Len(bs) + 1
           gone(a) == i \in DOMAIN cs /\ a = cs[i].id
<1>1. type \in {"ffmpeg", "v4l2"} /\ \A a \in DOMAIN bs : BackEndOk(bs[a], type)
  BY DEF PoolOk
<1>2. BackEndOk(es[b], type) /\ InUse(es[b]) /\ Load(es[b]) = 0 /\ es[b].cur = None
  BY <1>1, NewOk DEF Renewed
<1>3. ASSUME NEW a \in DOMAIN bs, gone(a)
      PROVE  BackEndOk(es[a], type) /\ ~InUse(es[a]) /\ es[a].cur = bs[a].cur
  BY <1>1, <1>3, DestroyedOk DEF Renewed
<1>4. ASSUME NEW a \in DOMAIN bs, ~gone(a) PROVE es[a] = bs[a]
  BY <1>4 DEF Renewed
<1>5. \A a \in DOMAIN bs : es[a].cur = bs[a].cur /\ BackEndOk(es[a], type)
  BY <1>1, <1>3, <1>4
<1>6. /\ DOMAIN es = DOMAIN bs \cup {b} /\ b \notin DOMAIN bs /\ IsSequence(es)
      /\ IsSequence(ds) /\ i \in DOMAIN ds /\ ds[i].id = b /\ ~ds[i].qualityChanged
      /\ DOMAIN ds[i] = CtxFields /\ DOMAIN cs \subseteq DOMAIN ds
  BY DEF Renewed
<1>7. \A j \in DOMAIN ds : j # i => j \in DOMAIN cs /\ ds[j] = cs[j]
  BY DEF Renewed
<1>8. PoolOk(es, ks, type)
  <2>1. \A a \in DOMAIN es : BackEndOk(es[a], type)
    BY <1>2, <1>5, <1>6
  <2>2. \A k \in Of(ks, "ffmpeg") :
          "id" \in DOMAIN k /\ k.id \in DOMAIN es /\ es[k.id].cur # None
    BY <1>5, <1>6 DEF PoolOk
  <2>3. \A a \in DOMAIN es : es[a].cur # None => \E k \in Of(ks, "ffmpeg") : k.id = a
    BY <1>2, <1>5, <1>6 DEF PoolOk
  <2> QED
    BY <1>1, <1>6, <2>1, <2>2, <2>3 DEF PoolOk
<1>9. ASSUME NEW j \in DOMAIN ds, j # i
      PROVE  /\ ds[j].id \in DOMAIN bs /\ ds[j].id # b
             /\ ~gone(ds[j].id) /\ DOMAIN ds[j] = CtxFields
             /\ es[ds[j].id] = bs[ds[j].id] /\ InUse(bs[ds[j].id])
             /\ Load(bs[ds[j].id]) # 0 => ~ds[j].qualityChanged
  <2>1. j \in DOMAIN cs /\ ds[j] = cs[j]
    BY <1>7, <1>9
  <2>2. /\ cs[j].id \in DOMAIN bs /\ InUse(bs[cs[j].id]) /\ DOMAIN cs[j] = CtxFields
        /\ Load(bs[cs[j].id]) # 0 => ~cs[j].qualityChanged
        /\ i \in DOMAIN cs => cs[i].id # cs[j].id
    BY <1>9, <2>1 DEF ContextsOk
  <2>3. ~gone(cs[j].id)
    BY <2>2
  <2> QED
    BY <1>4, <1>6, <2>1, <2>2, <2>3
<1>10. ContextsOk(ds, es)
  <2>1. ASSUME NEW j \in DOMAIN ds
        PROVE  /\ DOMAIN ds[j] = CtxFields /\ ds[j].id \in DOMAIN es
               /\ InUse(es[ds[j].id])
               /\ Load(es[ds[j].id]) # 0 => ~ds[j].qualityChanged
    <3>1. CASE j = i
      BY <3>1, <1>2, <1>6
    <3>2. CASE j # i
      BY <3>2, <1>6, <1>9
    <3> QED
      BY <3>1, <3>2
  <2>2. ASSUME NEW j \in DOMAIN ds, NEW k \in DOMAIN ds, ds[j].id = ds[k].id PROVE j = k
    <3>1. CASE j # i /\ k # i
      BY <3>1, <2>2, <1>7 DEF ContextsOk
    <3>2. CASE j = i \/ k = i
      BY <3>2, <2>2, <1>6, <1>9
    <3> QED
      BY <3>1, <3>2
  <2>3. ASSUME NEW a \in DOMAIN es, InUse(es[a]) PROVE a \in Ids(ds)
    <3>1. CASE a = b
      BY <3>1, <1>6 DEF Ids
    <3>2. CASE a # b
      <4>1. a \in DOMAIN bs
        BY <3>2, <1>6
      <4>2. ~gone(a) /\ InUse(bs[a])
        BY <4>1, <2>3, <1>3, <1>4
      <4>3. a \in Ids(cs)
        BY <4>1, <4>2 DEF ContextsOk
      <4>4. PICK j \in DOMAIN cs : cs[j].id = a
        BY <4>3 DEF Ids
      <4>5. j # i /\ j \in DOMAIN ds
        BY <4>2, <4>4, <1>6
      <4>6. ds[j].id = a
        BY <4>4, <4>5, <1>7
      <4> QED
        BY <4>5, <4>6 DEF Ids
    <3> QED
      BY <3>1, <3>2
  <2> QED
    BY <1>6, <2>1, <2>2, <2>3 DEF ContextsOk
<1>11. BarrierOk(es, m)
  <2>1. ASSUME NEW a \in Nat
        PROVE  Due(es, a) = 0 \/ Due(es, a) = Due(bs, a)
    <3>1. CASE a = b
      BY <3>1, <1>2, <1>6 DEF Due
    <3>2. CASE a \in DOMAIN bs /\ gone(a)
      BY <3>2, <1>3 DEF Due
    <3>3. CASE a \in DOMAIN bs /\ ~gone(a)
      BY <3>3, <1>4, <1>6 DEF Due
    <3>4. CASE a \notin DOMAIN es
      BY <3>4 DEF Due
    <3> QED
      BY <3>1, <3>2, <3>3, <3>4, <1>6
  <2>2. \A a \in Nat : Due(bs, a) \in Nat
    BY DEF BarrierOk
  <2>3. \A a \in Nat : Due(es, a) \in Nat /\ Due(es, a) <= Due(bs, a)
    BY <2>1, <2>2
  <2> QED
    BY <2>3, NoMoreDue
<1> QED
  BY <1>8, <1>10, <1>11

LEMMA LeastNatural ==
  ASSUME NEW T, T \subseteq Nat, T # {}
  PROVE  \E x \in T : \A y \in T : x <= y
<1>1. IsWellFoundedOn(OpToRel(<, Nat), Nat)
  BY NatLessThanWellFounded
<1>2. PICK x \in T : \A y \in T : ~(<<y, x>> \in OpToRel(<, Nat))
  BY <1>1, WFMin
<1>3. \A y \in T : ~(y < x)
  BY <1>2 DEF OpToRel
<1> QED
  BY <1>3

(* open_h264_get_context finds a context at the framebuffer's place. *)
LEMMA IndexIs ==
  ASSUME NEW w, IsSequence(w.h264.contexts), NEW fb,
         \E i \in DOMAIN w.h264.contexts : w.h264.contexts[i].x = fb.x
  PROVE  /\ IndexAt(w, fb) \in DOMAIN w.h264.contexts
         /\ w.h264.contexts[IndexAt(w, fb)].x = fb.x
<1> DEFINE cs == w.h264.contexts
           T == {i \in DOMAIN cs : cs[i].x = fb.x}
<1>1. Len(cs) \in Nat /\ DOMAIN cs = 1..Len(cs)
  BY SequenceIs
<1>2. PICK i \in T : \A j \in T : i <= j
  <2>1. T \subseteq Nat /\ T # {}
    BY <1>1
  <2> HIDE DEF T
  <2> QED
    BY <2>1, LeastNatural
<1>3. \A j \in 1..(i - 1) : j \in DOMAIN cs /\ ~(i <= j)
  BY <1>1, <1>2
<1>4. \A j \in 1..(i - 1) : cs[j].x # fb.x
  BY <1>2, <1>3
<1> HIDE DEF cs
<1> QED
  BY <1>2, <1>4 DEF IndexAt, cs

WithContexts(g, h, ds) == g = [h EXCEPT !.contexts = ds]

(* The context at i gets a back end because it is new or does not fit. *)
Renewing(w, x, i, ds, type) ==
  /\ DOMAIN x = WorldFields
  /\ Only(w, x, {"h264", "backEnds"})
  /\ WithContexts(x.h264, w.h264, ds)
  /\ Renewed(w.h264.contexts, ds, i, w.backEnds, x.backEnds, type)

LEMMA RenewFeeds ==
  ASSUME NEW w, NEW x, NEW type, Encoding(w, type), NEW i, NEW ds, NEW f,
         Renewing(w, x, i, ds, type)
  PROVE  LET u == Feed(x, Len(w.backEnds) + 1, f)
             v == Counted(u)
         IN  Encoding(v, type) /\ Aside(w, v)
<1> DEFINE u == Feed(x, Len(w.backEnds) + 1, f)
           v == Counted(u)
           h == w.h264
           cs == h.contexts
<1>0. /\ DOMAIN x = WorldFields /\ Only(w, x, {"h264", "backEnds"})
      /\ WithContexts(x.h264, h, ds) /\ Renewed(cs, ds, i, w.backEnds, x.backEnds, type)
  BY DEF Renewing
<1>1. Aside(w, x) /\ x.works = w.works
  BY <1>0, OnlyAside DEF Encoding
<1>2. /\ PoolOk(w.backEnds, w.works, type) /\ ContextsOk(cs, w.backEnds)
      /\ h.barrier \in Nat /\ BarrierOk(w.backEnds, h.barrier) /\ DOMAIN h = HFields
      /\ h.ref = 1
  BY DEF Encoding, H264Ok
<1>3. /\ PoolOk(x.backEnds, x.works, type) /\ ContextsOk(ds, x.backEnds)
      /\ BarrierOk(x.backEnds, h.barrier)
  BY <1>0, <1>1, <1>2, Renews
<1>4. /\ DOMAIN x.h264 = HFields /\ x.h264.contexts = ds /\ x.h264.ref = h.ref
      /\ x.h264.barrier = h.barrier
  BY <1>0, <1>2 DEF HFields, WithContexts
<1>5. Encoding(x, type)
  BY <1>0, <1>1, <1>2, <1>3, <1>4 DEF Encoding, H264Ok, Aside
<1>6. /\ i \in DOMAIN ds /\ ds[i].id = Len(w.backEnds) + 1 /\ ~ds[i].qualityChanged
      /\ DOMAIN cs \subseteq DOMAIN ds
      /\ \A j \in DOMAIN ds : j # i => j \in DOMAIN cs /\ ds[j] = cs[j]
  BY <1>0 DEF Renewed
<1>7. /\ Encoding(v, type) /\ Aside(x, v) /\ v.h264.contexts = ds
  <2>1. /\ i \in DOMAIN x.h264.contexts /\ ~x.h264.contexts[i].qualityChanged
        /\ x.h264.contexts[i].id = Len(w.backEnds) + 1
    BY <1>4, <1>6
  <2> DEFINE y == Counted(Feed(x, x.h264.contexts[i].id, f))
  <2>2. Encoding(y, type) /\ Aside(x, y) /\ y.h264.contexts = x.h264.contexts
    BY <1>5, <2>1, FeedsContext
  <2>3. y = v
    BY <2>1
  <2> HIDE DEF y, v
  <2> QED
    BY <1>4, <2>2, <2>3
<1> HIDE DEF v
<1>8. Aside(w, v)
  BY <1>1, <1>7, AsideTrans
<1> QED
  BY <1>7, <1>8 DEF v

(* The turn of a framebuffer in open_h264_encode. *)
LEMMA FeedsFb ==
  ASSUME NEW w, Encoding(w, backEndType), NEW fb, fb.w # 0, NEW f
  PROVE  LET v == FeedFb(w, fb, f)
         IN  Encoding(v, backEndType) /\ Aside(w, v)
<1> DEFINE type == backEndType
           h == w.h264
           cs == h.contexts
           bs == w.backEnds
           b == Len(bs) + 1
           v == FeedFb(w, fb, f)
<1>1. /\ DOMAIN w = WorldFields /\ DOMAIN h = HFields /\ IsSequence(cs) /\ IsSequence(bs)
      /\ ContextsOk(cs, bs)
  BY DEF Encoding, H264Ok, ContextsOk, PoolOk
<1>2. Len(bs) \in Nat /\ DOMAIN bs = 1..Len(bs)
  BY <1>1, SequenceIs
<1>3. /\ IsSequence(Append(bs, BackEndNew(type)))
      /\ DOMAIN Append(bs, BackEndNew(type)) = DOMAIN bs \cup {b}
      /\ b \notin DOMAIN bs
      /\ \A j \in DOMAIN bs : Append(bs, BackEndNew(type))[j] = bs[j]
      /\ Append(bs, BackEndNew(type))[b] = BackEndNew(type)
  BY <1>1, AppendedIs
<1>4. CASE \E i \in DOMAIN cs : cs[i].x = fb.x
  <2> DEFINE i == IndexAt(w, fb)
             c == cs[i]
  <2>1. v = Counted(ContextEncode(w, i, fb, f))
    BY <1>4 DEF FeedFb, GetContext, Counted
  <2>2. i \in DOMAIN cs /\ c.x = fb.x
    BY <1>1, <1>4, IndexIs
  <2> HIDE DEF i
  <2>3. DOMAIN c = CtxFields /\ c.id \in DOMAIN bs /\ c.id # 0
    BY <1>1, <1>2, <2>2 DEF ContextsOk
  <2>4. CASE c.w = fb.w /\ ~c.qualityChanged
    <3>1. ContextEncode(w, i, fb, f) = Feed(w, c.id, f)
      BY <2>4 DEF ContextEncode
    <3> QED
      BY <2>1, <2>2, <2>4, <3>1, FeedsContext
  <2>5. CASE ~(c.w = fb.w /\ ~c.qualityChanged)
    <3> DEFINE n == [c EXCEPT !.w = fb.w, !.id = b, !.qualityChanged = FALSE]
               ds == [j \in DOMAIN cs |-> IF j # i THEN cs[j] ELSE n]
               as == Append(bs, BackEndNew(type))
               made == [w EXCEPT !.backEnds = as, !.h264 = [h EXCEPT !.contexts = ds]]
               x == BackEndDestroy(made, c.id)
               es == [as EXCEPT ![c.id] = BackEndDestroyed(as[c.id])]
    <3>1. ContextEncode(w, i, fb, f) = Feed(x, b, f)
      BY <2>3, <2>5 DEF ContextEncode
    <3>2. /\ DOMAIN x = WorldFields /\ Only(w, x, {"h264", "backEnds"})
          /\ WithContexts(x.h264, h, ds) /\ x.backEnds = es
      BY <1>1 DEF WorldFields, Only, BackEndDestroy, WithContexts
    <3> HIDE DEF x
    <3>3. DOMAIN n = CtxFields /\ n.id = b /\ ~n.qualityChanged
      BY <2>3 DEF CtxFields
    <3> HIDE DEF n
    <3>4. IsSequence(ds) /\ DOMAIN ds = DOMAIN cs /\ ds[i] = n
      BY <1>1, <2>2, MappedIs
    <3>5. \A j \in DOMAIN ds : j # i => j \in DOMAIN cs /\ ds[j] = cs[j]
      OBVIOUS
    <3> HIDE DEF ds
    <3>6. Replaced(as, es, c.id, BackEndDestroyed(as[c.id]))
      BY <1>3, <2>3, ReplacedIs
    <3>7. /\ DOMAIN es = DOMAIN as /\ IsSequence(es)
          /\ es[c.id] = BackEndDestroyed(as[c.id])
          /\ \A j \in DOMAIN as : j # c.id => es[j] = as[j]
      BY <3>6 DEF Replaced
    <3> HIDE DEF as, es
    <3>8. /\ DOMAIN es = DOMAIN bs \cup {b} /\ es[b] = BackEndNew(type)
          /\ \A a \in DOMAIN bs : a = c.id => es[a] = BackEndDestroyed(bs[a])
          /\ \A a \in DOMAIN bs : a # c.id => es[a] = bs[a]
      BY <1>3, <2>3, <3>7 DEF as
    <3>9. Renewed(cs, ds, i, bs, es, type)
      BY <1>3, <2>2, <3>3, <3>4, <3>5, <3>7, <3>8 DEF Renewed
    <3>10. Renewing(w, x, i, ds, type)
      BY <3>2, <3>9 DEF Renewing
    <3>11. v = Counted(Feed(x, b, f))
      BY <2>1, <3>1
    <3> HIDE DEF v
    <3> QED
      BY <3>10, <3>11, RenewFeeds DEF v
  <2> QED
    BY <2>4, <2>5
<1>5. CASE ~\E i \in DOMAIN cs : cs[i].x = fb.x
  <2> DEFINE i == Len(cs) + 1
             c == [x |-> fb.x, w |-> 0, id |-> 0, pending |-> << >>, qualityChanged |-> FALSE]
             os == Append(cs, c)
             u == [w EXCEPT !.h264 = [h EXCEPT !.contexts = os]]
             n == [c EXCEPT !.w = fb.w, !.id = b, !.qualityChanged = FALSE]
             ds == [j \in DOMAIN os |-> IF j # i THEN os[j] ELSE n]
             x == [w EXCEPT !.backEnds = Append(bs, BackEndNew(type)),
                            !.h264 = [h EXCEPT !.contexts = ds]]
  <2>1. u = GetContext(w, fb)
    BY <1>5 DEF GetContext
  <2>2. /\ IsSequence(os) /\ DOMAIN os = DOMAIN cs \cup {i} /\ i \notin DOMAIN cs
        /\ \A j \in DOMAIN cs : os[j] = cs[j]
        /\ os[i] = c
    BY <1>1, AppendedIs
  <2>3. c.x = fb.x /\ c.w = 0 /\ c.id = 0
    OBVIOUS
  <2>4. DOMAIN n = CtxFields /\ n.id = b /\ ~n.qualityChanged
    BY DEF CtxFields
  <2> HIDE DEF c, i
  <2>5. u.h264.contexts = os /\ u.backEnds = bs /\ DOMAIN u = WorldFields
    BY <1>1 DEF WorldFields, HFields
  <2>6. IndexAt(u, fb) = i
    <3> HIDE DEF os, u
    <3>1. IsSequence(u.h264.contexts) /\ \E j \in DOMAIN u.h264.contexts : u.h264.contexts[j].x = fb.x
      BY <2>2, <2>3, <2>5
    <3>2. IndexAt(u, fb) \in DOMAIN os /\ os[IndexAt(u, fb)].x = fb.x
      BY <2>5, <3>1, IndexIs
    <3> QED
      BY <1>5, <2>2, <3>2
  <2>7. v = Counted(ContextEncode(u, i, fb, f))
    BY <2>1, <2>6 DEF FeedFb, Counted
  <2>8. ContextEncode(u, i, fb, f) = Feed(x, b, f)
    <3> DEFINE made == [u EXCEPT
                 !.backEnds = Append(@, BackEndNew(type)),
                 !.h264.contexts = [j \in DOMAIN @ |->
                    IF j # i THEN @[j]
                    ELSE [u.h264.contexts[i] EXCEPT !.w = fb.w, !.id = Len(u.backEnds) + 1,
                                                    !.qualityChanged = FALSE]]]
    <3>0. u.h264.contexts[i] = c /\ Len(u.backEnds) + 1 = b
      BY <2>2, <2>5
    <3>1. made = x
      <4>1. u.h264 = [h EXCEPT !.contexts = os] /\ u = [w EXCEPT !.h264 = u.h264]
        BY <1>1 DEF WorldFields
      <4>2. [u.h264 EXCEPT !.contexts = ds] = [h EXCEPT !.contexts = ds]
        BY <1>1, <4>1 DEF HFields
      <4>3. made = [u EXCEPT !.backEnds = Append(bs, BackEndNew(type)),
                             !.h264 = [u.h264 EXCEPT !.contexts = ds]]
        BY <1>1, <2>5, <3>0 DEF WorldFields, HFields
      <4> HIDE DEF made, u, ds, os
      <4> QED
        BY <1>1, <4>1, <4>2, <4>3 DEF WorldFields
    <3> HIDE DEF u
    <3>2. ContextEncode(u, i, fb, f) = Feed(made, Len(u.backEnds) + 1, f)
      <4>1. u.h264.contexts[i].id = 0 /\ ~(u.h264.contexts[i].w = fb.w)
        BY <2>3, <3>0
      <4> HIDE DEF c
      <4> QED
        BY <4>1 DEF ContextEncode
    <3> HIDE DEF made, x
    <3> QED
      BY <3>0, <3>1, <3>2
  <2>9. /\ DOMAIN x = WorldFields /\ Only(w, x, {"h264", "backEnds"})
        /\ WithContexts(x.h264, h, ds) /\ x.backEnds = Append(bs, BackEndNew(type))
    BY <1>1 DEF WorldFields, Only, WithContexts
  <2> HIDE DEF x, n, os
  <2>10. IsSequence(ds) /\ DOMAIN ds = DOMAIN os /\ ds[i] = n
    BY <2>2, MappedIs
  <2>11. \A j \in DOMAIN ds : j # i => j \in DOMAIN cs /\ ds[j] = cs[j]
    BY <2>2
  <2> HIDE DEF ds
  <2>12. Renewed(cs, ds, i, bs, x.backEnds, type)
    BY <1>3, <2>2, <2>4, <2>9, <2>10, <2>11 DEF Renewed
  <2>13. Renewing(w, x, i, ds, type)
    BY <2>2, <2>9, <2>12 DEF Renewing
  <2>14. v = Counted(Feed(x, b, f))
    BY <2>7, <2>8
  <2> HIDE DEF v
  <2> QED
    BY <2>13, <2>14, RenewFeeds DEF v
<1> QED
  BY <1>4, <1>5

(* open_h264_encode, framebuffer by framebuffer: a[n] is the world when n   *)
(* of them were seen.                                                       *)
Turns(a, m, w, comp, damage, f) ==
  a = [n \in 0..m |-> IF n = 0 THEN w ELSE EncodeFb(a[n - 1], comp[n], damage, f)]

LEMMA TurnsExist ==
  ASSUME NEW w, NEW comp, NEW damage, NEW f, NEW m \in Nat
  PROVE  \E a : Turns(a, m, w, comp, damage, f)
<1> DEFINE Has(n) == \E a : Turns(a, n, w, comp, damage, f)
           T == {n \in Nat : ~Has(n)}
<1> SUFFICES ASSUME T # {} PROVE FALSE
  OBVIOUS
<1>1. PICK n \in T : \A y \in T : n <= y
  BY LeastNatural
<1>2. n # 0
  <2> DEFINE a == [k \in 0..0 |-> w]
  <2>1. a = [k \in 0..0 |-> IF k = 0 THEN w ELSE EncodeFb(a[k - 1], comp[k], damage, f)]
    OBVIOUS
  <2> HIDE DEF a
  <2>2. Turns(a, 0, w, comp, damage, f)
    BY <2>1 DEF Turns
  <2> QED
    BY <1>1, <2>2
<1>3. n - 1 \in Nat /\ n - 1 \notin T
  BY <1>1, <1>2
<1>4. PICK p : Turns(p, n - 1, w, comp, damage, f)
  BY <1>3
<1> DEFINE b == [k \in 0..n |->
                   IF k = n THEN EncodeFb(p[n - 1], comp[n], damage, f) ELSE p[k]]
<1>5. \A k \in 0..(n - 1) :
        p[k] = IF k = 0 THEN w ELSE EncodeFb(p[k - 1], comp[k], damage, f)
  BY <1>4 DEF Turns
<1>6. \A k \in 0..(n - 1) : b[k] = p[k]
  BY <1>3
<1>7. \A k \in 0..n :
        b[k] = IF k = 0 THEN w ELSE EncodeFb(b[k - 1], comp[k], damage, f)
  <2> TAKE k \in 0..n
  <2>1. CASE k = n
    <3>1. b[n - 1] = p[n - 1] /\ b[n] = EncodeFb(p[n - 1], comp[n], damage, f)
      BY <1>2, <1>3, <1>6
    <3> HIDE DEF b
    <3> QED
      BY <1>2, <2>1, <3>1
  <2>2. CASE k # n
    <3>1. k \in 0..(n - 1) /\ (k # 0 => k - 1 \in 0..(n - 1))
      BY <2>2
    <3> HIDE DEF b
    <3> QED
      BY <1>5, <1>6, <3>1
  <2> QED
    BY <2>1, <2>2
<1>8. b = [k \in 0..n |-> b[k]]
  OBVIOUS
<1> HIDE DEF b
<1>9. Turns(b, n, w, comp, damage, f)
  BY <1>7, <1>8 DEF Turns
<1> QED
  BY <1>1, <1>9

Restarted(w) == [w EXCEPT !.h264.barrier = 0]
Framed(w, fr) == [w EXCEPT !.h264.frame = fr]

EncodedBy(a, fr, w, comp, damage, f) ==
  /\ Turns(a, Len(comp), Restarted(w), comp, damage, f)
  /\ H264Encode(w, comp, damage, f) = Framed(a[Len(comp)], fr)

LEMMA EncodeIs ==
  ASSUME NEW w, NEW comp, Len(comp) \in Nat, NEW damage, NEW f
  PROVE  \E a, fr : EncodedBy(a, fr, w, comp, damage, f)
<1> DEFINE z == Restarted(w)
           fr == [id |-> f, comp |-> comp, damage |-> damage]
           after == CHOOSE a : a = [n \in 0..Len(comp) |->
                      IF n = 0 THEN z ELSE EncodeFb(a[n - 1], comp[n], damage, f)]
<1>1. H264Encode(w, comp, damage, f) = Framed(after[Len(comp)], fr)
  BY DEF H264Encode, Restarted, Framed
<1>2. Turns(after, Len(comp), z, comp, damage, f)
  <2> HIDE DEF z
  <2>1. \E a : Turns(a, Len(comp), z, comp, damage, f)
    BY TurnsExist
  <2>2. \E a : a = [n \in 0..Len(comp) |->
                 IF n = 0 THEN z ELSE EncodeFb(a[n - 1], comp[n], damage, f)]
    BY <2>1, Zenon DEF Turns
  <2>3. after = [n \in 0..Len(comp) |->
                   IF n = 0 THEN z ELSE EncodeFb(after[n - 1], comp[n], damage, f)]
    BY <2>2, Zenon
  <2> QED
    BY <2>3, Zenon DEF Turns
<1> HIDE DEF after, fr
<1>3. EncodedBy(after, fr, w, comp, damage, f)
  BY <1>1, <1>2 DEF EncodedBy
<1> QED
  BY <1>3

(* A composite: framebuffers that have a width. *)
IsComposite(comp) ==
  /\ Len(comp) \in Nat
  /\ DOMAIN comp = 1..Len(comp)
  /\ \A n \in DOMAIN comp : comp[n].w # 0

LEMMA TurnOk ==
  ASSUME NEW w, Encoding(w, backEndType), NEW fb, fb.w # 0, NEW damage, NEW f
  PROVE  LET v == EncodeFb(w, fb, damage, f)
         IN  Encoding(v, backEndType) /\ Aside(w, v)
<1>1. Aside(w, w)
  BY DEF Encoding, Aside
<1>2. CASE Columns(fb) \cap damage = {}
  <2>1. EncodeFb(w, fb, damage, f) = w
    BY <1>2 DEF EncodeFb
  <2> QED
    BY <1>1, <2>1
<1>3. CASE Columns(fb) \cap damage # {}
  <2>1. EncodeFb(w, fb, damage, f) = FeedFb(w, fb, f)
    BY <1>3 DEF EncodeFb
  <2> QED
    BY <2>1, FeedsFb
<1> QED
  BY <1>2, <1>3

LEMMA H264Encodes ==
  ASSUME NEW w, Encoding(w, backEndType), w.h264.barrier = 0,
         NEW comp, IsComposite(comp), NEW damage, NEW f
  PROVE  LET v == H264Encode(w, comp, damage, f)
         IN  Encoding(v, backEndType) /\ Aside(w, v)
<1> DEFINE m == Len(comp)
           z == Restarted(w)
           v == H264Encode(w, comp, damage, f)
<1>1. m \in Nat /\ DOMAIN comp = 1..m /\ \A n \in 1..m : comp[n].w # 0
  BY DEF IsComposite
<1>2. PICK a, fr : EncodedBy(a, fr, w, comp, damage, f)
  BY EncodeIs DEF IsComposite
<1>2a. Turns(a, m, z, comp, damage, f) /\ v = Framed(a[m], fr)
  BY <1>2 DEF EncodedBy
<1>3. Encoding(z, backEndType) /\ Aside(w, z)
  <2>1. DOMAIN w = WorldFields /\ DOMAIN w.h264 = HFields
    BY DEF Encoding, H264Ok
  <2>2. /\ DOMAIN z = WorldFields /\ Only(w, z, {"h264", "backEnds"}) /\ z.backEnds = w.backEnds
        /\ z.h264 = [w.h264 EXCEPT !.barrier = 0]
    BY <2>1 DEF Restarted, WorldFields, Only
  <2>3. /\ DOMAIN z.h264 = HFields /\ z.h264.contexts = w.h264.contexts
        /\ z.h264.ref = w.h264.ref /\ z.h264.barrier = 0
    BY <2>1, <2>2 DEF HFields
  <2> HIDE DEF z
  <2>4. Aside(w, z) /\ z.works = w.works
    BY <2>2, OnlyAside DEF Encoding
  <2>5. H264Ok(z.h264, z.backEnds, backEndType)
    BY <2>2, <2>3 DEF Encoding, H264Ok
  <2> QED
    BY <2>2, <2>3, <2>4, <2>5 DEF Encoding, Aside
<1> HIDE DEF z, v, m
<1>4. a[0] = z
  BY <1>1, <1>2a DEF Turns
<1>5. \A n \in 1..m : a[n] = EncodeFb(a[n - 1], comp[n], damage, f)
  BY <1>1, <1>2a DEF Turns
<1> DEFINE Fine(u) == Encoding(u, backEndType) /\ Aside(w, u)
           T == {n \in 0..m : ~Fine(a[n])}
<1>6. Fine(a[m])
  <2> SUFFICES ASSUME T # {} PROVE FALSE
    BY <1>1
  <2>1. T \subseteq Nat
    BY <1>1
  <2>2. PICK n \in T : \A y \in T : n <= y
    <3> HIDE DEF T
    <3> QED
      BY <2>1, LeastNatural
  <2>3. n # 0
    BY <1>3, <1>4, <2>2
  <2>4. n \in 1..m /\ n - 1 \in 0..m /\ n - 1 \notin T
    BY <1>1, <2>1, <2>2, <2>3
  <2>5. Fine(a[n - 1])
    BY <2>4
  <2> DEFINE p == a[n - 1]
  <2>6. Encoding(a[n], backEndType) /\ Aside(p, a[n])
    BY <1>1, <1>5, <2>4, <2>5, TurnOk
  <2> HIDE DEF p
  <2>7. Aside(w, a[n])
    BY <2>5, <2>6, AsideTrans DEF p
  <2> QED
    BY <2>2, <2>6, <2>7
<1> DEFINE y == a[m]
<1>7. Encoding(y, backEndType) /\ Aside(w, y)
  BY <1>6
<1> HIDE DEF y
<1>8. DOMAIN y = WorldFields /\ DOMAIN y.h264 = HFields
  BY <1>7 DEF Encoding, H264Ok
<1>9. /\ DOMAIN v = WorldFields /\ Only(y, v, {"h264", "backEnds"}) /\ v.backEnds = y.backEnds
      /\ v.h264 = [y.h264 EXCEPT !.frame = fr]
  <2>1. v = Framed(y, fr)
    BY <1>2a DEF y
  <2> QED
    BY <1>8, <2>1 DEF Framed, WorldFields, Only
<1>10. /\ DOMAIN v.h264 = HFields /\ v.h264.contexts = y.h264.contexts
       /\ v.h264.ref = y.h264.ref
       /\ v.h264.barrier = y.h264.barrier
  BY <1>8, <1>9 DEF HFields
<1>11. Aside(y, v) /\ v.works = y.works
  BY <1>7, <1>9, OnlyAside DEF Encoding
<1>12. Aside(w, v)
  BY <1>7, <1>11, AsideTrans
<1>13. H264Ok(v.h264, v.backEnds, backEndType)
  BY <1>7, <1>9, <1>10 DEF Encoding, H264Ok
<1>14. Encoding(v, backEndType)
  BY <1>7, <1>9, <1>11, <1>13 DEF Encoding, Aside
<1> QED
  BY <1>12, <1>14 DEF v

(* ... without contexts, no back end is in use. *)
NoneInUse(bs) == \A b \in DOMAIN bs : ~InUse(bs[b])

LEMMA NoneInUseOk ==
  ASSUME NEW bs, NoneInUse(bs), NEW m \in Nat
  PROVE  BarrierOk(bs, m) /\ ContextsOk(<< >>, bs)
<1>1. \A b \in Nat : Due(bs, b) = 0
  BY DEF Due, NoneInUse
<1>2. BarrierOk(bs, 0)
  BY <1>1, NoneDue
<1>3. BarrierOk(bs, m)
  <2>1. IsFiniteSet(Outstanding(bs)) /\ Cardinality(Outstanding(bs)) <= 0
    BY <1>2 DEF BarrierOk
  <2>2. Cardinality(Outstanding(bs)) \in Nat
    BY <2>1, FS_CardinalityType
  <2>3. Cardinality(Outstanding(bs)) <= m
    BY <2>1, <2>2
  <2> QED
    BY <1>2, <2>1, <2>3 DEF BarrierOk
<1>4. ContextsOk(<< >>, bs)
  BY EmptyIs DEF ContextsOk, NoneInUse
<1> QED
  BY <1>3, <1>4

(* destroy_all_contexts. *)
LEMMA DestroysAll ==
  ASSUME NEW w, NEW type, Encoding(w, type)
  PROVE  LET v == DestroyAllContexts(w)
         IN  /\ DOMAIN v = WorldFields
             /\ Only(w, v, {"h264", "backEnds"})
             /\ WithContexts(v.h264, w.h264, << >>)
             /\ PoolOk(v.backEnds, v.works, type)
             /\ NoneInUse(v.backEnds)
<1> DEFINE v == DestroyAllContexts(w)
           cs == w.h264.contexts
           bs == w.backEnds
           ids == {cs[i].id : i \in DOMAIN cs}
           es == [b \in DOMAIN bs |-> IF b \in ids THEN BackEndDestroyed(bs[b]) ELSE bs[b]]
<1>1. DOMAIN w = WorldFields /\ PoolOk(bs, w.works, type) /\ ContextsOk(cs, bs)
  BY DEF Encoding, H264Ok
<1>2. /\ DOMAIN v = WorldFields /\ Only(w, v, {"h264", "backEnds"})
      /\ v.h264 = [w.h264 EXCEPT !.contexts = << >>] /\ v.backEnds = es
  BY <1>1 DEF DestroyAllContexts, WorldFields, Only
<1> HIDE DEF v
<1>3. v.works = w.works
  BY <1>2 DEF Only, WorldFields
<1>4. /\ IsSequence(bs) /\ type \in {"ffmpeg", "v4l2"}
      /\ \A b \in DOMAIN bs : BackEndOk(bs[b], type)
  BY <1>1 DEF PoolOk
<1>5. IsSequence(es) /\ DOMAIN es = DOMAIN bs
  BY <1>4, MappedIs
<1>6. ASSUME NEW b \in DOMAIN bs
      PROVE  BackEndOk(es[b], type) /\ ~InUse(es[b]) /\ es[b].cur = bs[b].cur
  <2>1. CASE b \in ids
    <3>1. es[b] = BackEndDestroyed(bs[b])
      BY <2>1
    <3> HIDE DEF es
    <3> QED
      BY <1>4, <3>1, DestroyedOk
  <2>2. CASE b \notin ids
    <3>1. es[b] = bs[b]
      BY <2>2
    <3> HIDE DEF es
    <3>2. ~InUse(bs[b])
      BY <1>1, <2>2 DEF ContextsOk, Ids
    <3> QED
      BY <1>4, <3>1, <3>2
  <2> QED
    BY <2>1, <2>2
<1> HIDE DEF es
<1>7. PoolOk(es, w.works, type)
  BY <1>1, <1>4, <1>5, <1>6 DEF PoolOk
<1>8. NoneInUse(es)
  BY <1>5, <1>6 DEF NoneInUse
<1> QED
  BY <1>2, <1>3, <1>7, <1>8 DEF v, WithContexts

(* encoder_unref of the H.264 encoder, which the client alone refers to. *)
LEMMA H264Unref ==
  ASSUME NEW w, NEW type, Encoding(w, type)
  PROVE  LET v == Unref(w, "h264")
         IN  /\ DOMAIN v = WorldFields
             /\ Only(w, v, {"h264", "backEnds"})
             /\ v.h264 = None
             /\ PoolOk(v.backEnds, v.works, type)
             /\ NoneInUse(v.backEnds)
<1> DEFINE v == Unref(w, "h264")
           u == DestroyAllContexts(w)
<1>1. w.h264.ref = 1
  BY DEF Encoding, H264Ok
<1>2. v = [u EXCEPT !.h264 = None]
  BY <1>1 DEF Unref, Destroyed
<1> HIDE DEF u
<1>3. /\ DOMAIN u = WorldFields /\ Only(w, u, {"h264", "backEnds"})
      /\ PoolOk(u.backEnds, u.works, type) /\ NoneInUse(u.backEnds)
  BY DestroysAll DEF u
<1>4. DOMAIN v = WorldFields /\ v.h264 = None /\ Only(u, v, {"h264"})
  BY <1>2, <1>3 DEF WorldFields, Only
<1> HIDE DEF v
<1>5. v.backEnds = u.backEnds /\ v.works = u.works /\ Only(w, v, {"h264", "backEnds"})
  BY <1>3, <1>4 DEF WorldFields, Only
<1> QED
  BY <1>3, <1>4, <1>5 DEF v

-----------------------------------------------------------------------------
(* The world. *)
ClientOk(c) ==
  /\ DOMAIN c = ClientFields
  /\ c.encoder \in {"none", "raw", "tight", "h264"}
  /\ c.open \in BOOLEAN /\ c.keepsTight \in BOOLEAN /\ c.updating \in BOOLEAN
  /\ ~c.open => c.encoder = "none" /\ ~c.keepsTight /\ ~c.updating

Quiet(ks) == Of(ks, "raw") = {} /\ Of(ks, "tight") = {} /\ Of(ks, "finish") = {}

(* While the client is open, the jobs are those of its encoder. *)
Flight(ks, c) ==
  c.open =>
    /\ Of(ks, "raw") # {} => c.encoder = "raw" /\ c.updating
    /\ Of(ks, "tight") \cup Of(ks, "finish") # {} => c.encoder = "tight" /\ c.updating

(* rn and tn: the references to the encoders other than those of the jobs. *)
Refs(w, rn, tn) ==
  /\ DOMAIN w = WorldFields
  /\ Kinds(w.works)
  /\ DOMAIN w.client = ClientFields
  /\ RawOk(w.raw, w.works, rn)
  /\ TightOk(w.tight, w.works, tn)

EngineOk(h, bs, ks, type) ==
  /\ PoolOk(bs, ks, type)
  /\ h = None => NoneInUse(bs)
  /\ h # None => H264Ok(h, bs, type)

(* hr and ht: the references that the running function holds. *)
WorldOk(w, hr, ht, type) ==
  /\ ClientOk(w.client)
  /\ Refs(w, Bit(w.client.encoder = "raw") + hr,
             Bit(w.client.encoder = "tight") + (Bit(w.client.keepsTight) + ht))
  /\ Flight(w.works, w.client)
  /\ EngineOk(w.h264, w.backEnds, w.works, type)
  /\ w.h264 = None <=> w.client.encoder # "h264"
  /\ (w.h264 # None /\ ~w.client.updating) => w.h264.barrier = 0
  /\ w.fault => type = "v4l2"

LEMMA WorldEncoding ==
  ASSUME NEW w, NEW hr, NEW ht, NEW type, WorldOk(w, hr, ht, type), w.h264 # None
  PROVE  Encoding(w, type)
BY DEF WorldOk, Refs, EngineOk, Encoding

(* The client lets its encoder go. *)
Without(w, v, rn, tn, type) ==
  /\ Refs(v, rn, tn)
  /\ v.client = w.client /\ v.works = w.works /\ v.fault = w.fault
  /\ v.h264 = None
  /\ EngineOk(None, v.backEnds, v.works, type)

LEMMA Unrefs ==
  ASSUME NEW w, NEW hr \in Nat, NEW ht \in Nat, NEW type, WorldOk(w, hr, ht, type)
  PROVE  Without(w, UnrefEncoder(w), hr, Bit(w.client.keepsTight) + ht, type)
<1> DEFINE v == UnrefEncoder(w)
           enc == w.client.encoder
           k == Bit(w.client.keepsTight)
<1>1. /\ DOMAIN w = WorldFields /\ enc \in {"none", "raw", "tight", "h264"}
      /\ Kinds(w.works) /\ DOMAIN w.client = ClientFields
      /\ RawOk(w.raw, w.works, Bit(enc = "raw") + hr)
      /\ TightOk(w.tight, w.works, Bit(enc = "tight") + (k + ht))
      /\ PoolOk(w.backEnds, w.works, type)
      /\ w.h264 = None <=> enc # "h264"
  BY DEF WorldOk, Refs, ClientOk, EngineOk
<1>2. enc # "h264" => EngineOk(None, w.backEnds, w.works, type)
  BY <1>1 DEF WorldOk
<1>3. k + ht \in Nat
  BY DEF Bit
<1>4. /\ enc # "raw" => RawOk(w.raw, w.works, hr)
      /\ enc = "raw" => RawOk(w.raw, w.works, hr + 1)
  <2>1. enc # "raw" => Bit(enc = "raw") + hr = hr
    BY DEF Bit
  <2>2. enc = "raw" => Bit(enc = "raw") + hr = hr + 1
    BY DEF Bit
  <2> QED
    BY <1>1, <2>1, <2>2
<1>5. /\ enc # "tight" => TightOk(w.tight, w.works, k + ht)
      /\ enc = "tight" => TightOk(w.tight, w.works, (k + ht) + 1)
  <2> HIDE DEF k
  <2>1. enc # "tight" => Bit(enc = "tight") + (k + ht) = k + ht
    BY <1>3 DEF Bit
  <2>2. enc = "tight" => Bit(enc = "tight") + (k + ht) = (k + ht) + 1
    BY <1>3 DEF Bit
  <2> QED
    BY <1>1, <2>1, <2>2
<1> HIDE DEF k
<1>6. CASE enc = "none"
  <2>1. v = w
    BY <1>6 DEF UnrefEncoder
  <2> QED
    BY <1>1, <1>2, <1>4, <1>5, <1>6, <2>1 DEF Without, Refs, k
<1>7. CASE enc = "raw"
  <2>1. v = Unref(w, "raw")
    BY <1>7 DEF UnrefEncoder
  <2> HIDE DEF v
  <2>2. DOMAIN v = WorldFields /\ Only(w, v, {"raw"}) /\ RawOk(v.raw, v.works, hr)
    BY <1>1, <1>4, <1>7, <2>1, RawUnref
  <2>3. /\ v.client = w.client /\ v.works = w.works /\ v.fault = w.fault
        /\ v.h264 = w.h264 /\ v.backEnds = w.backEnds /\ v.tight = w.tight
    BY <2>2 DEF Only, WorldFields
  <2> QED
    BY <1>1, <1>2, <1>5, <1>7, <2>2, <2>3 DEF Without, Refs, k, v
<1>8. CASE enc = "tight"
  <2>1. v = Unref(w, "tight")
    BY <1>8 DEF UnrefEncoder
  <2> HIDE DEF v
  <2>2. DOMAIN v = WorldFields /\ Only(w, v, {"tight"}) /\ TightOk(v.tight, v.works, k + ht)
    BY <1>1, <1>3, <1>5, <1>8, <2>1, TightUnref
  <2>3. /\ v.client = w.client /\ v.works = w.works /\ v.fault = w.fault
        /\ v.h264 = w.h264 /\ v.backEnds = w.backEnds /\ v.raw = w.raw
    BY <2>2 DEF Only, WorldFields
  <2> QED
    BY <1>1, <1>2, <1>4, <1>8, <2>2, <2>3 DEF Without, Refs, k, v
<1>9. CASE enc = "h264"
  <2>1. v = Unref(w, "h264")
    BY <1>9 DEF UnrefEncoder
  <2> HIDE DEF v
  <2>2. Encoding(w, type)
    BY <1>1, <1>9, WorldEncoding
  <2>3. /\ DOMAIN v = WorldFields /\ Only(w, v, {"h264", "backEnds"}) /\ v.h264 = None
        /\ PoolOk(v.backEnds, v.works, type) /\ NoneInUse(v.backEnds)
    BY <2>1, <2>2, H264Unref
  <2>4. /\ v.client = w.client /\ v.works = w.works /\ v.fault = w.fault
        /\ v.raw = w.raw /\ v.tight = w.tight
    BY <2>3 DEF Only, WorldFields
  <2> QED
    BY <1>1, <1>4, <1>5, <1>9, <2>3, <2>4 DEF Without, Refs, EngineOk, k, v
<1> QED
  BY <1>1, <1>6, <1>7, <1>8, <1>9

(* client_close. *)
LEMMA Closes ==
  ASSUME NEW w, NEW hr \in Nat, NEW ht \in Nat, NEW type, WorldOk(w, hr, ht, type)
  PROVE  WorldOk(Close(w), hr, ht, type)
<1> DEFINE v == UnrefEncoder(w)
           u == IF w.client.keepsTight THEN Unref(v, "tight") ELSE v
           z == Close(w)
<1>1. z = [u EXCEPT !.client.open = FALSE, !.client.updating = FALSE,
                    !.client.encoder = "none", !.client.keepsTight = FALSE]
  BY DEF Close
<1>2. Without(w, v, hr, Bit(w.client.keepsTight) + ht, type)
  BY Unrefs
<1> HIDE DEF v, z
<1>3. Without(w, u, hr, ht, type)
  <2>1. CASE w.client.keepsTight
    <3>1. Bit(w.client.keepsTight) + ht = ht + 1
      BY <2>1 DEF Bit
    <3>2. DOMAIN v = WorldFields /\ TightOk(v.tight, v.works, ht + 1)
      BY <1>2, <3>1 DEF Without, Refs
    <3>3. u = Unref(v, "tight")
      BY <2>1
    <3> HIDE DEF u
    <3>4. DOMAIN u = WorldFields /\ Only(v, u, {"tight"}) /\ TightOk(u.tight, u.works, ht)
      BY <3>2, <3>3, TightUnref
    <3>5. /\ u.client = v.client /\ u.works = v.works /\ u.fault = v.fault
          /\ u.h264 = v.h264 /\ u.backEnds = v.backEnds /\ u.raw = v.raw
      BY <3>4 DEF Only, WorldFields
    <3> QED
      BY <1>2, <3>4, <3>5 DEF Without, Refs
  <2>2. CASE ~w.client.keepsTight
    <3>1. Bit(w.client.keepsTight) + ht = ht
      BY <2>2 DEF Bit
    <3> QED
      BY <1>2, <2>2, <3>1
  <2> QED
    BY <2>1, <2>2
<1> HIDE DEF u
<1>4. DOMAIN u = WorldFields /\ DOMAIN u.client = ClientFields
  BY <1>3 DEF Without, Refs
<1>5. DOMAIN z = WorldFields /\ Only(u, z, {"client"})
  BY <1>1, <1>4 DEF WorldFields, Only
<1>6. /\ DOMAIN z.client = ClientFields /\ z.client.open = FALSE /\ z.client.updating = FALSE
      /\ z.client.encoder = "none" /\ z.client.keepsTight = FALSE
  BY <1>1, <1>4 DEF WorldFields, ClientFields
<1>7. /\ z.raw = u.raw /\ z.tight = u.tight /\ z.works = u.works /\ z.fault = u.fault
      /\ z.h264 = u.h264 /\ z.backEnds = u.backEnds
  BY <1>5 DEF Only, WorldFields
<1>8. ClientOk(z.client) /\ Flight(z.works, z.client)
  BY <1>6 DEF ClientOk, Flight
<1>9. /\ Bit(z.client.encoder = "raw") + hr = hr
      /\ Bit(z.client.encoder = "tight") + (Bit(z.client.keepsTight) + ht) = ht
  BY <1>6 DEF Bit
<1>10. Refs(z, hr, ht)
  BY <1>3, <1>5, <1>6, <1>7 DEF Refs, Without
<1>11. /\ z.h264 = None /\ EngineOk(z.h264, z.backEnds, z.works, type)
       /\ (z.fault => type = "v4l2")
  BY <1>3, <1>7 DEF Without, WorldOk
<1> QED
  BY <1>6, <1>8, <1>9, <1>10, <1>11 DEF WorldOk, z

(* The frame before is done with; the encoder that the running function has *)
(* a reference to is the client's.                                          *)
Idle(w, hr, ht, type) ==
  /\ WorldOk(w, hr, ht, type)
  /\ w.client.open
  /\ Quiet(w.works)
  /\ w.h264 # None => w.h264.barrier = 0
  /\ hr # 0 => w.client.encoder = "raw"
  /\ ht # 0 => w.client.encoder = "tight"

(* ensure_encoder. *)
Ensured(w, v, kind, hr, ht, type) ==
  /\ WorldOk(v, hr, ht, type)
  /\ v.works = w.works
  /\ v.client.encoder = kind /\ v.client.open = w.client.open
  /\ v.client.updating = w.client.updating
  /\ v.h264 # None => v.h264.barrier = 0

(* The new encoder of a client that has let the one before it go. *)
LEMMA EnsuredIs ==
  ASSUME NEW w, NEW hr \in Nat, NEW ht \in Nat, NEW type, Idle(w, hr, ht, type),
         NEW kind \in {"raw", "tight", "h264"}, NEW v,
         DOMAIN v = WorldFields, v.works = w.works, v.fault = w.fault,
         DOMAIN v.client = ClientFields, v.client.encoder = kind,
         v.client.open = w.client.open, v.client.updating = w.client.updating,
         v.client.keepsTight \in BOOLEAN,
         RawOk(v.raw, v.works, Bit(kind = "raw") + hr),
         TightOk(v.tight, v.works, Bit(kind = "tight") + (Bit(v.client.keepsTight) + ht)),
         EngineOk(v.h264, v.backEnds, v.works, type),
         v.h264 = None <=> kind # "h264",
         v.h264 # None => v.h264.barrier = 0
  PROVE  Ensured(w, v, kind, hr, ht, type)
<1>1. ClientOk(v.client)
  BY DEF Idle, WorldOk, ClientOk
<1>2. Refs(v, Bit(v.client.encoder = "raw") + hr,
              Bit(v.client.encoder = "tight") + (Bit(v.client.keepsTight) + ht))
  BY DEF Idle, WorldOk, Refs
<1>3. Flight(v.works, v.client)
  BY DEF Idle, Quiet, Flight
<1>4. v.fault => type = "v4l2"
  BY DEF Idle, WorldOk
<1>5. WorldOk(v, hr, ht, type)
  BY <1>1, <1>2, <1>3, <1>4 DEF WorldOk
<1> QED
  BY <1>5 DEF Ensured

LEMMA Ensures ==
  ASSUME NEW w, NEW hr \in Nat, NEW ht \in Nat, NEW type, Idle(w, hr, ht, type),
         NEW kind \in {"raw", "tight", "h264"}
  PROVE  Ensured(w, EnsureEncoder(w, kind), kind, hr, ht, type)
<1> DEFINE z == EnsureEncoder(w, kind)
           v == UnrefEncoder(w)
           k == w.client.keepsTight
<1>1. CASE w.client.encoder = kind
  <2>1. z = w
    BY <1>1 DEF EnsureEncoder
  <2> QED
    BY <1>1, <2>1 DEF Idle, Ensured
<1>2. CASE w.client.encoder # kind
  <2> DEFINE u == CASE kind = "raw"  -> [v EXCEPT !.raw = RawNew]
                    [] kind = "h264" -> [v EXCEPT !.h264 = H264New]
                    [] kind = "tight" ->
                         IF v.client.keepsTight THEN [v EXCEPT !.tight.ref = @ + 1]
                         ELSE [v EXCEPT !.tight = [TightNew EXCEPT !.ref = 2],
                                        !.client.keepsTight = TRUE]
  <2>1. z = [u EXCEPT !.client.encoder = kind]
    BY <1>2 DEF EnsureEncoder
  <2> HIDE DEF z, v, u
  <2>2. Without(w, v, hr, Bit(k) + ht, type)
    BY Unrefs DEF Idle, v
  <2>3. /\ DOMAIN v = WorldFields /\ DOMAIN v.client = ClientFields
        /\ v.client = w.client /\ v.works = w.works /\ v.fault = w.fault /\ v.h264 = None
        /\ RawOk(v.raw, v.works, hr) /\ TightOk(v.tight, v.works, Bit(k) + ht)
        /\ EngineOk(None, v.backEnds, v.works, type)
    BY <2>2 DEF Without, Refs
  <2>4. Quiet(v.works) /\ k \in BOOLEAN
    BY <2>3 DEF Idle, WorldOk, ClientOk
  <2>5. CASE kind = "raw"
    <3>1. u = [v EXCEPT !.raw = RawNew]
      BY <2>5 DEF u
    <3>2. /\ DOMAIN z = WorldFields /\ z.raw = RawNew /\ z.tight = v.tight
          /\ z.works = v.works /\ z.fault = v.fault /\ z.h264 = v.h264
          /\ z.backEnds = v.backEnds /\ z.client = [v.client EXCEPT !.encoder = kind]
      BY <2>1, <2>3, <3>1 DEF WorldFields
    <3>3. /\ DOMAIN z.client = ClientFields /\ z.client.encoder = kind
          /\ z.client.open = w.client.open /\ z.client.updating = w.client.updating
          /\ z.client.keepsTight = k
      BY <2>3, <3>2 DEF ClientFields
    <3>4. hr = 0
      BY <1>2, <2>5 DEF Idle
    <3>5. RawOk(RawNew, z.works, 1)
      BY <2>3, <2>4, <3>2 DEF RawOk, RawNew, Quiet, Bit, None
    <3>6. Bit(kind = "raw") + hr = 1 /\ Bit(kind = "tight") + (Bit(k) + ht) = Bit(k) + ht
      BY <2>5, <3>4 DEF Bit
    <3>7. RawOk(z.raw, z.works, Bit(kind = "raw") + hr)
      BY <3>2, <3>5, <3>6
    <3>8. TightOk(z.tight, z.works, Bit(kind = "tight") + (Bit(z.client.keepsTight) + ht))
      BY <2>3, <3>2, <3>3, <3>6
    <3> QED
      BY <2>3, <2>4, <2>5, <3>2, <3>3, <3>7, <3>8, EnsuredIs DEF z
  <2>6. CASE kind = "h264"
    <3>1. u = [v EXCEPT !.h264 = H264New]
      BY <2>6 DEF u
    <3>2. /\ DOMAIN z = WorldFields /\ z.raw = v.raw /\ z.tight = v.tight
          /\ z.works = v.works /\ z.fault = v.fault /\ z.h264 = H264New
          /\ z.backEnds = v.backEnds /\ z.client = [v.client EXCEPT !.encoder = kind]
      BY <2>1, <2>3, <3>1 DEF WorldFields
    <3>3. /\ DOMAIN z.client = ClientFields /\ z.client.encoder = kind
          /\ z.client.open = w.client.open /\ z.client.updating = w.client.updating
          /\ z.client.keepsTight = k
      BY <2>3, <3>2 DEF ClientFields
    <3>4. /\ DOMAIN H264New = HFields /\ H264New.ref = 1 /\ H264New.contexts = << >>
          /\ H264New.barrier = 0 /\ H264New.fullReset = FALSE /\ H264New # None
      BY DEF H264New, HFields, None
    <3>5. EngineOk(z.h264, z.backEnds, z.works, type)
      <4>1. PoolOk(z.backEnds, z.works, type) /\ NoneInUse(z.backEnds)
        BY <2>3, <3>2 DEF EngineOk
      <4>2. BarrierOk(z.backEnds, 0) /\ ContextsOk(<< >>, z.backEnds)
        BY <4>1, NoneInUseOk
      <4> QED
        BY <3>2, <3>4, <4>1, <4>2 DEF EngineOk, H264Ok
    <3>6. Bit(kind = "raw") + hr = hr /\ Bit(kind = "tight") + (Bit(k) + ht) = Bit(k) + ht
      BY <2>6 DEF Bit
    <3>7. RawOk(z.raw, z.works, Bit(kind = "raw") + hr)
      BY <2>3, <3>2, <3>6
    <3>8. TightOk(z.tight, z.works, Bit(kind = "tight") + (Bit(z.client.keepsTight) + ht))
      BY <2>3, <3>2, <3>3, <3>6
    <3>9. z.h264 # None /\ z.h264.barrier = 0
      BY <3>2, <3>4
    <3> QED
      BY <2>3, <2>4, <2>6, <3>2, <3>3, <3>5, <3>7, <3>8, <3>9, EnsuredIs DEF z
  <2>7. CASE kind = "tight"
    <3>1. ht = 0 /\ Bit(kind = "raw") + hr = hr
      BY <1>2, <2>7 DEF Idle, Bit
    <3>2. CASE k
      <4>1. u = [v EXCEPT !.tight.ref = @ + 1]
        BY <2>3, <2>7, <3>2 DEF u
      <4>2. /\ DOMAIN z = WorldFields /\ z.raw = v.raw
            /\ z.tight = [v.tight EXCEPT !.ref = v.tight.ref + 1]
            /\ z.works = v.works /\ z.fault = v.fault /\ z.h264 = v.h264
            /\ z.backEnds = v.backEnds /\ z.client = [v.client EXCEPT !.encoder = kind]
        BY <2>1, <2>3, <4>1 DEF WorldFields
      <4>3. /\ DOMAIN z.client = ClientFields /\ z.client.encoder = kind
            /\ z.client.open = w.client.open /\ z.client.updating = w.client.updating
            /\ z.client.keepsTight = k
        BY <2>3, <4>2 DEF ClientFields
      <4>4. TightOk(v.tight, v.works, 1)
        <5>1. Bit(k) + ht = 1
          BY <3>1, <3>2 DEF Bit
        <5> QED
          BY <2>3, <5>1
      <4>5. TightOk(z.tight, z.works, 2)
        <5>1. /\ v.tight # None /\ DOMAIN v.tight = TightFields
              /\ v.tight.nJobs = Cardinality(Of(v.works, "tight"))
              /\ v.tight.ref = v.tight.nJobs + Bit(Of(v.works, "finish") # {}) + 1
          BY <4>4 DEF TightOk
        <5>2. Of(v.works, "tight") = {} /\ Of(v.works, "finish") = {} /\ Cardinality({}) = 0
          BY <2>4, FS_EmptySet DEF Quiet
        <5>3. v.tight.nJobs = 0 /\ v.tight.ref = 1
          BY <5>1, <5>2 DEF Bit
        <5>4. /\ DOMAIN z.tight = TightFields /\ z.tight.nJobs = 0 /\ z.tight.ref = 2
          BY <4>2, <5>1, <5>3 DEF TightFields
        <5>5. z.tight # None
          BY <5>4, HasField DEF TightFields
        <5>6. z.tight.nJobs = Cardinality(Of(z.works, "tight"))
          BY <4>2, <5>2, <5>4
        <5>7. z.tight.ref = z.tight.nJobs + Bit(Of(z.works, "finish") # {}) + 2
          BY <4>2, <5>2, <5>4 DEF Bit
        <5> QED
          BY <4>2, <4>4, <5>4, <5>5, <5>6, <5>7 DEF TightOk
      <4>6. Bit(kind = "tight") + (Bit(z.client.keepsTight) + ht) = 2
        BY <2>7, <3>1, <3>2, <4>3 DEF Bit
      <4>7. RawOk(z.raw, z.works, Bit(kind = "raw") + hr)
        BY <2>3, <3>1, <4>2
      <4>8. TightOk(z.tight, z.works, Bit(kind = "tight") + (Bit(z.client.keepsTight) + ht))
        BY <4>5, <4>6
      <4>9. EngineOk(z.h264, z.backEnds, z.works, type) /\ z.h264 = None
        BY <2>3, <4>2
      <4> QED
        BY <2>3, <2>4, <2>7, <4>2, <4>3, <4>7, <4>8, <4>9, EnsuredIs DEF z
    <3>3. CASE ~k
      <4> DEFINE n == [TightNew EXCEPT !.ref = 2]
      <4>1. u = [v EXCEPT !.tight = n, !.client.keepsTight = TRUE]
        BY <2>3, <2>7, <3>3 DEF u
      <4>2. /\ DOMAIN n = TightFields /\ n.nJobs = 0 /\ n.ref = 2
        BY DEF TightFields, TightNew
      <4> HIDE DEF n
      <4>3. /\ DOMAIN z = WorldFields /\ z.raw = v.raw /\ z.tight = n
            /\ z.works = v.works /\ z.fault = v.fault /\ z.h264 = v.h264
            /\ z.backEnds = v.backEnds
            /\ z.client = [v.client EXCEPT !.keepsTight = TRUE, !.encoder = kind]
        BY <2>1, <2>3, <4>1 DEF WorldFields
      <4>4. /\ DOMAIN z.client = ClientFields /\ z.client.encoder = kind
            /\ z.client.open = w.client.open /\ z.client.updating = w.client.updating
            /\ z.client.keepsTight = TRUE
        BY <2>3, <4>3 DEF ClientFields
      <4>5. TightOk(z.tight, z.works, 2)
        <5>1. Of(z.works, "tight") = {} /\ Of(z.works, "finish") = {} /\ Cardinality({}) = 0
          BY <2>4, <4>3, FS_EmptySet DEF Quiet
        <5>2. z.tight # None
          BY <4>2, <4>3, HasField DEF TightFields
        <5>3. z.tight.ref = z.tight.nJobs + Bit(Of(z.works, "finish") # {}) + 2
          BY <4>2, <4>3, <5>1 DEF Bit
        <5>4. JobsOk(z.works)
          BY <2>3, <4>3 DEF TightOk
        <5> QED
          BY <4>2, <4>3, <5>1, <5>2, <5>3, <5>4 DEF TightOk
      <4>6. Bit(kind = "tight") + (Bit(z.client.keepsTight) + ht) = 2
        BY <2>7, <3>1, <4>4 DEF Bit
      <4>7. RawOk(z.raw, z.works, Bit(kind = "raw") + hr)
        BY <2>3, <3>1, <4>3
      <4>8. TightOk(z.tight, z.works, Bit(kind = "tight") + (Bit(z.client.keepsTight) + ht))
        BY <4>5, <4>6
      <4>9. EngineOk(z.h264, z.backEnds, z.works, type) /\ z.h264 = None
        BY <2>3, <4>3
      <4>10. /\ DOMAIN z.client = ClientFields /\ z.client.encoder = kind
             /\ z.client.open = w.client.open /\ z.client.updating = w.client.updating
             /\ z.client.keepsTight \in BOOLEAN
        BY <4>4
      <4>11. DOMAIN z = WorldFields /\ z.works = w.works /\ z.fault = w.fault
        BY <2>3, <4>3
      <4> QED
        BY <2>7, <4>7, <4>8, <4>9, <4>10, <4>11, EnsuredIs DEF z
    <3> QED
      BY <2>4, <3>2, <3>3
  <2> QED
    BY <2>5, <2>6, <2>7
<1> QED
  BY <1>1, <1>2

(* Steps that change the client's flags, or what the viewer got. *)
LEMMA ClientChanges ==
  ASSUME NEW w, NEW hr, NEW ht, NEW type, WorldOk(w, hr, ht, type),
         NEW v, DOMAIN v = WorldFields, Only(w, v, {"client", "peer"}),
         DOMAIN v.client = ClientFields,
         v.client.open = w.client.open, v.client.encoder = w.client.encoder,
         v.client.keepsTight = w.client.keepsTight, v.client.updating \in BOOLEAN,
         \/ v.client.updating = w.client.updating
         \/ /\ w.client.open /\ Quiet(w.works)
            /\ w.h264 # None => w.h264.barrier = 0
  PROVE  WorldOk(v, hr, ht, type)
<1>1. /\ v.raw = w.raw /\ v.tight = w.tight /\ v.h264 = w.h264
      /\ v.backEnds = w.backEnds /\ v.works = w.works /\ v.fault = w.fault
  BY DEF Only, WorldFields
<1>2. ClientOk(v.client)
  BY DEF WorldOk, ClientOk
<1>3. Flight(v.works, v.client)
  BY <1>1 DEF WorldOk, Flight, Quiet
<1>4. Refs(v, Bit(v.client.encoder = "raw") + hr,
              Bit(v.client.encoder = "tight") + (Bit(v.client.keepsTight) + ht))
  BY <1>1 DEF WorldOk, Refs
<1>5. (v.h264 # None /\ ~v.client.updating) => v.h264.barrier = 0
  BY <1>1 DEF WorldOk
<1> QED
  BY <1>1, <1>2, <1>3, <1>4, <1>5 DEF WorldOk

(* Steps of the raw and of the tight encoder. *)
LEMMA RefsChange ==
  ASSUME NEW w, NEW hr, NEW ht, NEW type, WorldOk(w, hr, ht, type), NEW kr, NEW kt,
         NEW v, DOMAIN v = WorldFields, Only(w, v, {"raw", "tight", "works"}),
         Kinds(v.works), Of(v.works, "ffmpeg") = Of(w.works, "ffmpeg"),
         RawOk(v.raw, v.works, Bit(w.client.encoder = "raw") + kr),
         TightOk(v.tight, v.works,
                 Bit(w.client.encoder = "tight") + (Bit(w.client.keepsTight) + kt)),
         Flight(v.works, w.client)
  PROVE  WorldOk(v, kr, kt, type)
<1>1. /\ v.client = w.client /\ v.h264 = w.h264
      /\ v.backEnds = w.backEnds /\ v.fault = w.fault
  BY DEF Only, WorldFields
<1>2. EngineOk(v.h264, v.backEnds, v.works, type)
  BY <1>1 DEF WorldOk, EngineOk, PoolOk
<1>3. Refs(v, Bit(v.client.encoder = "raw") + kr,
              Bit(v.client.encoder = "tight") + (Bit(v.client.keepsTight) + kt))
  BY <1>1 DEF WorldOk, Refs
<1> QED
  BY <1>1, <1>2, <1>3 DEF WorldOk

(* raw_encoder_encode. *)
LEMMA RawEncodes ==
  ASSUME NEW w, NEW hr \in Nat, NEW ht, NEW type, WorldOk(w, hr, ht, type),
         w.client.encoder = "raw", w.client.updating, Quiet(w.works),
         NEW comp, NEW damage, NEW f
  PROVE  WorldOk(RawEncode(w, comp, damage, f), hr, ht, type)
<1> DEFINE v == RawEncode(w, comp, damage, f)
           k == [of |-> "raw", stage |-> "run", frame |-> f, comp |-> comp, damage |-> damage]
           rn == Bit(w.client.encoder = "raw") + hr
<1>1. /\ DOMAIN w = WorldFields /\ Kinds(w.works) /\ RawOk(w.raw, w.works, rn)
      /\ TightOk(w.tight, w.works,
                 Bit(w.client.encoder = "tight") + (Bit(w.client.keepsTight) + ht))
  BY DEF WorldOk, Refs
<1>2. /\ DOMAIN v = WorldFields /\ Only(w, v, {"raw", "tight", "works"})
      /\ v.tight = w.tight /\ v.works = w.works \cup {k}
      /\ v.raw = [ref |-> w.raw.ref + 1, work |-> TRUE]
  BY <1>1 DEF RawEncode, WorldFields, Only
<1> HIDE DEF v
<1>3. /\ Of(v.works, "raw") = {k} /\ Of(v.works, "tight") = {} /\ Of(v.works, "finish") = {}
      /\ Of(v.works, "ffmpeg") = Of(w.works, "ffmpeg")
  BY <1>2 DEF Of, Quiet
<1>4. Kinds(v.works)
  BY <1>1, <1>2 DEF Kinds
<1> HIDE DEF k
<1>5. rn = 1 + hr
  BY DEF Bit
<1>6. w.raw # None /\ w.raw.ref = rn
  <2>1. w.raw # None
    BY <1>1, <1>5 DEF RawOk
  <2>2. w.raw.ref = Bit(Of(w.works, "raw") # {}) + rn
    BY <1>1, <2>1 DEF RawOk
  <2> QED
    BY <1>5, <2>1, <2>2 DEF Bit, Quiet
<1>7. RawOk(v.raw, v.works, rn)
  <2>1. DOMAIN v.raw = {"ref", "work"} /\ v.raw.ref = rn + 1
    BY <1>2, <1>6
  <2>2. Bit(Of(v.works, "raw") # {}) = 1
    BY <1>3 DEF Bit
  <2>3. v.raw # None
    BY <2>1, HasField
  <2>4. v.raw.ref = Bit(Of(v.works, "raw") # {}) + rn /\ v.raw.ref # 0
    BY <1>5, <2>1, <2>2
  <2> QED
    BY <1>3, <2>1, <2>3, <2>4 DEF RawOk
<1>8. TightOk(v.tight, v.works,
              Bit(w.client.encoder = "tight") + (Bit(w.client.keepsTight) + ht))
  <2>1. Of(w.works, "tight") = {} /\ Of(w.works, "finish") = {}
    BY DEF Quiet
  <2> QED
    BY <1>1, <1>2, <1>3, <2>1 DEF TightOk, JobsOk
<1>9. Flight(v.works, w.client)
  BY <1>3 DEF Flight
<1> QED
  BY <1>2, <1>3, <1>4, <1>7, <1>8, <1>9, RefsChange DEF v

(* tight_encoder_encode: a job for each stream. *)
LEMMA JobsAre ==
  ASSUME NStreams \in Nat
  PROVE  LET T == {[of |-> "tight", stream |-> i, stage |-> "run"] : i \in Streams}
         IN  IsFiniteSet(T) /\ Cardinality(T) = NStreams
<1> DEFINE T == {[of |-> "tight", stream |-> i, stage |-> "run"] : i \in Streams}
           g == [i \in Streams |-> [of |-> "tight", stream |-> i, stage |-> "run"]]
<1>1. IsFiniteSet(Streams) /\ Cardinality(Streams) = NStreams
  <2>1. IsFiniteSet(0..(NStreams - 1))
        /\ Cardinality(0..(NStreams - 1)) =
             IF 0 > NStreams - 1 THEN 0 ELSE NStreams - 1 - 0 + 1
    BY FS_Interval
  <2> QED
    BY <2>1 DEF Streams
<1>2. g \in [Streams -> T]
  OBVIOUS
<1>3. g \in Injection(Streams, T)
  <2>1. ASSUME NEW a \in Streams, NEW b \in Streams, g[a] = g[b] PROVE a = b
    <3>1. g[a].stream = a /\ g[b].stream = b
      OBVIOUS
    <3> QED
      BY <2>1, <3>1
  <2> HIDE DEF g, T
  <2> QED
    BY <1>2, <2>1, Fun_IsInj
<1>4. g \in Surjection(Streams, T)
  <2>1. \A t \in T : \E s \in Streams : g[s] = t
    OBVIOUS
  <2> HIDE DEF g, T
  <2> QED
    BY <1>2, <2>1, Fun_IsSurj
<1> HIDE DEF g, T
<1>5. IsFiniteSet(T) /\ Cardinality(T) = Cardinality(Streams)
  BY <1>1, <1>3, <1>4, FS_Surjection
<1> QED
  BY <1>1, <1>5 DEF T

LEMMA TightEncodes ==
  ASSUME NStreams \in Nat,
         NEW w, NEW hr, NEW ht \in Nat, NEW type, WorldOk(w, hr, ht, type),
         w.client.encoder = "tight", w.client.updating, Quiet(w.works),
         NEW q, NEW comp, NEW damage, NEW f
  PROVE  WorldOk(TightEncode([w EXCEPT !.tight.quality = q], comp, damage, f), hr, ht, type)
<1> DEFINE x == [w EXCEPT !.tight.quality = q]
           v == TightEncode(x, comp, damage, f)
           J == {[of |-> "tight", stream |-> i, stage |-> "run"] : i \in Streams}
           tn == Bit(w.client.encoder = "tight") + (Bit(w.client.keepsTight) + ht)
           o == w.tight
           r == TightResize(x.tight, comp)
           t == ApplyDamage(r, comp, damage)
<1>1. /\ DOMAIN w = WorldFields /\ Kinds(w.works) /\ TightOk(o, w.works, tn)
      /\ RawOk(w.raw, w.works, Bit(w.client.encoder = "raw") + hr)
  BY DEF WorldOk, Refs
<1>2. tn \in Nat /\ tn # 0
  BY DEF Bit
<1> HIDE DEF tn
<1>3. o # None /\ DOMAIN o = TightFields /\ o.nJobs = 0 /\ o.ref = tn
  <2>1. o # None
    BY <1>1, <1>2 DEF TightOk
  <2>2. Of(w.works, "tight") = {} /\ Of(w.works, "finish") = {} /\ Cardinality({}) = 0
    BY FS_EmptySet DEF Quiet
  <2>3. /\ DOMAIN o = TightFields /\ o.nJobs = Cardinality(Of(w.works, "tight"))
        /\ o.ref = o.nJobs + Bit(Of(w.works, "finish") # {}) + tn
    BY <1>1, <2>1 DEF TightOk
  <2>4. o.nJobs = 0
    BY <2>2, <2>3
  <2>5. Bit(Of(w.works, "finish") # {}) = 0
    BY <2>2 DEF Bit
  <2> QED
    BY <1>2, <2>1, <2>3, <2>4, <2>5
<1>4. /\ DOMAIN x = WorldFields /\ Only(w, x, {"tight"})
      /\ x.tight = [o EXCEPT !.quality = q] /\ x.works = w.works
  BY <1>1 DEF WorldFields, Only
<1>5. DOMAIN x.tight = TightFields /\ x.tight.ref = tn
  BY <1>3, <1>4 DEF TightFields
<1> HIDE DEF x
<1>6. DOMAIN r = TightFields /\ r.ref = tn
  BY <1>5 DEF TightResize, TightFields
<1> HIDE DEF r
<1>7. DOMAIN t = TightFields /\ t.ref = tn
  BY <1>6 DEF ApplyDamage, TightFields
<1> HIDE DEF t
<1>8. /\ DOMAIN v = WorldFields /\ Only(x, v, {"tight", "works"})
      /\ v.works = w.works \cup J
      /\ DOMAIN v.tight = TightFields
      /\ v.tight.nJobs = NStreams /\ v.tight.ref = t.ref + TightJobRefs
  <2> DEFINE fr == [id |-> f, comp |-> comp, damage |-> damage]
             nr == Cardinality(TilesIn(t, "damaged"))
             n == [t EXCEPT !.frame = fr, !.nRects = nr, !.dst = << >>,
                            !.nJobs = NStreams, !.ref = t.ref + TightJobRefs]
  <2>1. v = [x EXCEPT !.tight = n, !.works = x.works \cup J]
    BY DEF TightEncode, t, r
  <2> HIDE DEF fr, nr
  <2>2. DOMAIN n = TightFields /\ n.nJobs = NStreams /\ n.ref = t.ref + TightJobRefs
    BY <1>7 DEF TightFields
  <2> HIDE DEF n, v, J
  <2>3. /\ DOMAIN v = WorldFields /\ Only(x, v, {"tight", "works"})
        /\ v.tight = n /\ v.works = x.works \cup J
    BY <1>4, <2>1 DEF WorldFields, Only
  <2> QED
    BY <1>4, <2>2, <2>3
<1> HIDE DEF v
<1>9. Only(w, v, {"raw", "tight", "works"}) /\ v.raw = w.raw
  BY <1>4, <1>8 DEF Only, WorldFields
<1>10. /\ Of(v.works, "raw") = {} /\ Of(v.works, "tight") = J /\ Of(v.works, "finish") = {}
       /\ Of(v.works, "ffmpeg") = Of(w.works, "ffmpeg")
  BY <1>8 DEF Of, Quiet
<1>11. Kinds(v.works)
  BY <1>1, <1>8 DEF Kinds
<1>12. IsFiniteSet(J) /\ Cardinality(J) = NStreams
  BY JobsAre
<1>13. JobsOk(v.works)
  <2>1. \A k \in J : k = [of |-> "tight", stream |-> k.stream, stage |-> k.stage]
    OBVIOUS
  <2>2. \A j, k \in J : j.stream = k.stream => j = k
    OBVIOUS
  <2> HIDE DEF J
  <2> QED
    BY <1>10, <1>12, <2>1, <2>2 DEF JobsOk
<1> HIDE DEF J
<1>14. TightOk(v.tight, v.works, tn)
  <2>1. v.tight.ref = tn + NStreams /\ v.tight.nJobs = NStreams
    BY <1>7, <1>8 DEF TightJobRefs
  <2>2. Bit(Of(v.works, "finish") # {}) = 0
    BY <1>10 DEF Bit
  <2>3. v.tight.ref = v.tight.nJobs + Bit(Of(v.works, "finish") # {}) + tn /\ v.tight.ref # 0
    BY <1>2, <2>1, <2>2
  <2>4. v.tight # None
    BY <1>8, HasField DEF TightFields
  <2>5. v.tight.nJobs = Cardinality(Of(v.works, "tight"))
    BY <1>10, <1>12, <2>1
  <2> QED
    BY <1>8, <1>13, <2>3, <2>4, <2>5 DEF TightOk
<1>15. RawOk(v.raw, v.works, Bit(w.client.encoder = "raw") + hr)
  <2>1. Of(w.works, "raw") = {}
    BY DEF Quiet
  <2> QED
    BY <1>1, <1>9, <1>10, <2>1 DEF RawOk
<1>16. Flight(v.works, w.client)
  BY <1>10 DEF Flight
<1> QED
  BY <1>8, <1>9, <1>10, <1>11, <1>14, <1>15, <1>16, RefsChange DEF v, x, tn

(* open_h264_set_quality, when no frame is in flight. *)
LEMMA SetsQuality ==
  ASSUME NEW w, NEW type, Encoding(w, type), w.h264.barrier = 0, NEW q
  PROVE  LET v == H264SetQuality(w, q)
         IN  Encoding(v, type) /\ Aside(w, v) /\ v.h264.barrier = 0
<1> DEFINE h == w.h264
           cs == h.contexts
           ds == [i \in DOMAIN cs |->
                    [cs[i] EXCEPT !.qualityChanged = @ \/ q # h.quality]]
           v == H264SetQuality(w, q)
<1>1. /\ DOMAIN w = WorldFields /\ DOMAIN h = HFields /\ ContextsOk(cs, w.backEnds)
      /\ IsSequence(cs) /\ PoolOk(w.backEnds, w.works, type)
      /\ Kinds(w.works) /\ DOMAIN w.client = ClientFields
      /\ h.ref = 1 /\ BarrierOk(w.backEnds, 0)
  BY DEF Encoding, H264Ok, ContextsOk
<1>2. /\ DOMAIN v = WorldFields /\ Only(w, v, {"h264", "backEnds"})
      /\ v.backEnds = w.backEnds /\ v.h264 = [h EXCEPT !.quality = q, !.contexts = ds]
  BY <1>1 DEF H264SetQuality, WorldFields, Only, HFields
<1>3. /\ DOMAIN v.h264 = HFields /\ v.h264.contexts = ds /\ v.h264.ref = h.ref
      /\ v.h264.barrier = 0
  BY <1>1, <1>2 DEF HFields
<1> HIDE DEF v
<1>4. IsSequence(ds) /\ DOMAIN ds = DOMAIN cs
  BY <1>1, MappedIs
<1>5. ASSUME NEW i \in DOMAIN cs
      PROVE  /\ DOMAIN ds[i] = CtxFields
             /\ ds[i].id = cs[i].id /\ ds[i].x = cs[i].x /\ ds[i].w = cs[i].w
             /\ (q = h.quality /\ ~cs[i].qualityChanged) => ~ds[i].qualityChanged
  <2>1. DOMAIN cs[i] = CtxFields
    BY <1>1, <1>5 DEF ContextsOk
  <2>2. ds[i] = [cs[i] EXCEPT !.qualityChanged = @ \/ q # h.quality]
    BY <1>5
  <2> HIDE DEF ds
  <2> QED
    BY <2>1, <2>2 DEF CtxFields
<1> HIDE DEF ds
<1>6. \A b \in DOMAIN w.backEnds : InUse(w.backEnds[b]) => Load(w.backEnds[b]) = 0
  <2>1. \A b \in Nat : Due(w.backEnds, b) = 0
    BY <1>1, NoneDue
  <2>2. DOMAIN w.backEnds \subseteq Nat
    BY <1>1, DueIs
  <2> QED
    BY <2>1, <2>2 DEF Due
<1>7. ContextsOk(ds, w.backEnds)
  <2>1. Ids(ds) = Ids(cs)
    BY <1>4, <1>5 DEF Ids
  <2>2. ASSUME NEW i \in DOMAIN ds
        PROVE  /\ DOMAIN ds[i] = CtxFields /\ ds[i].id \in DOMAIN w.backEnds
               /\ InUse(w.backEnds[ds[i].id]) /\ Load(w.backEnds[ds[i].id]) = 0
    <3>1. i \in DOMAIN cs /\ ds[i].id = cs[i].id /\ DOMAIN ds[i] = CtxFields
      BY <1>4, <1>5, <2>2
    <3>2. cs[i].id \in DOMAIN w.backEnds /\ InUse(w.backEnds[cs[i].id])
      BY <1>1, <3>1 DEF ContextsOk
    <3> QED
      BY <1>6, <3>1, <3>2
  <2>3. \A i, j \in DOMAIN ds : ds[i].id = ds[j].id => i = j
    BY <1>1, <1>4, <1>5 DEF ContextsOk
  <2>4. \A b \in DOMAIN w.backEnds : InUse(w.backEnds[b]) => b \in Ids(ds)
    BY <1>1, <2>1 DEF ContextsOk
  <2> QED
    BY <1>4, <2>2, <2>3, <2>4 DEF ContextsOk
<1>8. Aside(w, v) /\ v.works = w.works
  BY <1>1, <1>2, OnlyAside
<1>9. H264Ok(v.h264, v.backEnds, type)
  BY <1>1, <1>2, <1>3, <1>7 DEF H264Ok
<1>10. Encoding(v, type)
  BY <1>1, <1>2, <1>8, <1>9 DEF Encoding, Aside
<1> QED
  BY <1>3, <1>4, <1>5, <1>8, <1>10 DEF v

(* Steps of the H.264 encoder. *)
LEMMA EngineChanges ==
  ASSUME NEW w, NEW hr, NEW ht, NEW type, WorldOk(w, hr, ht, type), w.h264 # None,
         NEW v, Aside(w, v), Encoding(v, type), v.client.updating \/ v.h264.barrier = 0
  PROVE  WorldOk(v, hr, ht, type)
<1>1. v.h264 # None
  BY HasField DEF Encoding, H264Ok, HFields
<1>2. EngineOk(v.h264, v.backEnds, v.works, type)
  BY <1>1 DEF EngineOk, Encoding
<1>3. ClientOk(v.client) /\ Flight(v.works, v.client)
  BY DEF WorldOk, ClientOk, Aside, Flight
<1>4. /\ RawOk(v.raw, v.works, Bit(v.client.encoder = "raw") + hr)
      /\ TightOk(v.tight, v.works,
                 Bit(v.client.encoder = "tight") + (Bit(v.client.keepsTight) + ht))
  <2>1. /\ RawOk(w.raw, w.works, Bit(w.client.encoder = "raw") + hr)
        /\ TightOk(w.tight, w.works,
                   Bit(w.client.encoder = "tight") + (Bit(w.client.keepsTight) + ht))
    BY DEF WorldOk, Refs
  <2>2. /\ v.client.encoder = w.client.encoder /\ v.client.keepsTight = w.client.keepsTight
        /\ v.raw = w.raw /\ v.tight = w.tight
    BY DEF Aside
  <2>3. RawOk(v.raw, v.works, Bit(w.client.encoder = "raw") + hr)
    BY <2>1, <2>2 DEF RawOk, Aside
  <2>4. TightOk(v.tight, v.works,
                Bit(w.client.encoder = "tight") + (Bit(w.client.keepsTight) + ht))
    BY <2>1, <2>2 DEF TightOk, JobsOk, Aside
  <2> QED
    BY <2>2, <2>3, <2>4
<1>5. Refs(v, Bit(v.client.encoder = "raw") + hr,
              Bit(v.client.encoder = "tight") + (Bit(v.client.keepsTight) + ht))
  BY <1>4 DEF Refs, Encoding
<1>6. v.client.encoder = "h264" /\ (v.fault => type = "v4l2")
  BY DEF WorldOk, Aside
<1> QED
  BY <1>1, <1>2, <1>3, <1>5, <1>6 DEF WorldOk

LEMMA Encodes ==
  ASSUME NStreams \in Nat,
         NEW w, NEW hr \in Nat, NEW ht \in Nat, Idle(w, hr, ht, backEndType),
         NEW kind \in {"raw", "tight", "h264"}, NEW comp, IsComposite(comp), NEW damage
  PROVE  LET v == Encode(w, kind, comp, damage)
         IN  WorldOk(v, hr, ht, backEndType) /\ v.client.encoder = kind
<1> DEFINE f == w.client.frame + 1
           y == [w EXCEPT !.client.frame = f, !.client.updating = TRUE]
           u == EnsureEncoder(y, kind)
           q == w.client.quality
           v == Encode(w, kind, comp, damage)
<1>1. /\ WorldOk(w, hr, ht, backEndType) /\ DOMAIN w = WorldFields
      /\ DOMAIN w.client = ClientFields /\ w.client.open /\ Quiet(w.works)
      /\ w.h264 # None => w.h264.barrier = 0
  BY DEF Idle, WorldOk, Refs
<1>2. /\ DOMAIN y = WorldFields /\ Only(w, y, {"client", "peer"})
      /\ y.works = w.works /\ y.h264 = w.h264
  BY <1>1 DEF WorldFields, Only
<1>3. /\ DOMAIN y.client = ClientFields /\ y.client.updating = TRUE
      /\ y.client.open = w.client.open /\ y.client.encoder = w.client.encoder
      /\ y.client.keepsTight = w.client.keepsTight /\ y.client.quality = q
  BY <1>1 DEF WorldFields, ClientFields
<1> HIDE DEF y, f
<1>4. WorldOk(y, hr, ht, backEndType)
  BY <1>1, <1>2, <1>3, ClientChanges
<1>5. Idle(y, hr, ht, backEndType)
  BY <1>2, <1>3, <1>4 DEF Idle
<1>6. Ensured(y, u, kind, hr, ht, backEndType)
  BY <1>5, Ensures
<1> HIDE DEF u
<1>8. /\ WorldOk(u, hr, ht, backEndType) /\ Quiet(u.works) /\ u.client.updating
      /\ u.client.encoder = kind
      /\ u.h264 # None => u.h264.barrier = 0
  BY <1>2, <1>3, <1>6, <1>1 DEF Ensured
<1>9. CASE kind = "raw"
  <2>1. v = RawEncode(u, comp, damage, f)
    BY <1>9 DEF Encode, u, y, f
  <2>2. WorldOk(v, hr, ht, backEndType)
    BY <1>8, <1>9, <2>1, RawEncodes
  <2>3. DOMAIN u = WorldFields
    BY <1>8 DEF WorldOk, Refs
  <2>4. v.client = u.client
    BY <2>1, <2>3 DEF RawEncode, WorldFields
  <2> QED
    BY <1>8, <1>9, <2>2, <2>4
<1>10. CASE kind = "tight"
  <2>1. v = TightEncode([u EXCEPT !.tight.quality = q], comp, damage, f)
    BY <1>10 DEF Encode, u, y, f
  <2>2. WorldOk(v, hr, ht, backEndType)
    BY <1>8, <1>10, <2>1, TightEncodes
  <2>3. DOMAIN u = WorldFields
    BY <1>8 DEF WorldOk, Refs
  <2>4. v.client = u.client
    BY <2>1, <2>3 DEF TightEncode, WorldFields
  <2> QED
    BY <1>8, <1>10, <2>2, <2>4
<1>11. CASE kind = "h264"
  <2> DEFINE x == H264SetQuality(u, q)
  <2>1. v = H264Encode(x, comp, damage, f)
    BY <1>11 DEF Encode, u, y, f
  <2>2. u.h264 # None /\ u.h264.barrier = 0
    BY <1>8, <1>11 DEF WorldOk
  <2>3. Encoding(u, backEndType)
    BY <1>8, <2>2, WorldEncoding
  <2>4. Encoding(x, backEndType) /\ Aside(u, x) /\ x.h264.barrier = 0
    BY <2>2, <2>3, SetsQuality
  <2> HIDE DEF x, v
  <2>5. Encoding(v, backEndType) /\ Aside(x, v)
    BY <2>1, <2>4, H264Encodes
  <2>6. Aside(u, v)
    BY <2>4, <2>5, AsideTrans
  <2>7. v.client.updating /\ v.client.encoder = kind
    BY <1>8, <2>6 DEF Aside
  <2>8. WorldOk(v, hr, ht, backEndType)
    BY <1>8, <2>2, <2>5, <2>6, <2>7, EngineChanges
  <2> QED
    BY <2>7, <2>8 DEF v
<1> QED
  BY <1>9, <1>10, <1>11

-----------------------------------------------------------------------------
(* The end of a frame. *)
Chosen(c) ==
  /\ c.how \in {"later", "drop", "close", "next"}
  /\ c.how = "next" => c.kind \in {"raw", "tight", "h264"} /\ IsComposite(c.comp)

LEMMA OutcomesAre ==
  ASSUME \A comp \in Composites : IsComposite(comp),
         NEW w, w.client.open, NEW c \in Outcomes(w)
  PROVE  Chosen(c)
<1>1. \/ c \in {[how |-> "later"], [how |-> "close"], [how |-> "drop"]}
      \/ c \in [how : {"next"}, kind : {"raw", "tight", "h264"},
                 comp : Composites, damage : Damages]
  BY Zenon DEF Outcomes
<1>2. CASE c \in {[how |-> "later"], [how |-> "close"], [how |-> "drop"]}
  <2>1. c.how \in {"later", "close", "drop"}
    BY <1>2
  <2> QED
    BY <2>1 DEF Chosen
<1>3. CASE c \in [how : {"next"}, kind : {"raw", "tight", "h264"},
                  comp : Composites, damage : Damages]
  <2>1. c.how = "next" /\ c.kind \in {"raw", "tight", "h264"} /\ c.comp \in Composites
    BY <1>3
  <2> QED
    BY <2>1 DEF Chosen
<1> QED
  BY <1>1, <1>2, <1>3

(* The frame is sent, or dropped. *)
LEMMA Finished ==
  ASSUME NEW w, NEW hr, NEW ht, NEW type, Idle(w, hr, ht, type), NEW v,
         DOMAIN v = WorldFields, Only(w, v, {"client", "peer"}),
         v.client = [w.client EXCEPT !.updating = FALSE]
  PROVE  Idle(v, hr, ht, type)
<1>1. /\ WorldOk(w, hr, ht, type) /\ DOMAIN w.client = ClientFields
      /\ w.client.open /\ Quiet(w.works) /\ (w.h264 # None => w.h264.barrier = 0)
  BY DEF Idle, WorldOk, Refs
<1>2. /\ DOMAIN v.client = ClientFields /\ v.client.updating = FALSE
      /\ v.client.open = w.client.open /\ v.client.encoder = w.client.encoder
      /\ v.client.keepsTight = w.client.keepsTight /\ v.client.quality = w.client.quality
  BY <1>1 DEF ClientFields
<1>3. v.works = w.works /\ v.h264 = w.h264
  BY DEF Only, WorldFields
<1>4. WorldOk(v, hr, ht, type)
  BY <1>1, <1>2, ClientChanges
<1> QED
  BY <1>1, <1>2, <1>3, <1>4 DEF Idle

(* encoder_finish_frame and what the client's callback leads to. *)
LEMMA FinishesFrame ==
  ASSUME NStreams \in Nat,
         NEW w, NEW hr \in Nat, NEW ht \in Nat, WorldOk(w, hr, ht, backEndType),
         NEW result, NEW c,
         w.client.open => Chosen(c) /\ Idle(w, hr, ht, backEndType)
  PROVE  WorldOk(FinishFrame(w, result, c), hr, ht, backEndType)
<1> DEFINE v == FinishFrame(w, result, c)
           sent == [w EXCEPT !.peer = Receive(@, result), !.client.updating = FALSE]
<1>1. DOMAIN w = WorldFields
  BY DEF WorldOk, Refs
<1>2. CASE ~w.client.open
  BY <1>2 DEF FinishFrame
<1>3. CASE w.client.open
  <2>1. Chosen(c) /\ Idle(w, hr, ht, backEndType)
    BY <1>3
  <2>2. /\ DOMAIN sent = WorldFields /\ Only(w, sent, {"client", "peer"})
        /\ sent.client = [w.client EXCEPT !.updating = FALSE]
    BY <1>1 DEF WorldFields, Only
  <2> HIDE DEF sent
  <2>3. Idle(sent, hr, ht, backEndType)
    BY <2>1, <2>2, Finished
  <2>4. CASE c.how = "later"
    <3>1. v = sent
      BY <1>3, <2>4 DEF FinishFrame, sent
    <3> QED
      BY <2>3, <3>1 DEF Idle
  <2>5. CASE c.how = "drop"
    <3> DEFINE d == [w EXCEPT !.client.updating = FALSE]
    <3>1. v = d
      BY <1>3, <2>5 DEF FinishFrame
    <3>2. /\ DOMAIN d = WorldFields /\ Only(w, d, {"client", "peer"})
          /\ d.client = [w.client EXCEPT !.updating = FALSE]
      BY <1>1 DEF WorldFields, Only
    <3> HIDE DEF d
    <3>3. Idle(d, hr, ht, backEndType)
      BY <2>1, <3>2, Finished
    <3> QED
      BY <3>1, <3>3 DEF Idle
  <2>6. CASE c.how = "close"
    <3>1. v = Close(w)
      BY <1>3, <2>6 DEF FinishFrame
    <3> QED
      BY <3>1, Closes
  <2>7. CASE c.how = "next"
    <3>1. v = Encode(sent, c.kind, c.comp, c.damage)
      BY <1>3, <2>7 DEF FinishFrame, sent
    <3>2. c.kind \in {"raw", "tight", "h264"} /\ IsComposite(c.comp)
      BY <2>1, <2>7 DEF Chosen
    <3> QED
      BY <2>3, <3>1, <3>2, Encodes
  <2> QED
    BY <2>1, <2>4, <2>5, <2>6, <2>7 DEF Chosen
<1> QED
  BY <1>2, <1>3

-----------------------------------------------------------------------------
(* Packets.  They change the pending packets of contexts and nothing else   *)
(* of them.                                                                 *)
Touched(cs, ds) ==
  /\ IsSequence(ds) /\ DOMAIN ds = DOMAIN cs
  /\ \A i \in DOMAIN cs : /\ DOMAIN ds[i] = CtxFields
                          /\ ds[i].id = cs[i].id /\ ds[i].x = cs[i].x /\ ds[i].w = cs[i].w
                          /\ ds[i].qualityChanged = cs[i].qualityChanged

LEMMA Touches ==
  ASSUME NEW w, NEW type, Encoding(w, type),
         NEW v, DOMAIN v = WorldFields, Only(w, v, {"h264", "backEnds"}),
         v.backEnds = w.backEnds, DOMAIN v.h264 = HFields, v.h264.ref = 1,
         Touched(w.h264.contexts, v.h264.contexts),
         v.h264.barrier \in Nat, BarrierOk(w.backEnds, v.h264.barrier)
  PROVE  Encoding(v, type) /\ Aside(w, v)
<1> DEFINE cs == w.h264.contexts
           ds == v.h264.contexts
           bs == w.backEnds
<1>1. /\ DOMAIN w = WorldFields /\ ContextsOk(cs, bs) /\ PoolOk(bs, w.works, type)
      /\ Kinds(w.works) /\ DOMAIN w.client = ClientFields
  BY DEF Encoding, H264Ok
<1>2. Aside(w, v) /\ v.works = w.works
  BY <1>1, OnlyAside
<1>3. ContextsOk(ds, bs)
  <2> HIDE DEF cs, ds
  <2>0. Touched(cs, ds)
    BY DEF cs, ds
  <2>1. Ids(ds) = Ids(cs)
    BY <2>0 DEF Ids, Touched
  <2>2. ASSUME NEW i \in DOMAIN ds
        PROVE  /\ DOMAIN ds[i] = CtxFields /\ ds[i].id \in DOMAIN bs
               /\ InUse(bs[ds[i].id]) /\ (Load(bs[ds[i].id]) # 0 => ~ds[i].qualityChanged)
    <3>1. /\ i \in DOMAIN cs /\ ds[i].id = cs[i].id /\ DOMAIN ds[i] = CtxFields
          /\ ds[i].qualityChanged = cs[i].qualityChanged
      BY <2>0, <2>2 DEF Touched
    <3> QED
      BY <1>1, <3>1 DEF ContextsOk
  <2>3. \A i, j \in DOMAIN ds : ds[i].id = ds[j].id => i = j
    BY <1>1, <2>0 DEF ContextsOk, Touched
  <2>4. \A b \in DOMAIN bs : InUse(bs[b]) => b \in Ids(ds)
    BY <1>1, <2>1 DEF ContextsOk
  <2>5. IsSequence(ds)
    BY <2>0 DEF Touched
  <2> QED
    BY <2>2, <2>3, <2>4, <2>5 DEF ContextsOk
<1>4. H264Ok(v.h264, v.backEnds, type)
  BY <1>3 DEF H264Ok
<1> QED
  BY <1>1, <1>2, <1>4 DEF Encoding, Aside

(* open_h264_finish_frame, with the last packet of the frame come. *)
Clear(w) ==
  [w EXCEPT !.h264.contexts = [i \in DOMAIN @ |-> [@[i] EXCEPT !.pending = << >>]]]

LEMMA Clears ==
  ASSUME NEW w, NEW type, Encoding(w, type)
  PROVE  LET v == Clear(w)
         IN  Encoding(v, type) /\ Aside(w, v) /\ v.h264.barrier = w.h264.barrier
<1> DEFINE v == Clear(w)
           h == w.h264
           cs == h.contexts
           ds == [i \in DOMAIN cs |-> [cs[i] EXCEPT !.pending = << >>]]
<1>1. /\ DOMAIN w = WorldFields /\ DOMAIN h = HFields /\ h.ref = 1
      /\ ContextsOk(cs, w.backEnds) /\ IsSequence(cs)
      /\ h.barrier \in Nat /\ BarrierOk(w.backEnds, h.barrier)
  BY DEF Encoding, H264Ok, ContextsOk
<1>2. /\ DOMAIN v = WorldFields /\ Only(w, v, {"h264", "backEnds"})
      /\ v.backEnds = w.backEnds /\ v.client = w.client
      /\ v.h264 = [h EXCEPT !.contexts = ds]
  BY <1>1 DEF Clear, WorldFields, Only
<1>3. /\ DOMAIN v.h264 = HFields /\ v.h264.contexts = ds /\ v.h264.ref = h.ref
      /\ v.h264.barrier = h.barrier
  BY <1>1, <1>2 DEF HFields
<1> HIDE DEF v
<1>4. IsSequence(ds) /\ DOMAIN ds = DOMAIN cs
  BY <1>1, MappedIs
<1>5. ASSUME NEW i \in DOMAIN cs
      PROVE  /\ DOMAIN ds[i] = CtxFields
             /\ ds[i].id = cs[i].id /\ ds[i].x = cs[i].x /\ ds[i].w = cs[i].w
             /\ ds[i].qualityChanged = cs[i].qualityChanged
  <2>1. DOMAIN cs[i] = CtxFields
    BY <1>1, <1>5 DEF ContextsOk
  <2>2. ds[i] = [cs[i] EXCEPT !.pending = << >>]
    BY <1>5
  <2> HIDE DEF ds
  <2> QED
    BY <2>1, <2>2 DEF CtxFields
<1> HIDE DEF ds
<1>6. Touched(cs, ds)
  BY <1>4, <1>5 DEF Touched
<1>7. Encoding(v, type) /\ Aside(w, v)
  BY <1>1, <1>2, <1>3, <1>6, Touches
<1> QED
  BY <1>3, <1>7 DEF v

(* The reset that a display's move or removal asks for. *)
NotReset(w) == [w EXCEPT !.h264.fullReset = FALSE]

LEMMA Resets ==
  ASSUME NEW w, NEW type, Encoding(w, type), w.h264.barrier = 0
  PROVE  LET v == DestroyAllContexts(NotReset(w))
         IN  Encoding(v, type) /\ Aside(w, v) /\ v.h264.barrier = 0
<1> DEFINE y == NotReset(w)
           h == w.h264
           v == DestroyAllContexts(y)
<1>1. /\ DOMAIN w = WorldFields /\ DOMAIN h = HFields /\ h.ref = 1
      /\ ContextsOk(h.contexts, w.backEnds) /\ BarrierOk(w.backEnds, 0)
  BY DEF Encoding, H264Ok
<1>2. /\ DOMAIN y = WorldFields /\ Only(w, y, {"h264", "backEnds"})
      /\ y.backEnds = w.backEnds /\ y.h264 = [h EXCEPT !.fullReset = FALSE]
  BY <1>1 DEF NotReset, WorldFields, Only
<1>3. /\ DOMAIN y.h264 = HFields /\ y.h264.contexts = h.contexts /\ y.h264.ref = 1
      /\ y.h264.barrier = 0
  BY <1>1, <1>2 DEF HFields
<1> HIDE DEF y
<1>4. Touched(h.contexts, y.h264.contexts)
  BY <1>1, <1>3 DEF Touched, ContextsOk
<1>4a. /\ y.h264.barrier \in Nat /\ BarrierOk(w.backEnds, y.h264.barrier)
       /\ DOMAIN y.h264 = HFields /\ y.h264.ref = 1
  BY <1>1, <1>3
<1>4b. DOMAIN y = WorldFields /\ Only(w, y, {"h264", "backEnds"}) /\ y.backEnds = w.backEnds
  BY <1>2
<1>5. Encoding(y, type) /\ Aside(w, y)
  BY <1>4, <1>4a, <1>4b, Touches
<1>6. /\ DOMAIN v = WorldFields /\ Only(y, v, {"h264", "backEnds"})
      /\ WithContexts(v.h264, y.h264, << >>)
      /\ PoolOk(v.backEnds, v.works, type) /\ NoneInUse(v.backEnds)
  BY <1>5, DestroysAll
<1> HIDE DEF v
<1>7. /\ DOMAIN v.h264 = HFields /\ v.h264.contexts = << >> /\ v.h264.ref = 1
      /\ v.h264.barrier = 0
  BY <1>3, <1>6 DEF WithContexts, HFields
<1>8. BarrierOk(v.backEnds, 0) /\ ContextsOk(<< >>, v.backEnds)
  BY <1>6, NoneInUseOk
<1>9. H264Ok(v.h264, v.backEnds, type)
  BY <1>7, <1>8 DEF H264Ok
<1>10. Aside(y, v)
  BY <1>5, <1>6, OnlyAside DEF Encoding
<1>11. Encoding(v, type)
  BY <1>6, <1>9, <1>10 DEF Encoding, Aside
<1> QED
  BY <1>5, <1>7, <1>10, <1>11, AsideTrans DEF v, y

LEMMA FinishesH264 ==
  ASSUME NStreams \in Nat,
         NEW w, WorldOk(w, 0, 0, backEndType), w.h264 # None, w.h264.barrier = 0,
         NEW c, Chosen(c)
  PROVE  WorldOk(H264FinishFrame(w, c), 0, 0, backEndType)
<1> DEFINE u == Clear(w)
           x == DestroyAllContexts(NotReset(u))
           y == IF w.h264.fullReset THEN x ELSE u
           v == H264FinishFrame(w, c)
<1>1. v = FinishFrame(y, H264Result(w.h264), c)
  BY DEF H264FinishFrame, Clear, NotReset
<1>2. Encoding(w, backEndType)
  BY WorldEncoding
<1>3. Encoding(u, backEndType) /\ Aside(w, u) /\ u.h264.barrier = 0
  BY <1>2, Clears
<1> HIDE DEF u
<1>4. Encoding(x, backEndType) /\ Aside(u, x) /\ x.h264.barrier = 0
  BY <1>3, Resets
<1> HIDE DEF x
<1>5. Encoding(y, backEndType) /\ Aside(w, y) /\ y.h264.barrier = 0
  <2>1. CASE w.h264.fullReset
    BY <1>3, <1>4, <2>1, AsideTrans
  <2>2. CASE ~w.h264.fullReset
    BY <1>3, <2>2
  <2> QED
    BY <2>1, <2>2
<1> HIDE DEF y, v
<1>7. WorldOk(y, 0, 0, backEndType)
  BY <1>5, EngineChanges
<1>8. w.client.encoder = "h264" /\ w.client.open
  BY DEF WorldOk, ClientOk
<1>9. y.client.encoder = "h264" /\ y.client.open
  BY <1>5, <1>8 DEF Aside
<1>10. Quiet(y.works)
  BY <1>7, <1>9 DEF WorldOk, Flight, Quiet
<1>11. Idle(y, 0, 0, backEndType)
  BY <1>5, <1>7, <1>9, <1>10 DEF Idle
<1> QED
  BY <1>1, <1>7, <1>9, <1>11, FinishesFrame DEF v

(* open_h264_handle_packet, of a packet that the back end b has handed      *)
(* over: frame_barrier counts it still.                                     *)
InHand(w, b) ==
  /\ WorldOk(w, 0, 0, backEndType)
  /\ w.h264 # None
  /\ \E i \in DOMAIN w.h264.contexts :
       w.h264.contexts[i].id = b /\ ~w.h264.contexts[i].qualityChanged
  /\ w.h264.barrier - 1 \in Nat
  /\ BarrierOk(w.backEnds, w.h264.barrier - 1)

Handed(w, i, packet) ==
  [w EXCEPT !.h264 = [w.h264 EXCEPT !.contexts[i].pending = Append(@, packet),
                                    !.barrier = @ - 1]]

LEMMA Hands ==
  ASSUME NEW w, NEW type, Encoding(w, type), NEW i \in DOMAIN w.h264.contexts,
         w.h264.barrier - 1 \in Nat, BarrierOk(w.backEnds, w.h264.barrier - 1), NEW packet
  PROVE  LET v == Handed(w, i, packet)
         IN  Encoding(v, type) /\ Aside(w, v) /\ v.h264.barrier = w.h264.barrier - 1
<1> DEFINE v == Handed(w, i, packet)
           h == w.h264
           cs == h.contexts
           d == [cs[i] EXCEPT !.pending = Append(cs[i].pending, packet)]
           ds == [cs EXCEPT ![i] = d]
<1>1. /\ DOMAIN w = WorldFields /\ DOMAIN h = HFields /\ h.ref = 1
      /\ ContextsOk(cs, w.backEnds) /\ IsSequence(cs)
  BY DEF Encoding, H264Ok, ContextsOk
<1>2. /\ DOMAIN v = WorldFields /\ Only(w, v, {"h264", "backEnds"})
      /\ v.backEnds = w.backEnds /\ v.client = w.client
      /\ v.h264 = [h EXCEPT !.contexts = ds, !.barrier = h.barrier - 1]
  BY <1>1 DEF Handed, WorldFields, Only, HFields
<1> HIDE DEF ds
<1>3. /\ DOMAIN v.h264 = HFields /\ v.h264.contexts = ds /\ v.h264.ref = h.ref
      /\ v.h264.barrier = h.barrier - 1
  BY <1>1, <1>2 DEF HFields
<1> HIDE DEF v
<1>4. \A j \in DOMAIN cs : DOMAIN cs[j] = CtxFields
  BY <1>1 DEF ContextsOk
<1>5. /\ DOMAIN d = CtxFields /\ d.id = cs[i].id /\ d.x = cs[i].x /\ d.w = cs[i].w
      /\ d.qualityChanged = cs[i].qualityChanged
  BY <1>4 DEF CtxFields
<1> HIDE DEF d
<1>6. Replaced(cs, ds, i, d)
  BY <1>1, ReplacedIs DEF ds
<1>7. Touched(cs, ds)
  BY <1>4, <1>5, <1>6 DEF Touched, Replaced
<1>8. /\ v.h264.barrier \in Nat /\ BarrierOk(w.backEnds, v.h264.barrier)
      /\ v.h264.ref = 1
  BY <1>1, <1>3
<1>9. Encoding(v, type) /\ Aside(w, v)
  BY <1>2, <1>3, <1>7, <1>8, Touches
<1> QED
  BY <1>3, <1>9 DEF v

LEMMA HandlesPacket ==
  ASSUME NStreams \in Nat, \A comp \in Composites : IsComposite(comp),
         NEW w, NEW b, InHand(w, b), NEW packet,
         NEW c \in Outcomes(w)
  PROVE  WorldOk(HandlePacket(w, b, packet, c), 0, 0, backEndType)
<1> DEFINE cs == w.h264.contexts
           at == CHOOSE i \in DOMAIN cs : cs[i].id = b
           u == Handed(w, at, packet)
           v == HandlePacket(w, b, packet, c)
<1>1. /\ WorldOk(w, 0, 0, backEndType) /\ w.h264 # None
      /\ w.h264.barrier - 1 \in Nat /\ BarrierOk(w.backEnds, w.h264.barrier - 1)
  BY DEF InHand
<1>2. Encoding(w, backEndType)
  BY <1>1, WorldEncoding
<1>3. PICK i \in DOMAIN cs : cs[i].id = b /\ ~cs[i].qualityChanged
  BY DEF InHand
<1>4. at \in DOMAIN cs
  BY <1>3
<1>5. v = IF u.h264.barrier # 0 THEN u ELSE H264FinishFrame(u, c)
  BY DEF HandlePacket, Handed
<1> HIDE DEF at
<1>6. /\ Encoding(u, backEndType) /\ Aside(w, u)
      /\ u.h264.barrier = w.h264.barrier - 1
  BY <1>1, <1>2, <1>4, Hands
<1> HIDE DEF u, v
<1>7. w.client.updating /\ w.client.encoder = "h264" /\ w.client.open
  <2>1. w.h264.barrier # 0
    BY <1>1
  <2> QED
    BY <1>1, <2>1 DEF WorldOk, ClientOk
<1>8. WorldOk(u, 0, 0, backEndType)
  <2>1. u.client.updating
    BY <1>6, <1>7 DEF Aside
  <2>2. WorldOk(w, 0, 0, backEndType) /\ w.h264 # None
    BY <1>1
  <2>3. Encoding(u, backEndType) /\ Aside(w, u)
    BY <1>6
  <2> QED
    BY <2>1, <2>2, <2>3, EngineChanges
<1>9. u.h264 # None
  BY <1>6, <1>7, <1>8 DEF WorldOk, Aside
<1>10. CASE u.h264.barrier # 0
  BY <1>5, <1>8, <1>10 DEF v
<1>11. CASE u.h264.barrier = 0
  <2>1. v = H264FinishFrame(u, c)
    BY <1>5, <1>11
  <2>2. Chosen(c)
    BY <1>7, OutcomesAre
  <2> QED
    BY <1>8, <1>9, <1>11, <2>1, <2>2, FinishesH264 DEF v
<1> QED
  BY <1>10, <1>11

-----------------------------------------------------------------------------
(* The inductive invariant, and the steps of the application, the client    *)
(* and its messages.                                                        *)
Safe == WorldOk(World, 0, 0, backEndType)

LEMMA WorldIs ==
  /\ DOMAIN World = WorldFields
  /\ World.raw = raw /\ World.tight = tight /\ World.h264 = h264
  /\ World.backEnds = backEnds /\ World.works = works /\ World.client = client
  /\ World.peer = peer /\ World.fault = fault
BY DEF World, WorldFields

LEMMA BecomesSafe ==
  ASSUME NEW w, WorldOk(w, 0, 0, backEndType), Becomes(w)
  PROVE  Safe'
<1> DEFINE z == World'
<1>1. /\ raw' = w.raw /\ tight' = w.tight /\ h264' = w.h264
      /\ backEnds' = w.backEnds /\ works' = w.works
      /\ client' = w.client /\ fault' = w.fault /\ backEndType' = backEndType
  BY DEF Becomes
<1>2. /\ DOMAIN z = WorldFields /\ z.raw = w.raw /\ z.tight = w.tight /\ z.h264 = w.h264
      /\ z.backEnds = w.backEnds /\ z.works = w.works /\ z.client = w.client
      /\ z.fault = w.fault
  BY <1>1 DEF World, WorldFields
<1> HIDE DEF z
<1>3. WorldOk(z, 0, 0, backEndType)
  BY <1>2 DEF WorldOk, Refs
<1>4. WorldOk(z, 0, 0, backEndType')
  BY <1>1, <1>3
<1> QED
  BY <1>4 DEF Safe, z

LEMMA EncodeFrameSafe ==
  ASSUME NStreams \in Nat, Safe, NEW kind \in {"raw", "tight", "h264"},
         NEW comp, IsComposite(comp), NEW damage, EncodeFrame(kind, comp, damage)
  PROVE  Safe'
<1>1. client.open /\ ~client.updating /\ Becomes(Encode(World, kind, comp, damage))
  BY DEF EncodeFrame
<1>2. WorldOk(World, 0, 0, backEndType)
  BY DEF Safe
<1>3. Idle(World, 0, 0, backEndType)
  <2>1. World.client.open /\ ~World.client.updating
    BY <1>1, WorldIs
  <2>2. Quiet(World.works)
    BY <1>2, <2>1 DEF WorldOk, Flight, Quiet
  <2> QED
    BY <1>2, <2>1, <2>2 DEF Idle, WorldOk
<1>4. WorldOk(Encode(World, kind, comp, damage), 0, 0, backEndType)
  BY <1>3, Encodes
<1> QED
  BY <1>1, <1>4, BecomesSafe

LEMMA CloseClientSafe ==
  ASSUME Safe, CloseClient
  PROVE  Safe'
<1>1. WorldOk(Close(World), 0, 0, backEndType)
  BY Closes DEF Safe
<1> QED
  BY <1>1, BecomesSafe DEF CloseClient

LEMMA SetQualitySafe ==
  ASSUME Safe, NEW q, SetQuality(q)
  PROVE  Safe'
<1> DEFINE w == World
           v == [w EXCEPT !.client.quality = q]
<1>1. Becomes(v)
  BY DEF SetQuality
<1>2. DOMAIN w = WorldFields /\ WorldOk(w, 0, 0, backEndType)
  BY WorldIs DEF Safe
<1> HIDE DEF w
<1>3. DOMAIN w.client = ClientFields /\ w.client.updating \in BOOLEAN
  BY <1>2 DEF WorldOk, ClientOk
<1>4. /\ DOMAIN v = WorldFields /\ Only(w, v, {"client", "peer"})
      /\ v.client = [w.client EXCEPT !.quality = q]
  BY <1>2 DEF WorldFields, Only
<1> HIDE DEF v
<1>5. /\ DOMAIN v.client = ClientFields /\ v.client.open = w.client.open
      /\ v.client.encoder = w.client.encoder /\ v.client.keepsTight = w.client.keepsTight
      /\ v.client.updating = w.client.updating
  BY <1>3, <1>4 DEF ClientFields
<1>6. WorldOk(v, 0, 0, backEndType)
  BY <1>2, <1>3, <1>4, <1>5, ClientChanges
<1> QED
  BY <1>1, <1>6, BecomesSafe

-----------------------------------------------------------------------------
(* Steps of the back ends: those in use stay so, and get no more to do. *)
NoBusier(bs, cs) ==
  /\ DOMAIN cs = DOMAIN bs
  /\ \A b \in DOMAIN bs : /\ InUse(cs[b]) = InUse(bs[b])
                          /\ InUse(bs[b]) => Load(cs[b]) <= Load(bs[b])

(* Works other than those of FFmpeg are the same. *)
SameJobs(ks, js) ==
  /\ Kinds(js)
  /\ \A kind \in {"raw", "tight", "finish"} : Of(js, kind) = Of(ks, kind)

LEMMA NoBusierBarrier ==
  ASSUME NEW bs, NEW cs, NEW ks, NEW js, NEW type, PoolOk(bs, ks, type), PoolOk(cs, js, type),
         NoBusier(bs, cs), NEW m \in Nat, BarrierOk(bs, m)
  PROVE  BarrierOk(cs, m)
<1>1. \A b \in Nat : Due(bs, b) \in Nat /\ Due(cs, b) \in Nat
  BY DueIs
<1>2. ASSUME NEW b \in Nat PROVE Due(cs, b) <= Due(bs, b)
  <2>1. CASE b \in DOMAIN bs /\ InUse(bs[b])
    BY <2>1 DEF NoBusier, Due
  <2>2. CASE ~(b \in DOMAIN bs /\ InUse(bs[b]))
    BY <2>2 DEF NoBusier, Due
  <2> QED
    BY <2>1, <2>2
<1> QED
  BY <1>1, <1>2, NoMoreDue

LEMMA NoBusierH264 ==
  ASSUME NEW bs, NEW cs, NEW ks, NEW js, NEW type, PoolOk(bs, ks, type), PoolOk(cs, js, type),
         NoBusier(bs, cs), NEW h, H264Ok(h, bs, type)
  PROVE  H264Ok(h, cs, type)
<1>1. \A b \in DOMAIN bs : Load(bs[b]) \in Nat /\ Load(cs[b]) \in Nat
  BY LoadIs DEF PoolOk, NoBusier
<1>2. ContextsOk(h.contexts, bs) /\ h.barrier \in Nat /\ BarrierOk(bs, h.barrier)
  BY DEF H264Ok
<1>3. ContextsOk(h.contexts, cs)
  <2>1. ASSUME NEW b \in DOMAIN bs, InUse(bs[b]), Load(cs[b]) # 0 PROVE Load(bs[b]) # 0
    BY <1>1, <2>1 DEF NoBusier
  <2>2. DOMAIN cs = DOMAIN bs /\ \A b \in DOMAIN bs : InUse(cs[b]) = InUse(bs[b])
    BY DEF NoBusier
  <2>3. ASSUME NEW i \in DOMAIN h.contexts
        PROVE  /\ DOMAIN h.contexts[i] = CtxFields
               /\ h.contexts[i].id \in DOMAIN cs
               /\ InUse(cs[h.contexts[i].id])
               /\ Load(cs[h.contexts[i].id]) # 0 => ~h.contexts[i].qualityChanged
    BY <1>2, <2>1, <2>2, <2>3 DEF ContextsOk
  <2>4. \A b \in DOMAIN cs : InUse(cs[b]) => b \in Ids(h.contexts)
    BY <1>2, <2>2 DEF ContextsOk
  <2> QED
    BY <1>2, <2>3, <2>4 DEF ContextsOk
<1>4. BarrierOk(cs, h.barrier)
  BY <1>2, NoBusierBarrier
<1> QED
  BY <1>3, <1>4 DEF H264Ok

LEMMA EndsChange ==
  ASSUME NEW w, NEW hr, NEW ht, NEW type, WorldOk(w, hr, ht, type),
         NEW v, DOMAIN v = WorldFields, Only(w, v, {"backEnds", "works"}),
         SameJobs(w.works, v.works), PoolOk(v.backEnds, v.works, type),
         NoBusier(w.backEnds, v.backEnds)
  PROVE  WorldOk(v, hr, ht, type)
<1> DEFINE h == w.h264
<1>1. /\ v.raw = w.raw /\ v.tight = w.tight /\ v.h264 = h
      /\ v.client = w.client /\ v.fault = w.fault
  BY DEF Only, WorldFields
<1>2. /\ Of(v.works, "raw") = Of(w.works, "raw")
      /\ Of(v.works, "tight") = Of(w.works, "tight")
      /\ Of(v.works, "finish") = Of(w.works, "finish")
  BY DEF SameJobs
<1>3. Refs(v, Bit(v.client.encoder = "raw") + hr,
              Bit(v.client.encoder = "tight") + (Bit(v.client.keepsTight) + ht))
  <2>1. Refs(w, Bit(v.client.encoder = "raw") + hr,
                Bit(v.client.encoder = "tight") + (Bit(v.client.keepsTight) + ht))
    BY <1>1 DEF WorldOk
  <2> QED
    BY <1>1, <1>2, <2>1 DEF Refs, RawOk, TightOk, JobsOk, SameJobs
<1>4. Flight(v.works, v.client)
  BY <1>1, <1>2 DEF WorldOk, Flight
<1>5. /\ PoolOk(w.backEnds, w.works, type)
      /\ h = None => NoneInUse(w.backEnds)
      /\ h # None => H264Ok(h, w.backEnds, type)
  BY DEF WorldOk, EngineOk
<1> HIDE DEF h
<1>6. h = None => NoneInUse(v.backEnds)
  BY <1>5 DEF NoneInUse, NoBusier
<1>7. h # None => H264Ok(h, v.backEnds, type)
  BY <1>5, NoBusierH264
<1>8. EngineOk(v.h264, v.backEnds, v.works, type)
  BY <1>1, <1>6, <1>7 DEF EngineOk
<1> QED
  BY <1>1, <1>3, <1>4, <1>8 DEF WorldOk, h

(* encoder_request_key_frame. *)
LEMMA RequestKeyFrameSafe ==
  ASSUME Safe, RequestKeyFrame
  PROVE  Safe'
<1> DEFINE w == World
           ids == {h264.contexts[i].id : i \in DOMAIN h264.contexts}
           bs == w.backEnds
           cs == [b \in DOMAIN bs |->
             IF b \in ids THEN [bs[b] EXCEPT !.nextKey = TRUE, !.asked = TRUE] ELSE bs[b]]
           v == [w EXCEPT !.backEnds = cs]
<1>1. Becomes(v)
  BY DEF RequestKeyFrame
<1>2. DOMAIN w = WorldFields /\ WorldOk(w, 0, 0, backEndType)
  BY WorldIs DEF Safe
<1> HIDE DEF w, ids
<1>3. /\ DOMAIN v = WorldFields /\ Only(w, v, {"backEnds", "works"})
      /\ v.works = w.works /\ v.backEnds = cs
  BY <1>2 DEF WorldFields, Only
<1> HIDE DEF v
<1>4. Kinds(w.works) /\ PoolOk(bs, w.works, backEndType)
  BY <1>2 DEF WorldOk, Refs, EngineOk
<1>5. IsSequence(cs) /\ DOMAIN cs = DOMAIN bs
  BY <1>4, MappedIs DEF PoolOk
<1>6. ASSUME NEW b \in DOMAIN bs
      PROVE  /\ BackEndOk(cs[b], backEndType) /\ cs[b].cur = bs[b].cur
             /\ InUse(cs[b]) = InUse(bs[b]) /\ Load(cs[b]) = Load(bs[b])
  <2> DEFINE e == bs[b]
             d == [e EXCEPT !.nextKey = TRUE, !.asked = TRUE]
  <2>1. BackEndOk(e, backEndType)
    BY <1>4 DEF PoolOk
  <2>2. cs[b] = d \/ cs[b] = e
    OBVIOUS
  <2>3. /\ DOMAIN d = BackFields /\ d.cur = e.cur /\ d.queue = e.queue
        /\ d.type = e.type /\ d.device = e.device /\ d.ready = e.ready
        /\ d.live = e.live /\ d.pleaseDestroy = e.pleaseDestroy
    BY <2>1 DEF BackEndOk, BackFields
  <2> HIDE DEF e, d, cs
  <2>4. BackEndOk(d, backEndType)
    BY <2>1, <2>3 DEF BackEndOk
  <2>5. InUse(d) = InUse(e) /\ Load(d) = Load(e)
    BY <2>3 DEF InUse, Load, Working
  <2> QED
    BY <2>1, <2>2, <2>3, <2>4, <2>5 DEF e
<1> HIDE DEF cs
<1>7. PoolOk(cs, w.works, backEndType)
  BY <1>4, <1>5, <1>6 DEF PoolOk
<1>8. \A b \in DOMAIN bs : Load(bs[b]) \in Nat
  BY <1>4, LoadIs DEF PoolOk
<1>9. NoBusier(bs, cs)
  BY <1>5, <1>6, <1>8 DEF NoBusier
<1>10. SameJobs(w.works, v.works)
  BY <1>3, <1>4 DEF SameJobs
<1>11. WorldOk(v, 0, 0, backEndType)
  BY <1>2, <1>3, <1>7, <1>9, <1>10, EndsChange
<1> QED
  BY <1>1, <1>11, BecomesSafe

(* nvnc__reset_encoders. *)
LEMMA ResetEncoderSafe ==
  ASSUME Safe, ResetEncoder
  PROVE  Safe'
<1> DEFINE w == World
           v == [w EXCEPT !.h264.fullReset = TRUE]
<1>1. Becomes(v) /\ w.client.encoder = "h264"
  BY WorldIs DEF ResetEncoder
<1>2. DOMAIN w = WorldFields /\ WorldOk(w, 0, 0, backEndType)
  BY WorldIs DEF Safe
<1> HIDE DEF w
<1>3. w.h264 # None
  BY <1>1, <1>2 DEF WorldOk
<1>4. Encoding(w, backEndType)
  BY <1>2, <1>3, WorldEncoding
<1>5. /\ DOMAIN w.h264 = HFields /\ w.h264.ref = 1 /\ w.h264.barrier \in Nat
      /\ BarrierOk(w.backEnds, w.h264.barrier) /\ ContextsOk(w.h264.contexts, w.backEnds)
  BY <1>4 DEF Encoding, H264Ok
<1>6. /\ DOMAIN v = WorldFields /\ Only(w, v, {"h264", "backEnds"})
      /\ v.backEnds = w.backEnds /\ v.client = w.client
      /\ v.h264 = [w.h264 EXCEPT !.fullReset = TRUE]
  BY <1>2 DEF WorldFields, Only
<1> HIDE DEF v
<1>7. /\ DOMAIN v.h264 = HFields /\ v.h264.contexts = w.h264.contexts
      /\ v.h264.ref = w.h264.ref /\ v.h264.barrier = w.h264.barrier
  BY <1>5, <1>6 DEF HFields
<1>8. /\ Touched(w.h264.contexts, v.h264.contexts) /\ v.h264.ref = 1
      /\ v.h264.barrier \in Nat /\ BarrierOk(w.backEnds, v.h264.barrier)
  BY <1>5, <1>7 DEF Touched, ContextsOk
<1>9. Encoding(v, backEndType) /\ Aside(w, v)
  <2>1. DOMAIN v = WorldFields /\ Only(w, v, {"h264", "backEnds"}) /\ v.backEnds = w.backEnds
    BY <1>6
  <2> QED
    BY <1>4, <1>7, <1>8, <2>1, Touches
<1>10. v.client.updating \/ v.h264.barrier = 0
  BY <1>2, <1>3, <1>6, <1>7 DEF WorldOk
<1>11. WorldOk(v, 0, 0, backEndType)
  BY <1>2, <1>3, <1>9, <1>10, EngineChanges
<1> QED
  BY <1>1, <1>11, BecomesSafe

-----------------------------------------------------------------------------
(* The worker is done with a work. *)
Done(work) == [work EXCEPT !.stage = "done"]

Staged(ks, js, work) ==
  /\ Kinds(js)
  /\ Done(work).of = work.of /\ DOMAIN Done(work) = DOMAIN work
  /\ \A kind : kind # work.of => Of(js, kind) = Of(ks, kind)
  /\ Of(js, work.of) = (Of(ks, work.of) \ {work}) \cup {Done(work)}

LEMMA StageIs ==
  ASSUME Kinds(works), NEW work \in works
  PROVE  Staged(works, Stage(work), work) /\ work \in Of(works, work.of)
<1> DEFINE d == Done(work)
<1>1. {"of", "stage"} \subseteq DOMAIN work /\ work.of \in {"raw", "tight", "finish", "ffmpeg"}
  BY DEF Kinds
<1>2. DOMAIN d = DOMAIN work /\ d.of = work.of
  BY <1>1 DEF Done
<1>3. Stage(work) = (works \ {work}) \cup {d}
  BY DEF Stage, Done
<1> HIDE DEF d
<1>4. Kinds(Stage(work))
  BY <1>1, <1>2, <1>3 DEF Kinds
<1>5. \A kind : kind # work.of => Of(Stage(work), kind) = Of(works, kind)
  BY <1>2, <1>3 DEF Of
<1>6. Of(Stage(work), work.of) = (Of(works, work.of) \ {work}) \cup {d}
  BY <1>2, <1>3 DEF Of
<1> QED
  BY <1>2, <1>4, <1>5, <1>6 DEF Staged, Of, d

LEMMA RawStaged ==
  ASSUME NEW r, NEW ks, NEW js, NEW rn, RawOk(r, ks, rn),
         NEW work \in Of(ks, "raw"), Staged(ks, js, work)
  PROVE  RawOk(r, js, rn) /\ Of(js, "raw") # {}
<1>1. work.of = "raw"
  BY DEF Of
<1>2. Of(js, "raw") = {Done(work)}
  BY <1>1 DEF Staged, RawOk
<1>3. Bit(Of(js, "raw") # {}) = Bit(Of(ks, "raw") # {})
  BY <1>2 DEF Bit
<1> QED
  BY <1>2, <1>3 DEF RawOk

LEMMA JobStaged ==
  ASSUME NEW ks, NEW js, JobsOk(ks), NEW work \in Of(ks, "tight"), Staged(ks, js, work)
  PROVE  /\ JobsOk(js)
         /\ Cardinality(Of(js, "tight")) = Cardinality(Of(ks, "tight"))
         /\ Of(js, "finish") = {} /\ Of(ks, "finish") = {}
<1> DEFINE T == Of(ks, "tight")
           U == Of(js, "tight")
           d == Done(work)
<1>1. work.of = "tight"
  BY DEF Of
<1>2. /\ IsFiniteSet(T)
      /\ \A k \in T : k = [of |-> "tight", stream |-> k.stream, stage |-> k.stage]
      /\ \A j, k \in T : j.stream = k.stream => j = k
      /\ Of(ks, "finish") = {}
  BY DEF JobsOk
<1>3. U = (T \ {work}) \cup {d} /\ Of(js, "finish") = {}
  BY <1>1, <1>2 DEF Staged
<1>4. d = [of |-> "tight", stream |-> work.stream, stage |-> "done"]
  <2>1. work = [of |-> "tight", stream |-> work.stream, stage |-> work.stage]
    BY <1>2
  <2> QED
    BY <2>1 DEF Done
<1>5. d.stream = work.stream /\ d = [of |-> "tight", stream |-> d.stream, stage |-> d.stage]
  BY <1>4
<1> HIDE DEF T, U, d
<1>6. work \in T
  BY DEF T
<1>7. d \notin T \ {work}
  BY <1>2, <1>5, <1>6
<1>8. IsFiniteSet(T \ {work}) /\ Cardinality(T \ {work}) = Cardinality(T) - 1
  BY <1>2, <1>6, FS_RemoveElement
<1>9. IsFiniteSet(U) /\ Cardinality(U) = Cardinality(T \ {work}) + 1
  BY <1>3, <1>7, <1>8, FS_AddElement
<1>10. Cardinality(T) \in Nat
  BY <1>2, FS_CardinalityType
<1>11. Cardinality(U) = Cardinality(T)
  BY <1>8, <1>9, <1>10
<1>12. \A k \in U : k = [of |-> "tight", stream |-> k.stream, stage |-> k.stage]
  BY <1>2, <1>3, <1>5
<1>13. \A j, k \in U : j.stream = k.stream => j = k
  BY <1>2, <1>3, <1>5, <1>6
<1> QED
  BY <1>2, <1>3, <1>9, <1>11, <1>12, <1>13 DEF JobsOk, T, U

LEMMA FinishStaged ==
  ASSUME NEW ks, NEW js, JobsOk(ks), NEW work \in Of(ks, "finish"), Staged(ks, js, work)
  PROVE  /\ JobsOk(js)
         /\ Of(js, "tight") = Of(ks, "tight")
         /\ Of(js, "finish") # {} /\ Of(ks, "finish") # {}
<1>1. work.of = "finish"
  BY DEF Of
<1>2. Of(js, "tight") = Of(ks, "tight") /\ Of(js, "finish") = {Done(work)}
  BY <1>1 DEF Staged, JobsOk
<1> QED
  BY <1>2 DEF JobsOk

LEMMA TightStaged ==
  ASSUME NEW t, NEW ks, NEW js, NEW tn, TightOk(t, ks, tn), NEW work, Staged(ks, js, work),
         work \in Of(ks, "tight") \cup Of(ks, "finish"),
         NEW u, DOMAIN u = DOMAIN t, u.ref = t.ref, u.nJobs = t.nJobs
  PROVE  TightOk(u, js, tn) /\ Of(js, "tight") \cup Of(js, "finish") # {}
<1>1. t # None /\ DOMAIN t = TightFields
  BY DEF TightOk
<1>2. u # None
  BY <1>1, HasField DEF TightFields
<1>3. /\ JobsOk(js) /\ Cardinality(Of(js, "tight")) = Cardinality(Of(ks, "tight"))
      /\ Of(js, "finish") # {} <=> Of(ks, "finish") # {}
      /\ Of(js, "tight") \cup Of(js, "finish") # {}
  <2>1. CASE work \in Of(ks, "tight")
    <3>1. /\ JobsOk(js) /\ Cardinality(Of(js, "tight")) = Cardinality(Of(ks, "tight"))
          /\ Of(js, "finish") = {} /\ Of(ks, "finish") = {}
      BY <2>1, JobStaged DEF TightOk
    <3>2. Done(work) \in Of(js, "tight")
      BY <2>1 DEF Staged, Of
    <3> QED
      BY <3>1, <3>2
  <2>2. CASE work \in Of(ks, "finish")
    BY <2>2, FinishStaged DEF TightOk
  <2> QED
    BY <2>1, <2>2
<1>4. Bit(Of(js, "finish") # {}) = Bit(Of(ks, "finish") # {})
  BY <1>3 DEF Bit
<1> QED
  BY <1>1, <1>2, <1>3, <1>4 DEF TightOk

LEMMA RunRawSafe ==
  ASSUME Safe, NEW work \in works, RunRaw(work)
  PROVE  Safe'
<1> DEFINE w == World
           js == Stage(work)
           v == [w EXCEPT !.works = js]
<1>1. work.of = "raw" /\ Becomes(v)
  BY DEF RunRaw
<1>2. DOMAIN w = WorldFields /\ w.works = works /\ WorldOk(w, 0, 0, backEndType)
  BY WorldIs DEF Safe
<1> HIDE DEF w, js
<1>3. /\ DOMAIN v = WorldFields /\ Only(w, v, {"raw", "tight", "works"})
      /\ v.works = js /\ v.raw = w.raw /\ v.tight = w.tight
  BY <1>2 DEF WorldFields, Only
<1> HIDE DEF v
<1>4. /\ Kinds(w.works) /\ RawOk(w.raw, w.works, Bit(w.client.encoder = "raw") + 0)
      /\ TightOk(w.tight, w.works,
                 Bit(w.client.encoder = "tight") + (Bit(w.client.keepsTight) + 0))
  BY <1>2 DEF WorldOk, Refs
<1>5. Staged(w.works, js, work) /\ work \in Of(w.works, "raw")
  BY <1>1, <1>2, <1>4, StageIs DEF js
<1>6. /\ RawOk(v.raw, v.works, Bit(w.client.encoder = "raw") + 0)
      /\ Of(v.works, "raw") # {}
  BY <1>3, <1>4, <1>5, RawStaged
<1>7. /\ Of(v.works, "tight") = Of(w.works, "tight")
      /\ Of(v.works, "finish") = Of(w.works, "finish")
      /\ Of(v.works, "ffmpeg") = Of(w.works, "ffmpeg") /\ Kinds(v.works)
  BY <1>1, <1>3, <1>5 DEF Staged
<1>8. TightOk(v.tight, v.works,
              Bit(w.client.encoder = "tight") + (Bit(w.client.keepsTight) + 0))
  BY <1>3, <1>4, <1>7 DEF TightOk, JobsOk
<1>9. Flight(v.works, w.client)
  BY <1>2, <1>5, <1>7 DEF WorldOk, Flight
<1>10. WorldOk(v, 0, 0, backEndType)
  BY <1>2, <1>3, <1>6, <1>7, <1>8, <1>9, RefsChange
<1> QED
  BY <1>1, <1>10, BecomesSafe

(* A step of the tight encoder's workers. *)
LEMMA TightRuns ==
  ASSUME Safe, NEW work \in works, work.of \in {"tight", "finish"},
         NEW v, DOMAIN v = WorldFields, Only(World, v, {"tight", "works"}),
         v.works = works \/ v.works = Stage(work),
         DOMAIN v.tight = DOMAIN tight, v.tight.ref = tight.ref, v.tight.nJobs = tight.nJobs
  PROVE  WorldOk(v, 0, 0, backEndType)
<1> DEFINE w == World
           tn == Bit(w.client.encoder = "tight") + (Bit(w.client.keepsTight) + 0)
<1>1. /\ DOMAIN w = WorldFields /\ w.works = works /\ w.tight = tight
      /\ WorldOk(w, 0, 0, backEndType)
  BY WorldIs DEF Safe
<1>2. Only(w, v, {"raw", "tight", "works"}) /\ v.raw = w.raw
  BY DEF Only, WorldFields
<1> HIDE DEF w
<1>3. /\ Kinds(w.works) /\ RawOk(w.raw, w.works, Bit(w.client.encoder = "raw") + 0)
      /\ TightOk(w.tight, w.works, tn)
  BY <1>1 DEF WorldOk, Refs
<1> HIDE DEF tn
<1>4. /\ Staged(w.works, Stage(work), work)
      /\ work \in Of(w.works, "tight") \cup Of(w.works, "finish")
  BY <1>1, <1>3, StageIs DEF Of
<1>5. w.tight # None /\ DOMAIN w.tight = TightFields /\ v.tight # None
  BY <1>1, <1>3, <1>4, HasField DEF TightOk, TightFields
<1>6. TightOk(v.tight, v.works, tn)
  <2>1. CASE v.works = works
    BY <1>1, <1>3, <1>5, <2>1 DEF TightOk
  <2>2. CASE v.works = Stage(work)
    BY <1>1, <1>3, <1>4, <2>2, TightStaged
  <2> QED
    BY <2>1, <2>2
<1>7. /\ Of(v.works, "raw") = Of(w.works, "raw")
      /\ Of(v.works, "ffmpeg") = Of(w.works, "ffmpeg") /\ Kinds(v.works)
  BY <1>1, <1>3, <1>4 DEF Staged
<1>8. RawOk(v.raw, v.works, Bit(w.client.encoder = "raw") + 0)
  BY <1>2, <1>3, <1>7 DEF RawOk
<1>9. Flight(v.works, w.client)
  BY <1>1, <1>4, <1>7 DEF WorldOk, Flight
<1> QED
  BY <1>1, <1>2, <1>6, <1>7, <1>8, <1>9, RefsChange DEF tn

LEMMA RunTightSafe ==
  ASSUME Safe, NEW work \in works, RunTight(work)
  PROVE  Safe'
<1> DEFINE w == World
           todo == TightTodo(tight, work.stream)
           p == CHOOSE r \in todo : \A q \in todo : r = q \/ Before(r, q)
           v == IF todo = {} THEN [w EXCEPT !.works = Stage(work)]
                ELSE [w EXCEPT !.tight = EncodeTile(@, p)]
<1>1. work.of = "tight" /\ Becomes(v)
  BY DEF RunTight
<1>2. DOMAIN w = WorldFields /\ w.works = works /\ w.tight = tight
  BY WorldIs
<1>3. DOMAIN tight = TightFields
  <2>1. TightOk(w.tight, w.works,
                Bit(w.client.encoder = "tight") + (Bit(w.client.keepsTight) + 0))
    BY DEF Safe, WorldOk, Refs
  <2>2. work \in Of(w.works, "tight")
    BY <1>1, <1>2 DEF Of
  <2> QED
    BY <1>2, <2>1, <2>2 DEF TightOk
<1> HIDE DEF w, todo, p
<1>4. /\ DOMAIN EncodeTile(tight, p) = DOMAIN tight
      /\ EncodeTile(tight, p).ref = tight.ref /\ EncodeTile(tight, p).nJobs = tight.nJobs
  BY <1>3 DEF EncodeTile, TightFields
<1>5. /\ DOMAIN v = WorldFields /\ Only(w, v, {"tight", "works"})
      /\ v.works = works \/ v.works = Stage(work)
      /\ v.tight = tight \/ v.tight = EncodeTile(tight, p)
  <2>1. CASE todo = {}
    BY <1>2, <2>1 DEF WorldFields, Only
  <2>2. CASE todo # {}
    BY <1>2, <2>2 DEF WorldFields, Only
  <2> QED
    BY <2>1, <2>2
<1> HIDE DEF v
<1>6. DOMAIN v.tight = DOMAIN tight /\ v.tight.ref = tight.ref /\ v.tight.nJobs = tight.nJobs
  BY <1>4, <1>5
<1>7. WorldOk(v, 0, 0, backEndType)
  BY <1>1, <1>5, <1>6, TightRuns DEF w
<1> QED
  BY <1>1, <1>7, BecomesSafe

LEMMA RunFinishSafe ==
  ASSUME Safe, NEW work \in works, RunFinish(work)
  PROVE  Safe'
<1> DEFINE w == World
           v == [w EXCEPT
             !.works = Stage(work),
             !.tight.dst = TightRects(tight),
             !.tight.grid = [i \in DOMAIN @ |-> [c \in DOMAIN @[i] |->
                IF @[i][c] = "encoded" THEN "ready" ELSE @[i][c]]]]
<1>1. work.of = "finish" /\ Becomes(v)
  BY DEF RunFinish
<1>2. DOMAIN w = WorldFields /\ w.works = works /\ w.tight = tight
  BY WorldIs
<1>3. DOMAIN tight = TightFields
  <2>1. TightOk(w.tight, w.works,
                Bit(w.client.encoder = "tight") + (Bit(w.client.keepsTight) + 0))
    BY DEF Safe, WorldOk, Refs
  <2>2. work \in Of(w.works, "finish")
    BY <1>1, <1>2 DEF Of
  <2> QED
    BY <1>2, <2>1, <2>2 DEF TightOk
<1> HIDE DEF w
<1>4. /\ DOMAIN v = WorldFields /\ Only(w, v, {"tight", "works"}) /\ v.works = Stage(work)
  BY <1>2 DEF WorldFields, Only
<1>5. DOMAIN v.tight = DOMAIN tight /\ v.tight.ref = tight.ref /\ v.tight.nJobs = tight.nJobs
  BY <1>2, <1>3 DEF WorldFields, TightFields
<1> HIDE DEF v
<1>6. WorldOk(v, 0, 0, backEndType)
  BY <1>1, <1>4, <1>5, TightRuns DEF w
<1> QED
  BY <1>1, <1>6, BecomesSafe

-----------------------------------------------------------------------------
(* The event loop gets a work back: the function that runs then has the     *)
(* work's reference, and gives it back at its end.                          *)
LEMMA RawLetGo ==
  ASSUME NEW w, NEW type, WorldOk(w, 1, 0, type)
  PROVE  WorldOk(Unref(w, "raw"), 0, 0, type)
<1> DEFINE v == Unref(w, "raw")
           rn == Bit(w.client.encoder = "raw")
<1>1. /\ DOMAIN w = WorldFields /\ Kinds(w.works) /\ RawOk(w.raw, w.works, rn + 1)
      /\ TightOk(w.tight, w.works,
                 Bit(w.client.encoder = "tight") + (Bit(w.client.keepsTight) + 0))
      /\ Flight(w.works, w.client)
  BY DEF WorldOk, Refs
<1>2. rn \in Nat /\ rn + 0 = rn
  BY DEF Bit
<1>3. DOMAIN v = WorldFields /\ Only(w, v, {"raw"}) /\ RawOk(v.raw, v.works, rn)
  BY <1>1, <1>2, RawUnref
<1> HIDE DEF v
<1>4. v.works = w.works /\ v.tight = w.tight /\ Only(w, v, {"raw", "tight", "works"})
  BY <1>3 DEF Only, WorldFields
<1>5. RawOk(v.raw, v.works, rn + 0)
  BY <1>2, <1>3
<1> QED
  BY <1>1, <1>3, <1>4, <1>5, RefsChange DEF v

LEMMA TightLetGo ==
  ASSUME NEW w, NEW type, WorldOk(w, 0, 1, type)
  PROVE  WorldOk(Unref(w, "tight"), 0, 0, type)
<1> DEFINE v == Unref(w, "tight")
           a == Bit(w.client.encoder = "tight")
           b == Bit(w.client.keepsTight)
           tn == a + b
<1>1. /\ DOMAIN w = WorldFields /\ Kinds(w.works) /\ TightOk(w.tight, w.works, a + (b + 1))
      /\ RawOk(w.raw, w.works, Bit(w.client.encoder = "raw") + 0)
      /\ Flight(w.works, w.client)
  BY DEF WorldOk, Refs
<1>2. a \in Nat /\ b \in Nat
  BY DEF Bit
<1> HIDE DEF a, b
<1>3. tn \in Nat /\ a + (b + 1) = tn + 1 /\ a + (b + 0) = tn
  BY <1>2
<1>4. TightOk(w.tight, w.works, tn + 1)
  BY <1>1, <1>3
<1> HIDE DEF tn
<1>5. DOMAIN v = WorldFields /\ Only(w, v, {"tight"}) /\ TightOk(v.tight, v.works, tn)
  BY <1>1, <1>3, <1>4, TightUnref
<1> HIDE DEF v
<1>6. v.works = w.works /\ v.raw = w.raw /\ Only(w, v, {"raw", "tight", "works"})
  BY <1>5 DEF Only, WorldFields
<1>7. TightOk(v.tight, v.works, a + (b + 0))
  BY <1>3, <1>5
<1> QED
  BY <1>1, <1>5, <1>6, <1>7, RefsChange DEF v, a, b

(* The works without one of them. *)
Less(ks, js, work) ==
  /\ Kinds(js)
  /\ \A kind : kind # work.of => Of(js, kind) = Of(ks, kind)
  /\ Of(js, work.of) = Of(ks, work.of) \ {work}

LEMMA LessIs ==
  ASSUME NEW ks, Kinds(ks), NEW work \in ks
  PROVE  Less(ks, ks \ {work}, work) /\ work \in Of(ks, work.of)
BY DEF Kinds, Less, Of

(* raw_encoder_on_done. *)
LEMMA RawDoneSafe ==
  ASSUME NStreams \in Nat, \A comp \in Composites : IsComposite(comp),
         Safe, NEW work \in works, RawDone(work)
  PROVE  Safe'
<1> DEFINE z == World
           js == works \ {work}
           w == [z EXCEPT !.works = @ \ {work}, !.raw.work = FALSE]
           rects == RawRects(work)
           result == [n |-> Len(rects), rects |-> rects, resetAll |-> FALSE,
                      frame |-> work.frame, comp |-> work.comp, damage |-> work.damage]
<1>1. /\ work.of = "raw"
      /\ \E c \in Outcomes(w) : Becomes(Unref(FinishFrame(w, result, c), "raw"))
  BY DEF RawDone
<1>2. PICK c \in Outcomes(w) : Becomes(Unref(FinishFrame(w, result, c), "raw"))
  BY <1>1
<1> HIDE DEF result
<1>3. /\ DOMAIN z = WorldFields /\ z.works = works /\ WorldOk(z, 0, 0, backEndType)
  BY WorldIs DEF Safe
<1> HIDE DEF z
<1>4. /\ DOMAIN w = WorldFields /\ Only(z, w, {"raw", "tight", "works"})
      /\ w.works = js /\ w.tight = z.tight /\ w.raw = [z.raw EXCEPT !.work = FALSE]
      /\ w.client = z.client /\ w.h264 = z.h264
  BY <1>3 DEF WorldFields, Only
<1> HIDE DEF w
<1>5. /\ Kinds(z.works) /\ RawOk(z.raw, z.works, Bit(z.client.encoder = "raw") + 0)
      /\ TightOk(z.tight, z.works,
                 Bit(z.client.encoder = "tight") + (Bit(z.client.keepsTight) + 0))
      /\ Flight(z.works, z.client)
  BY <1>3 DEF WorldOk, Refs
<1>6. Less(z.works, js, work) /\ work \in Of(z.works, "raw")
  BY <1>1, <1>3, <1>5, LessIs
<1> HIDE DEF js
<1>7. /\ Of(w.works, "raw") = {} /\ Of(w.works, "tight") = Of(z.works, "tight")
      /\ Of(w.works, "finish") = Of(z.works, "finish")
      /\ Of(w.works, "ffmpeg") = Of(z.works, "ffmpeg") /\ Kinds(w.works)
  BY <1>1, <1>4, <1>5, <1>6 DEF Less, RawOk
<1>8. RawOk(w.raw, w.works, Bit(z.client.encoder = "raw") + 1)
  <2>1. /\ DOMAIN z.raw = {"ref", "work"}
        /\ z.raw.ref = Bit(Of(z.works, "raw") # {}) + (Bit(z.client.encoder = "raw") + 0)
    BY <1>5, <1>6 DEF RawOk
  <2>2. DOMAIN w.raw = {"ref", "work"} /\ w.raw.ref = z.raw.ref
    BY <1>4, <2>1
  <2>3. Bit(Of(z.works, "raw") # {}) = 1 /\ Bit(Of(w.works, "raw") # {}) = 0
    BY <1>6, <1>7 DEF Bit
  <2>4. Bit(z.client.encoder = "raw") \in Nat
    BY DEF Bit
  <2>5. /\ w.raw.ref = Bit(Of(w.works, "raw") # {}) + (Bit(z.client.encoder = "raw") + 1)
        /\ w.raw.ref # 0
    BY <2>1, <2>2, <2>3, <2>4
  <2>6. w.raw # None
    BY <2>2, HasField
  <2> QED
    BY <1>7, <2>2, <2>5, <2>6 DEF RawOk
<1>9. TightOk(w.tight, w.works,
              Bit(z.client.encoder = "tight") + (Bit(z.client.keepsTight) + 0))
  BY <1>4, <1>5, <1>7 DEF TightOk, JobsOk
<1>10. Flight(w.works, z.client)
  BY <1>5, <1>7 DEF Flight
<1>11. WorldOk(w, 1, 0, backEndType)
  BY <1>3, <1>4, <1>7, <1>8, <1>9, <1>10, RefsChange
<1>12. ASSUME w.client.open PROVE Chosen(c) /\ Idle(w, 1, 0, backEndType)
  <2>1. z.client.encoder = "raw"
    BY <1>4, <1>5, <1>6, <1>12 DEF Flight
  <2>2. Quiet(w.works)
    BY <1>4, <1>7, <1>10, <1>12, <2>1 DEF Flight, Quiet
  <2>3. w.h264 = None
    BY <1>3, <1>4, <2>1 DEF WorldOk
  <2>4. Chosen(c)
    BY <1>2, <1>12, OutcomesAre
  <2> QED
    BY <1>4, <1>11, <1>12, <2>1, <2>2, <2>3, <2>4 DEF Idle
<1>13. WorldOk(FinishFrame(w, result, c), 1, 0, backEndType)
  BY <1>11, <1>12, FinishesFrame
<1>14. WorldOk(Unref(FinishFrame(w, result, c), "raw"), 0, 0, backEndType)
  BY <1>13, RawLetGo
<1> QED
  BY <1>2, <1>14, BecomesSafe

(* on_tight_zs_work_done: when the last job is done, the encoder is         *)
(* finished by a work that has a reference of its own.                      *)
LEMMA TightJobDoneSafe ==
  ASSUME Safe, NEW work \in works, TightJobDone(work)
  PROVE  Safe'
<1> DEFINE z == World
           js == works \ {work}
           w == [z EXCEPT !.works = @ \ {work}, !.tight.nJobs = @ - 1]
           v == IF w.tight.nJobs # 0 THEN w ELSE ScheduleTightFinish(w)
           a == Bit(z.client.encoder = "tight")
           b == Bit(z.client.keepsTight)
<1>1. work.of = "tight" /\ Becomes(Unref(v, "tight"))
  BY DEF TightJobDone
<1>2. /\ DOMAIN z = WorldFields /\ z.works = works /\ WorldOk(z, 0, 0, backEndType)
  BY WorldIs DEF Safe
<1> HIDE DEF z
<1>3. /\ Kinds(z.works) /\ RawOk(z.raw, z.works, Bit(z.client.encoder = "raw") + 0)
      /\ TightOk(z.tight, z.works, a + (b + 0))
      /\ Flight(z.works, z.client)
  BY <1>2 DEF WorldOk, Refs
<1>4. a \in Nat /\ b \in Nat
  BY DEF Bit
<1> HIDE DEF a, b
<1>5. Less(z.works, js, work) /\ work \in Of(z.works, "tight")
  BY <1>1, <1>2, <1>3, LessIs
<1>6. /\ z.tight # None /\ DOMAIN z.tight = TightFields
      /\ z.tight.nJobs = Cardinality(Of(z.works, "tight"))
      /\ z.tight.ref = z.tight.nJobs + Bit(Of(z.works, "finish") # {}) + (a + (b + 0))
      /\ JobsOk(z.works)
  BY <1>3, <1>5 DEF TightOk
<1>7. /\ DOMAIN w = WorldFields /\ Only(z, w, {"raw", "tight", "works"})
      /\ w.works = js /\ w.raw = z.raw
      /\ w.tight = [z.tight EXCEPT !.nJobs = z.tight.nJobs - 1]
  BY <1>2 DEF WorldFields, Only
<1>8. DOMAIN w.tight = TightFields /\ w.tight.nJobs = z.tight.nJobs - 1
      /\ w.tight.ref = z.tight.ref
  BY <1>6, <1>7 DEF TightFields
<1> HIDE DEF w, js
<1> DEFINE T == Of(w.works, "tight")
<1>9. /\ Of(w.works, "raw") = Of(z.works, "raw") /\ T = Of(z.works, "tight") \ {work}
      /\ Of(w.works, "finish") = Of(z.works, "finish")
      /\ Of(w.works, "ffmpeg") = Of(z.works, "ffmpeg") /\ Kinds(w.works)
  BY <1>1, <1>5, <1>7 DEF Less
<1>10. Of(z.works, "finish") = {} /\ Of(w.works, "finish") = {}
  BY <1>5, <1>6, <1>9 DEF JobsOk
<1>11. /\ IsFiniteSet(T) /\ Cardinality(T) \in Nat
       /\ Cardinality(T) = z.tight.nJobs - 1
       /\ z.tight.nJobs \in Nat
  <2>1. IsFiniteSet(Of(z.works, "tight"))
    BY <1>6 DEF JobsOk
  <2>2. IsFiniteSet(T) /\ Cardinality(T) = Cardinality(Of(z.works, "tight")) - 1
    BY <1>5, <1>9, <2>1, FS_RemoveElement
  <2> QED
    BY <1>6, <2>1, <2>2, FS_CardinalityType
<1>12. z.tight.ref = z.tight.nJobs + 0 + (a + (b + 0))
  BY <1>6, <1>10 DEF Bit
<1>13. /\ \A k \in T : k = [of |-> "tight", stream |-> k.stream, stage |-> k.stage]
       /\ \A j, k \in T : j.stream = k.stream => j = k
  BY <1>6, <1>9 DEF JobsOk
<1> HIDE DEF T
<1>14. /\ DOMAIN v = WorldFields /\ Only(z, v, {"raw", "tight", "works"}) /\ v.raw = z.raw
       /\ Of(v.works, "raw") = Of(z.works, "raw")
       /\ Of(v.works, "ffmpeg") = Of(z.works, "ffmpeg") /\ Kinds(v.works)
       /\ TightOk(v.tight, v.works, a + (b + 1))
  <2>1. CASE w.tight.nJobs # 0
    <3>1. v = w
      BY <2>1
    <3>2. TightOk(w.tight, w.works, a + (b + 1))
      <4>1. JobsOk(w.works)
        BY <1>10, <1>11, <1>13 DEF JobsOk, T
      <4>2. w.tight # None
        BY <1>8, HasField DEF TightFields
      <4>3. Bit(Of(w.works, "finish") # {}) = 0
        BY <1>10 DEF Bit
      <4>4. /\ w.tight.nJobs = Cardinality(T)
            /\ w.tight.ref = w.tight.nJobs + 0 + (a + (b + 1)) /\ w.tight.ref # 0
        BY <1>4, <1>8, <1>11, <1>12
      <4> QED
        BY <1>8, <4>1, <4>2, <4>3, <4>4 DEF TightOk, T
    <3> QED
      BY <1>7, <1>9, <3>1, <3>2
  <2>2. CASE w.tight.nJobs = 0
    <3> DEFINE k == [of |-> "finish", stage |-> "run"]
    <3>1. v = [w EXCEPT !.tight.ref = @ + 1, !.works = @ \cup {k}]
      BY <2>2 DEF ScheduleTightFinish
    <3>2. /\ DOMAIN v = WorldFields /\ Only(w, v, {"tight", "works"})
          /\ v.works = w.works \cup {k} /\ v.tight = [w.tight EXCEPT !.ref = w.tight.ref + 1]
      BY <1>7, <3>1 DEF WorldFields, Only
    <3> HIDE DEF v
    <3>3. /\ DOMAIN v.tight = TightFields /\ v.tight.nJobs = w.tight.nJobs
          /\ v.tight.ref = w.tight.ref + 1
      BY <1>8, <3>2 DEF TightFields
    <3>4. T = {}
      BY <1>8, <1>11, <2>2, FS_EmptySet
    <3>5. /\ Of(v.works, "raw") = Of(w.works, "raw") /\ Of(v.works, "tight") = {}
          /\ Of(v.works, "ffmpeg") = Of(w.works, "ffmpeg")
          /\ Of(v.works, "finish") = {k}
      BY <1>10, <3>2, <3>4 DEF Of, T
    <3>6. Kinds(v.works)
      BY <1>9, <3>2 DEF Kinds
    <3>7. JobsOk(v.works)
      BY <3>5, FS_EmptySet DEF JobsOk
    <3>8. v.tight # None
      BY <3>3, HasField DEF TightFields
    <3>9. Bit(Of(v.works, "finish") # {}) = 1 /\ Cardinality(Of(v.works, "tight")) = 0
      BY <3>5, FS_EmptySet DEF Bit
    <3>10. /\ v.tight.nJobs = 0
           /\ v.tight.ref = v.tight.nJobs + 1 + (a + (b + 1)) /\ v.tight.ref # 0
      <4>1. v.tight.ref = z.tight.ref + 1 /\ z.tight.nJobs = 1 /\ v.tight.nJobs = 0
        BY <1>8, <1>11, <2>2, <3>3
      <4> QED
        BY <1>4, <1>12, <4>1
    <3>11. TightOk(v.tight, v.works, a + (b + 1))
      BY <3>3, <3>7, <3>8, <3>9, <3>10 DEF TightOk
    <3>12. Only(z, v, {"raw", "tight", "works"}) /\ v.raw = z.raw
      BY <1>7, <3>2 DEF Only, WorldFields
    <3> QED
      BY <1>9, <3>2, <3>5, <3>6, <3>11, <3>12
  <2> QED
    BY <2>1, <2>2
<1> HIDE DEF v
<1>15. RawOk(v.raw, v.works, Bit(z.client.encoder = "raw") + 0)
  BY <1>3, <1>14 DEF RawOk
<1>16. Flight(v.works, z.client)
  BY <1>3, <1>5, <1>14 DEF Flight
<1>17. WorldOk(v, 0, 1, backEndType)
  BY <1>2, <1>14, <1>15, <1>16, RefsChange DEF a, b
<1>18. WorldOk(Unref(v, "tight"), 0, 0, backEndType)
  BY <1>17, TightLetGo
<1> QED
  BY <1>1, <1>18, BecomesSafe

(* on_tight_finished. *)
LEMMA TightFinishedSafe ==
  ASSUME NStreams \in Nat, \A comp \in Composites : IsComposite(comp),
         Safe, NEW work \in works, TightFinished(work)
  PROVE  Safe'
<1> DEFINE z == World
           js == works \ {work}
           w == [z EXCEPT !.works = @ \ {work}, !.tight.frame = None]
           result == [n |-> tight.nRects, rects |-> tight.dst, resetAll |-> FALSE,
                      frame |-> tight.frame.id, comp |-> tight.frame.comp,
                      damage |-> tight.frame.damage]
           a == Bit(z.client.encoder = "tight")
           b == Bit(z.client.keepsTight)
<1>1. /\ work.of = "finish"
      /\ \E c \in Outcomes(w) : Becomes(Unref(FinishFrame(w, result, c), "tight"))
  BY DEF TightFinished
<1>2. PICK c \in Outcomes(w) : Becomes(Unref(FinishFrame(w, result, c), "tight"))
  BY <1>1
<1> HIDE DEF result
<1>3. /\ DOMAIN z = WorldFields /\ z.works = works /\ WorldOk(z, 0, 0, backEndType)
  BY WorldIs DEF Safe
<1> HIDE DEF z
<1>4. /\ DOMAIN w = WorldFields /\ Only(z, w, {"raw", "tight", "works"})
      /\ w.works = js /\ w.raw = z.raw /\ w.tight = [z.tight EXCEPT !.frame = None]
      /\ w.client = z.client /\ w.h264 = z.h264
  BY <1>3 DEF WorldFields, Only
<1> HIDE DEF w
<1>5. /\ Kinds(z.works) /\ RawOk(z.raw, z.works, Bit(z.client.encoder = "raw") + 0)
      /\ TightOk(z.tight, z.works, a + (b + 0))
      /\ Flight(z.works, z.client)
  BY <1>3 DEF WorldOk, Refs
<1>6. a \in Nat /\ b \in Nat
  BY DEF Bit
<1> HIDE DEF a, b
<1>7. Less(z.works, js, work) /\ work \in Of(z.works, "finish")
  BY <1>1, <1>3, <1>5, LessIs
<1> HIDE DEF js
<1>8. /\ Of(w.works, "raw") = Of(z.works, "raw") /\ Of(w.works, "finish") = {}
      /\ Of(w.works, "tight") = Of(z.works, "tight") /\ Of(z.works, "tight") = {}
      /\ Of(w.works, "ffmpeg") = Of(z.works, "ffmpeg") /\ Kinds(w.works)
  BY <1>1, <1>4, <1>5, <1>7 DEF Less, TightOk, JobsOk
<1>9. TightOk(w.tight, w.works, a + (b + 1))
  <2>1. /\ DOMAIN z.tight = TightFields
        /\ z.tight.nJobs = Cardinality(Of(z.works, "tight"))
        /\ z.tight.ref = z.tight.nJobs + Bit(Of(z.works, "finish") # {}) + (a + (b + 0))
    BY <1>5, <1>7 DEF TightOk
  <2>2. /\ DOMAIN w.tight = TightFields /\ w.tight.ref = z.tight.ref
        /\ w.tight.nJobs = z.tight.nJobs
    BY <1>4, <2>1 DEF TightFields
  <2>3. Bit(Of(z.works, "finish") # {}) = 1 /\ Bit(Of(w.works, "finish") # {}) = 0
    BY <1>7, <1>8 DEF Bit
  <2>4. z.tight.nJobs = 0 /\ Cardinality(Of(w.works, "tight")) = 0
    BY <1>8, <2>1, FS_EmptySet
  <2>5. w.tight.ref = 0 + 0 + (a + (b + 1)) /\ w.tight.ref # 0 /\ w.tight.nJobs = 0
    BY <1>6, <2>1, <2>2, <2>3, <2>4
  <2>6. w.tight # None
    BY <2>2, HasField DEF TightFields
  <2>7. JobsOk(w.works)
    BY <1>8, FS_EmptySet DEF JobsOk
  <2> QED
    BY <2>2, <2>3, <2>4, <2>5, <2>6, <2>7 DEF TightOk
<1>10. Flight(w.works, z.client) /\ RawOk(w.raw, w.works, Bit(z.client.encoder = "raw") + 0)
  BY <1>4, <1>5, <1>8 DEF Flight, RawOk
<1>11. WorldOk(w, 0, 1, backEndType)
  BY <1>3, <1>4, <1>8, <1>9, <1>10, RefsChange DEF a, b
<1>12. ASSUME w.client.open PROVE Chosen(c) /\ Idle(w, 0, 1, backEndType)
  <2>1. z.client.encoder = "tight"
    BY <1>4, <1>5, <1>7, <1>12 DEF Flight
  <2>2. Quiet(w.works)
    BY <1>4, <1>8, <1>10, <1>12, <2>1 DEF Flight, Quiet
  <2>3. w.h264 = None
    BY <1>3, <1>4, <2>1 DEF WorldOk
  <2>4. Chosen(c)
    BY <1>2, <1>12, OutcomesAre
  <2> QED
    BY <1>4, <1>11, <1>12, <2>1, <2>2, <2>3, <2>4 DEF Idle
<1>13. WorldOk(FinishFrame(w, result, c), 0, 1, backEndType)
  BY <1>11, <1>12, FinishesFrame
<1>14. WorldOk(Unref(FinishFrame(w, result, c), "tight"), 0, 0, backEndType)
  BY <1>13, TightLetGo
<1> QED
  BY <1>2, <1>14, BecomesSafe

-----------------------------------------------------------------------------
(* The back ends at work. *)
LEMMA EndReplaced ==
  ASSUME NEW bs, NEW ks, NEW type, PoolOk(bs, ks, type), NEW cs, NEW b, NEW d,
         Replaced(bs, cs, b, d), InUse(d) = InUse(bs[b]),
         InUse(bs[b]) => Load(d) <= Load(bs[b])
  PROVE  NoBusier(bs, cs)
<1>1. \A a \in DOMAIN bs : Load(bs[a]) \in Nat /\ Load(bs[a]) <= Load(bs[a])
  BY LoadIs DEF PoolOk
<1>2. DOMAIN cs = DOMAIN bs /\ cs[b] = d /\ \A a \in DOMAIN bs : a # b => cs[a] = bs[a]
  BY DEF Replaced
<1>3. ASSUME NEW a \in DOMAIN bs
      PROVE  InUse(cs[a]) = InUse(bs[a]) /\ (InUse(bs[a]) => Load(cs[a]) <= Load(bs[a]))
  <2>1. CASE a = b
    BY <1>2, <2>1
  <2>2. CASE a # b
    BY <1>1, <1>2, <2>2
  <2> QED
    BY <2>1, <2>2
<1> QED
  BY <1>2, <1>3 DEF NoBusier

(* h264_encoder__do_work. *)
LEMMA RunFfmpegSafe ==
  ASSUME Safe, NEW work \in works, RunFfmpeg(work)
  PROVE  Safe'
<1> DEFINE w == World
           b == work.id
           e == backEnds[b]
           made(p) == [e EXCEPT
             !.made = IF p.ok THEN @ + 1 ELSE @,
             !.packet = IF p.ok THEN <<[frame |-> e.cur.frame, key |-> IsKeyFrame(e.cur, p),
                                        asked |-> e.cur.asked, n |-> e.made + 1]>>
                                ELSE << >>]
           js == Stage(work)
<1>1. /\ work.of = "ffmpeg"
      /\ \E p \in Pipelines : Becomes([w EXCEPT !.works = js, !.backEnds[b] = made(p)])
  BY DEF RunFfmpeg
<1>2. PICK p \in Pipelines : Becomes([w EXCEPT !.works = js, !.backEnds[b] = made(p)])
  BY <1>1
<1> DEFINE d == made(p)
           cs == [backEnds EXCEPT ![b] = d]
           v == [w EXCEPT !.works = js, !.backEnds[b] = d]
<1>3. /\ DOMAIN w = WorldFields /\ w.works = works /\ w.backEnds = backEnds
      /\ WorldOk(w, 0, 0, backEndType)
  BY WorldIs DEF Safe
<1>4. Kinds(works) /\ PoolOk(backEnds, works, backEndType)
  BY <1>3 DEF WorldOk, Refs, EngineOk
<1>5. Staged(works, js, work) /\ work \in Of(works, "ffmpeg")
  BY <1>1, <1>4, StageIs
<1>6. /\ "id" \in DOMAIN work /\ b \in DOMAIN backEnds /\ e.cur # None
      /\ BackEndOk(e, backEndType) /\ IsSequence(backEnds)
  BY <1>4, <1>5 DEF PoolOk
<1>7. /\ DOMAIN d = BackFields /\ d.cur = e.cur /\ d.queue = e.queue
      /\ d.type = e.type /\ d.device = e.device /\ d.ready = e.ready
      /\ d.live = e.live /\ d.pleaseDestroy = e.pleaseDestroy
  BY <1>6 DEF BackEndOk, BackFields
<1> HIDE DEF made, d, js
<1>8. /\ DOMAIN v = WorldFields /\ Only(w, v, {"backEnds", "works"})
      /\ v.works = js /\ v.backEnds = cs
  BY <1>3 DEF WorldFields, Only
<1> HIDE DEF w, v
<1>9. Replaced(backEnds, cs, b, d)
  BY <1>6, ReplacedIs
<1> HIDE DEF cs
<1>10. BackEndOk(d, backEndType)
  BY <1>6, <1>7 DEF BackEndOk
<1>11. InUse(d) = InUse(e) /\ Load(d) = Load(e) /\ Load(e) \in Nat
  BY <1>6, <1>7, LoadIs DEF InUse, Load, Working
<1>12. PoolOk(cs, works, backEndType)
  BY <1>4, <1>6, <1>7, <1>9, <1>10, PoolReplaced
<1>13. Done(work).id = work.id /\ "id" \in DOMAIN Done(work)
  BY <1>6 DEF Done
<1>14. PoolOk(cs, js, backEndType)
  <2>1. Of(js, "ffmpeg") = (Of(works, "ffmpeg") \ {work}) \cup {Done(work)}
    BY <1>1, <1>5 DEF Staged
  <2> QED
    BY <1>5, <1>12, <1>13, <2>1 DEF PoolOk
<1>15. NoBusier(backEnds, cs)
  BY <1>4, <1>9, <1>11, EndReplaced
<1>16. SameJobs(works, js)
  BY <1>1, <1>5 DEF SameJobs, Staged
<1>17. WorldOk(v, 0, 0, backEndType)
  BY <1>3, <1>8, <1>14, <1>15, <1>16, EndsChange
<1>18. Becomes(v)
  BY <1>2 DEF v, d
<1> QED
  BY <1>17, <1>18, BecomesSafe

(* The device. *)
LEMMA DeviceEncodesSafe ==
  ASSUME Safe, NEW b \in DOMAIN backEnds, DeviceEncodes(b)
  PROVE  Safe'
<1> DEFINE w == World
           e == backEnds[b]
           f == Head(e.device)
           g == [frame |-> f.frame, key |-> f.key \/ e.made = 0,
                 asked |-> f.asked, n |-> e.made + 1]
           d == [e EXCEPT !.device = Tail(@), !.src[f.src] = "done", !.made = @ + 1,
                          !.ready = Append(@, g)]
           cs == [backEnds EXCEPT ![b] = d]
           v == [w EXCEPT !.backEnds[b] = d]
<1>1. e.live /\ e.device # << >> /\ Becomes(v)
  BY DEF DeviceEncodes
<1>2. /\ DOMAIN w = WorldFields /\ w.works = works /\ w.backEnds = backEnds
      /\ WorldOk(w, 0, 0, backEndType)
  BY WorldIs DEF Safe
<1>3. Kinds(works) /\ PoolOk(backEnds, works, backEndType)
  BY <1>2 DEF WorldOk, Refs, EngineOk
<1>4. /\ BackEndOk(e, backEndType) /\ IsSequence(backEnds)
      /\ backEndType \in {"ffmpeg", "v4l2"}
  BY <1>3 DEF PoolOk
<1> HIDE DEF f, g
<1>5. /\ DOMAIN d = BackFields /\ d.cur = e.cur /\ d.queue = e.queue
      /\ d.type = e.type /\ d.device = Tail(e.device) /\ d.ready = Append(e.ready, g)
      /\ d.live = e.live /\ d.pleaseDestroy = e.pleaseDestroy
  BY <1>4 DEF BackEndOk, BackFields
<1> HIDE DEF d
<1>6. /\ DOMAIN v = WorldFields /\ Only(w, v, {"backEnds", "works"})
      /\ v.works = works /\ v.backEnds = cs
  BY <1>2 DEF WorldFields, Only
<1> HIDE DEF w, v
<1>7. Replaced(backEnds, cs, b, d)
  BY <1>4, ReplacedIs
<1> HIDE DEF cs
<1>8. /\ IsSequence(d.device) /\ Len(d.device) = Len(e.device) - 1
      /\ Len(e.device) \in Nat \ {0}
  BY <1>1, <1>4, <1>5, TailIs DEF BackEndOk
<1>9. IsSequence(d.ready) /\ Len(d.ready) = Len(e.ready) + 1
  BY <1>4, <1>5, AppendedIs DEF BackEndOk
<1>10. BackEndOk(d, backEndType)
  <2>1. backEndType = "v4l2" /\ e.live
    BY <1>1, <1>4 DEF BackEndOk
  <2> QED
    BY <1>4, <1>5, <1>8, <1>9, <2>1 DEF BackEndOk
<1>11. InUse(d) = InUse(e) /\ Load(d) = Load(e) /\ Load(e) \in Nat
  <2>1. PICK n \in Nat : n = Len(e.device)
    BY <1>8
  <2>2. PICK m \in Nat : m = Len(e.ready)
    BY <1>4, SequenceIs DEF BackEndOk
  <2>3. PICK q \in Nat : q = Len(e.queue)
    BY <1>4, SequenceIs DEF BackEndOk
  <2>4. PICK k \in Nat : k = Working(e)
    BY DEF Working
  <2>5. Working(d) = Working(e)
    BY <1>5 DEF Working
  <2>6. Load(e) = q + k + n + m /\ Load(d) = q + k + (n - 1) + (m + 1)
    BY <1>5, <1>8, <1>9, <2>1, <2>2, <2>3, <2>4, <2>5 DEF Load
  <2>7. Load(d) = Load(e)
    BY <2>6
  <2>8. InUse(d) = InUse(e)
    BY <1>5 DEF InUse
  <2> QED
    BY <1>4, <2>7, <2>8, LoadIs
<1>12. PoolOk(cs, works, backEndType)
  BY <1>3, <1>5, <1>7, <1>10, PoolReplaced
<1>13. NoBusier(backEnds, cs)
  BY <1>3, <1>7, <1>11, EndReplaced
<1>14. SameJobs(works, works)
  BY <1>3 DEF SameJobs
<1>15. WorldOk(v, 0, 0, backEndType)
  BY <1>2, <1>6, <1>12, <1>13, <1>14, EndsChange
<1> QED
  BY <1>1, <1>15, BecomesSafe

-----------------------------------------------------------------------------
(* A back end hands a packet over. *)
LEMMA HandsOver ==
  ASSUME NEW z, WorldOk(z, 0, 0, backEndType), NEW b \in DOMAIN z.backEnds,
         NEW w, DOMAIN w = WorldFields, Only(z, w, {"backEnds", "works"}),
         SameJobs(z.works, w.works), PoolOk(w.backEnds, w.works, backEndType),
         NEW d, Replaced(z.backEnds, w.backEnds, b, d),
         InUse(z.backEnds[b]), InUse(d), Load(z.backEnds[b]) # 0,
         Load(d) = Load(z.backEnds[b]) - 1
  PROVE  InHand(w, b)
<1> DEFINE bs == z.backEnds
           cs == w.backEnds
           m == z.h264.barrier
<1>1. PoolOk(bs, z.works, backEndType)
  BY DEF WorldOk, EngineOk
<1>2. Load(bs[b]) \in Nat
  BY <1>1, LoadIs DEF PoolOk
<1>3. Load(d) <= Load(bs[b]) /\ InUse(d) = InUse(bs[b])
  BY <1>2
<1>4. NoBusier(bs, cs)
  BY <1>1, <1>3, EndReplaced
<1>5. WorldOk(w, 0, 0, backEndType)
  BY <1>4, EndsChange
<1>6. w.h264 = z.h264
  BY DEF Only, WorldFields
<1>7. z.h264 # None
  BY DEF WorldOk, EngineOk, NoneInUse
<1>8. H264Ok(z.h264, bs, backEndType)
  BY <1>7 DEF WorldOk, EngineOk
<1>9. m \in Nat /\ BarrierOk(bs, m) /\ ContextsOk(z.h264.contexts, bs)
  BY <1>8 DEF H264Ok
<1>10. PICK i \in DOMAIN z.h264.contexts : z.h264.contexts[i].id = b
  BY <1>9 DEF ContextsOk, Ids
<1>11. ~z.h264.contexts[i].qualityChanged
  BY <1>9, <1>10 DEF ContextsOk
<1>12. b \in Nat /\ \A a \in Nat : Due(cs, a) \in Nat /\ Due(bs, a) \in Nat
  BY <1>1, DueIs
<1>13. /\ \A a \in Nat : a # b => Due(cs, a) = Due(bs, a)
       /\ Due(cs, b) = Load(d) /\ Due(bs, b) = Load(bs[b])
  BY DueReplaced
<1>14. \A a \in Nat : Due(cs, a) \in Nat /\ (a # b => Due(cs, a) <= Due(bs, a))
  BY <1>12, <1>13
<1>15. Due(bs, b) # 0 /\ Due(cs, b) <= Due(bs, b) - 1
  BY <1>2, <1>13
<1> HIDE DEF bs, cs, m
<1>16. m - 1 \in Nat /\ BarrierOk(cs, m - 1)
  BY <1>9, <1>12, <1>14, <1>15, OneLessDue
<1> QED
  BY <1>5, <1>6, <1>7, <1>10, <1>11, <1>16 DEF InHand, cs, m

(* ... and goes on with the next frame. *)
LEMMA GoesOn ==
  ASSUME NEW w, NEW b \in DOMAIN w.backEnds, InHand(w, b)
  PROVE  InHand(ScheduleWork(w, b), b)
<1> DEFINE v == ScheduleWork(w, b)
           d == v.backEnds[b]
<1>1. /\ WorldOk(w, 0, 0, backEndType) /\ w.h264 # None
      /\ w.h264.barrier - 1 \in Nat /\ BarrierOk(w.backEnds, w.h264.barrier - 1)
  BY DEF InHand
<1>2. Encoding(w, backEndType)
  BY <1>1, WorldEncoding
<1>3. /\ DOMAIN w = WorldFields /\ Kinds(w.works) /\ DOMAIN w.client = ClientFields
      /\ PoolOk(w.backEnds, w.works, backEndType) /\ H264Ok(w.h264, w.backEnds, backEndType)
  BY <1>2 DEF Encoding
<1>4. /\ Aside(w, v) /\ v.h264 = w.h264
      /\ PoolOk(v.backEnds, v.works, backEndType)
      /\ Replaced(w.backEnds, v.backEnds, b, d)
      /\ Load(d) = Load(w.backEnds[b]) /\ InUse(d) = InUse(w.backEnds[b])
  BY <1>3, Schedules
<1> HIDE DEF v, d
<1>5. Load(w.backEnds[b]) \in Nat
  BY <1>3, LoadIs DEF PoolOk
<1>6. Load(d) <= Load(w.backEnds[b])
  BY <1>4, <1>5
<1>7. NoBusier(w.backEnds, v.backEnds)
  BY <1>3, <1>4, <1>6, EndReplaced
<1>8. /\ H264Ok(v.h264, v.backEnds, backEndType)
      /\ BarrierOk(v.backEnds, w.h264.barrier - 1)
  BY <1>1, <1>3, <1>4, <1>7, NoBusierH264, NoBusierBarrier
<1>9. Encoding(v, backEndType)
  BY <1>4, <1>8 DEF Encoding, Aside
<1>10. w.client.updating
  <2>1. w.h264.barrier # 0
    BY <1>1
  <2> QED
    BY <1>1, <2>1 DEF WorldOk
<1>11. WorldOk(v, 0, 0, backEndType)
  BY <1>1, <1>4, <1>9, <1>10, EngineChanges DEF Aside
<1> QED
  BY <1>1, <1>4, <1>8, <1>11 DEF InHand, v

(* process_dst_bufs: the handler of its packet may destroy the V4L2 back    *)
(* end, and nothing else suffers from it.                                   *)
LEMMA ProcessDstBufsSafe ==
  ASSUME NStreams \in Nat, \A comp \in Composites : IsComposite(comp),
         Safe, NEW b \in DOMAIN backEnds, ProcessDstBufs(b)
  PROVE  Safe'
<1> DEFINE z == World
           e == backEnds[b]
           d == [e EXCEPT !.ready = Tail(@)]
           cs == [backEnds EXCEPT ![b] = d]
           w == [z EXCEPT !.backEnds[b].ready = Tail(@)]
           p == Head(e.ready)
<1>1. /\ e.live /\ e.ready # << >>
      /\ \E c \in Outcomes(w) :
           LET v == HandlePacket(w, b, p, c)
           IN  Becomes([v EXCEPT !.fault = @ \/ ~v.backEnds[b].live])
  BY DEF ProcessDstBufs
<1>2. PICK c \in Outcomes(w) :
           LET v == HandlePacket(w, b, p, c)
           IN  Becomes([v EXCEPT !.fault = @ \/ ~v.backEnds[b].live])
  BY <1>1
<1> DEFINE v == HandlePacket(w, b, p, c)
           u == [v EXCEPT !.fault = @ \/ ~v.backEnds[b].live]
<1>3. Becomes(u)
  BY <1>2
<1>4. /\ DOMAIN z = WorldFields /\ z.works = works /\ z.backEnds = backEnds
      /\ WorldOk(z, 0, 0, backEndType)
  BY WorldIs DEF Safe
<1>5. Kinds(works) /\ PoolOk(backEnds, works, backEndType)
  BY <1>4 DEF WorldOk, Refs, EngineOk
<1>6. /\ BackEndOk(e, backEndType) /\ IsSequence(backEnds)
      /\ backEndType \in {"ffmpeg", "v4l2"}
  BY <1>5 DEF PoolOk
<1>7. backEndType = "v4l2" /\ e.cur = None /\ ~e.pleaseDestroy
  BY <1>1, <1>6 DEF BackEndOk
<1>8. /\ DOMAIN d = BackFields /\ d.cur = e.cur /\ d.queue = e.queue
      /\ d.type = e.type /\ d.device = e.device /\ d.ready = Tail(e.ready)
      /\ d.live = e.live /\ d.pleaseDestroy = e.pleaseDestroy
  BY <1>6 DEF BackEndOk, BackFields
<1> HIDE DEF d
<1>9. /\ DOMAIN w = WorldFields /\ Only(z, w, {"backEnds", "works"})
      /\ w.works = works /\ w.backEnds = cs
  BY <1>4 DEF WorldFields, Only, d
<1> HIDE DEF z, w, p
<1>10. Replaced(backEnds, cs, b, d)
  BY <1>6, ReplacedIs
<1> HIDE DEF cs
<1>11. /\ IsSequence(d.ready) /\ Len(d.ready) = Len(e.ready) - 1
       /\ Len(e.ready) \in Nat \ {0}
  BY <1>1, <1>6, <1>8, TailIs DEF BackEndOk
<1>12. BackEndOk(d, backEndType)
  BY <1>1, <1>6, <1>7, <1>8, <1>11 DEF BackEndOk
<1>13. InUse(d) /\ InUse(e)
  BY <1>1, <1>7, <1>8 DEF InUse
<1>14. Load(d) = Load(e) - 1 /\ Load(e) # 0
  <2>1. PICK n \in Nat : n = Len(e.device)
    BY <1>6, SequenceIs DEF BackEndOk
  <2>2. PICK m \in Nat \ {0} : m = Len(e.ready)
    BY <1>11
  <2>3. PICK q \in Nat : q = Len(e.queue)
    BY <1>6, SequenceIs DEF BackEndOk
  <2>4. PICK k \in Nat : k = Working(e)
    BY DEF Working
  <2>5. Working(d) = Working(e)
    BY <1>8 DEF Working
  <2>6. Load(e) = q + k + n + m /\ Load(d) = q + k + n + (m - 1)
    BY <1>8, <1>11, <2>1, <2>2, <2>3, <2>4, <2>5 DEF Load
  <2>7. m # 0
    BY <2>2
  <2> QED
    BY <2>6, <2>7
<1>15. PoolOk(cs, works, backEndType)
  BY <1>5, <1>8, <1>10, <1>12, PoolReplaced
<1>16. SameJobs(works, works)
  BY <1>5 DEF SameJobs
<1>17. InHand(w, b)
  BY <1>4, <1>9, <1>10, <1>13, <1>14, <1>15, <1>16, HandsOver
<1>18. WorldOk(v, 0, 0, backEndType)
  BY <1>2, <1>17, HandlesPacket
<1> HIDE DEF v
<1>19. DOMAIN v = WorldFields
  BY <1>18 DEF WorldOk, Refs
<1>20. /\ DOMAIN u = WorldFields /\ u.raw = v.raw /\ u.tight = v.tight /\ u.h264 = v.h264
       /\ u.backEnds = v.backEnds /\ u.works = v.works /\ u.client = v.client
  BY <1>19 DEF WorldFields
<1> HIDE DEF u
<1>21. WorldOk(u, 0, 0, backEndType)
  BY <1>7, <1>18, <1>20 DEF WorldOk, Refs
<1> QED
  BY <1>3, <1>21, BecomesSafe

(* h264_encoder__on_work_done. *)
LEMMA PoolLess ==
  ASSUME NEW bs, NEW ks, NEW type, PoolOk(bs, ks, type), NEW work \in Of(ks, "ffmpeg"),
         NEW js, Less(ks, js, work), NEW cs, NEW d, Replaced(bs, cs, work.id, d),
         BackEndOk(d, type), d.cur = None
  PROVE  PoolOk(cs, js, type) /\ SameJobs(ks, js)
<1>1. work.of = "ffmpeg"
  BY DEF Of
<1>2. Of(js, "ffmpeg") = Of(ks, "ffmpeg") \ {work}
  BY <1>1 DEF Less
<1>3. SameJobs(ks, js)
  BY <1>1 DEF Less, SameJobs
<1>4. /\ DOMAIN cs = DOMAIN bs /\ IsSequence(cs) /\ cs[work.id] = d
      /\ \A a \in DOMAIN bs : a # work.id => cs[a] = bs[a]
  BY DEF Replaced
<1>5. \A a \in DOMAIN cs : BackEndOk(cs[a], type)
  BY <1>4 DEF PoolOk
<1>6. \A k \in Of(js, "ffmpeg") :
        "id" \in DOMAIN k /\ k.id \in DOMAIN cs /\ cs[k.id].cur # None
  <2> SUFFICES ASSUME NEW k \in Of(js, "ffmpeg")
               PROVE  "id" \in DOMAIN k /\ k.id \in DOMAIN cs /\ cs[k.id].cur # None
    OBVIOUS
  <2>1. k \in Of(ks, "ffmpeg") /\ k # work
    BY <1>2
  <2>2. k.id # work.id
    BY <2>1 DEF PoolOk
  <2> QED
    BY <1>4, <2>1, <2>2 DEF PoolOk
<1>7. \A j, k \in Of(js, "ffmpeg") : j.id = k.id => j = k
  BY <1>2 DEF PoolOk
<1>8. ASSUME NEW a \in DOMAIN cs, cs[a].cur # None
      PROVE  \E k \in Of(js, "ffmpeg") : k.id = a
  <2>1. a # work.id /\ a \in DOMAIN bs /\ bs[a].cur # None
    BY <1>4, <1>8
  <2> QED
    BY <1>2, <2>1 DEF PoolOk
<1> QED
  BY <1>3, <1>4, <1>5, <1>6, <1>7, <1>8 DEF PoolOk

(* The frame at the worker is done with. *)
LEMMA WorkerFree ==
  ASSUME NEW e, NEW type, BackEndOk(e, type), e.cur # None, ~e.pleaseDestroy,
         NEW d, DOMAIN d = BackFields, d.cur = None, d.queue = e.queue, d.type = e.type,
         d.device = e.device, d.ready = e.ready, d.live = e.live,
         d.pleaseDestroy = e.pleaseDestroy
  PROVE  /\ BackEndOk(d, type) /\ InUse(d) /\ InUse(e)
         /\ Load(d) = Load(e) - 1 /\ Load(e) # 0 /\ Load(e) \in Nat
<1>1. BackEndOk(d, type)
  BY DEF BackEndOk
<1>2. InUse(d) /\ InUse(e)
  BY DEF BackEndOk, InUse
<1>3. PICK n \in Nat : n = Len(e.device)
  BY SequenceIs DEF BackEndOk
<1>4. PICK m \in Nat : m = Len(e.ready)
  BY SequenceIs DEF BackEndOk
<1>5. PICK q \in Nat : q = Len(e.queue)
  BY SequenceIs DEF BackEndOk
<1>6. Working(d) = 0 /\ Working(e) = 1
  BY DEF Working
<1>7. Load(e) = q + 1 + n + m /\ Load(d) = q + 0 + n + m
  BY <1>3, <1>4, <1>5, <1>6 DEF Load
<1>8. Load(d) = Load(e) - 1 /\ Load(e) # 0 /\ Load(e) \in Nat
  BY <1>7
<1> QED
  BY <1>1, <1>2, <1>8

LEMMA FfmpegDoneSafe ==
  ASSUME NStreams \in Nat, \A comp \in Composites : IsComposite(comp),
         Safe, NEW work \in works, FfmpegDone(work)
  PROVE  Safe'
<1> DEFINE z == World
           b == work.id
           e == backEnds[b]
           packet == e.packet
           js == works \ {work}
           w == [z EXCEPT !.works = @ \ {work}, !.backEnds[b].cur = None]
           y == [w EXCEPT !.backEnds[b].packet = << >>]
           v == ScheduleWork(y, b)
           d == [e EXCEPT !.cur = None]
           g == [d EXCEPT !.packet = << >>]
<1>1. /\ work.of = "ffmpeg"
      /\ IF w.backEnds[b].pleaseDestroy THEN Becomes(BackEndDestroy(w, b))
         ELSE IF packet = << >> THEN Becomes([w EXCEPT !.client.lost = TRUE])
         ELSE \E c \in Outcomes(v) : Becomes(HandlePacket(v, b, packet[1], c))
  BY DEF FfmpegDone
<1>2. /\ DOMAIN z = WorldFields /\ z.works = works /\ z.backEnds = backEnds
      /\ WorldOk(z, 0, 0, backEndType)
  BY WorldIs DEF Safe
<1>3. Kinds(works) /\ PoolOk(backEnds, works, backEndType)
  BY <1>2 DEF WorldOk, Refs, EngineOk
<1>4. Less(works, js, work) /\ work \in Of(works, "ffmpeg")
  BY <1>1, <1>3, LessIs
<1>5. /\ b \in DOMAIN backEnds /\ e.cur # None /\ BackEndOk(e, backEndType)
      /\ IsSequence(backEnds) /\ backEndType \in {"ffmpeg", "v4l2"}
  BY <1>3, <1>4 DEF PoolOk
<1>6. backEndType = "ffmpeg" /\ e.live
  BY <1>5 DEF BackEndOk
<1>7. /\ DOMAIN d = BackFields /\ d.cur = None /\ d.queue = e.queue
      /\ d.type = e.type /\ d.device = e.device /\ d.ready = e.ready
      /\ d.live = e.live /\ d.pleaseDestroy = e.pleaseDestroy
  BY <1>5 DEF BackEndOk, BackFields
<1>8. /\ DOMAIN g = BackFields /\ g.cur = None /\ g.queue = e.queue
      /\ g.type = e.type /\ g.device = e.device /\ g.ready = e.ready
      /\ g.live = e.live /\ g.pleaseDestroy = e.pleaseDestroy
  BY <1>7 DEF BackFields
<1> HIDE DEF d, g, js
<1> DEFINE ds == [backEnds EXCEPT ![b] = d]
           gs == [backEnds EXCEPT ![b] = g]
<1>9. /\ DOMAIN w = WorldFields /\ Only(z, w, {"backEnds", "works"})
      /\ w.works = js /\ w.backEnds = ds
  BY <1>2 DEF WorldFields, Only, d, js
<1> HIDE DEF z, w
<1>10. Replaced(backEnds, ds, b, d)
  BY <1>5, ReplacedIs
<1>11. Replaced(backEnds, gs, b, g)
  BY <1>5, ReplacedIs
<1>12. w.backEnds[b] = d
  BY <1>9, <1>10 DEF Replaced
<1>13. CASE e.pleaseDestroy
  <2> DEFINE x == Dead(backEndType)
             xs == [backEnds EXCEPT ![b] = x]
             u == BackEndDestroy(w, b)
  <2>1. Becomes(u)
    BY <1>1, <1>7, <1>12, <1>13
  <2>2. BackEndDestroyed(d) = x
    BY <1>5, <1>7 DEF BackEndDestroyed, BackEndOk, Dead
  <2>3. BackEndOk(x, backEndType) /\ ~InUse(x) /\ x.cur = None
    BY <1>5, DeadOk
  <2> HIDE DEF x
  <2>4. /\ DOMAIN u = WorldFields /\ Only(z, u, {"backEnds", "works"}) /\ u.works = js
        /\ u.backEnds = [ds EXCEPT ![b] = BackEndDestroyed(ds[b])]
    BY <1>9 DEF BackEndDestroy, WorldFields, Only
  <2> HIDE DEF u
  <2>5. u.backEnds = xs
    BY <1>10, <2>2, <2>4 DEF Replaced
  <2>6. Replaced(backEnds, xs, b, x)
    BY <1>5, ReplacedIs
  <2> HIDE DEF xs
  <2>7. PoolOk(xs, js, backEndType) /\ SameJobs(works, js)
    BY <1>3, <1>4, <2>3, <2>6, PoolLess
  <2>8. ~InUse(e)
    BY <1>13 DEF InUse
  <2>9. InUse(x) = InUse(e)
    BY <2>3, <2>8 DEF InUse
  <2>10. NoBusier(backEnds, xs)
    BY <1>3, <2>6, <2>8, <2>9, EndReplaced
  <2>11. WorldOk(u, 0, 0, backEndType)
    BY <1>2, <2>4, <2>5, <2>7, <2>10, EndsChange
  <2> QED
    BY <2>1, <2>11, BecomesSafe
<1>14. CASE ~e.pleaseDestroy /\ packet = << >>
  <2> DEFINE u == [w EXCEPT !.client.lost = TRUE]
  <2>1. Becomes(u)
    BY <1>1, <1>7, <1>12, <1>14
  <2>2. /\ BackEndOk(d, backEndType) /\ InUse(d) /\ InUse(e)
        /\ Load(d) = Load(e) - 1 /\ Load(e) \in Nat
    BY <1>5, <1>7, <1>14, WorkerFree
  <2> HIDE DEF ds
  <2>3. PoolOk(ds, js, backEndType) /\ SameJobs(works, js)
    BY <1>3, <1>4, <1>7, <1>10, <2>2, PoolLess
  <2>4. Load(d) <= Load(e) /\ InUse(d) = InUse(e)
    BY <2>2
  <2>5. NoBusier(backEnds, ds)
    BY <1>3, <1>10, <2>4, EndReplaced
  <2>6. WorldOk(w, 0, 0, backEndType)
    BY <1>2, <1>9, <2>3, <2>5, EndsChange
  <2>7. DOMAIN w.client = ClientFields /\ w.client.updating \in BOOLEAN
    BY <2>6 DEF WorldOk, ClientOk
  <2>8. /\ DOMAIN u = WorldFields /\ Only(w, u, {"client", "peer"})
        /\ u.client = [w.client EXCEPT !.lost = TRUE]
    BY <1>9 DEF WorldFields, Only
  <2> HIDE DEF u
  <2>9. /\ DOMAIN u.client = ClientFields /\ u.client.open = w.client.open
        /\ u.client.encoder = w.client.encoder /\ u.client.keepsTight = w.client.keepsTight
        /\ u.client.updating = w.client.updating
    BY <2>7, <2>8 DEF ClientFields
  <2>10. WorldOk(u, 0, 0, backEndType)
    <3>1. DOMAIN u = WorldFields /\ Only(w, u, {"client", "peer"})
      BY <2>8
    <3> QED
      BY <2>6, <2>7, <2>9, <3>1, ClientChanges
  <2> QED
    BY <2>1, <2>10, BecomesSafe
<1>15. CASE ~e.pleaseDestroy /\ packet # << >>
  <2>1. PICK c \in Outcomes(v) : Becomes(HandlePacket(v, b, packet[1], c))
    BY <1>1, <1>7, <1>12, <1>15
  <2>2. /\ BackEndOk(g, backEndType) /\ InUse(g) /\ InUse(e)
        /\ Load(g) = Load(e) - 1 /\ Load(e) # 0
    BY <1>5, <1>8, <1>15, WorkerFree
  <2>3. /\ DOMAIN y = WorldFields /\ Only(z, y, {"backEnds", "works"}) /\ y.works = js
        /\ y.backEnds = [ds EXCEPT ![b] = [ds[b] EXCEPT !.packet = << >>]]
    BY <1>9 DEF WorldFields, Only
  <2> HIDE DEF y
  <2>4. y.backEnds = gs
    BY <1>10, <2>3 DEF Replaced, g
  <2> HIDE DEF ds, gs
  <2>5. PoolOk(gs, js, backEndType) /\ SameJobs(works, js)
    BY <1>3, <1>4, <1>8, <1>11, <2>2, PoolLess
  <2>6. InHand(y, b)
    BY <1>2, <1>5, <1>11, <2>2, <2>3, <2>4, <2>5, HandsOver
  <2>7. b \in DOMAIN y.backEnds
    BY <1>5, <1>11, <2>4 DEF Replaced
  <2>8. InHand(v, b)
    BY <2>6, <2>7, GoesOn
  <2> HIDE DEF v, packet
  <2>9. WorldOk(HandlePacket(v, b, packet[1], c), 0, 0, backEndType)
    BY <1>6, <2>1, <2>8, HandlesPacket
  <2> QED
    BY <2>1, <2>9, BecomesSafe
<1> QED
  BY <1>13, <1>14, <1>15

-----------------------------------------------------------------------------
(* What the theorems take for granted: framebuffers have a width. *)
WellUsed ==
  /\ NStreams \in Nat
  /\ \A comp \in Composites : IsComposite(comp)

LEMMA InitSafe ==
  ASSUME Init
  PROVE  Safe
<1> DEFINE w == World
<1>1. /\ raw = None /\ tight = None /\ h264 = None
      /\ backEnds = << >> /\ works = {} /\ fault = FALSE
      /\ client = [open |-> TRUE, encoder |-> "none", keepsTight |-> FALSE, frame |-> 0,
                   updating |-> FALSE, quality |-> "lossless", lost |-> FALSE]
      /\ backEndType \in {"ffmpeg", "v4l2"}
  BY DEF Init
<1>2. /\ DOMAIN w = WorldFields /\ w.raw = None /\ w.tight = None /\ w.h264 = None
      /\ w.backEnds = << >> /\ w.works = {} /\ w.client = client /\ ~w.fault
  BY <1>1, WorldIs
<1>3. /\ DOMAIN client = ClientFields /\ client.encoder = "none" /\ ~client.updating
      /\ client.open \in BOOLEAN /\ client.updating \in BOOLEAN /\ client.open
      /\ client.keepsTight \in BOOLEAN /\ ~client.keepsTight
  BY <1>1 DEF ClientFields
<1> HIDE DEF w
<1>4. \A kind : Of(w.works, kind) = {}
  BY <1>2 DEF Of
<1>5. ClientOk(w.client) /\ Flight(w.works, w.client) /\ Kinds(w.works)
  BY <1>2, <1>3, <1>4 DEF ClientOk, Flight, Kinds
<1>6. /\ Bit(w.client.encoder = "raw") + 0 = 0
      /\ Bit(w.client.encoder = "tight") + (Bit(w.client.keepsTight) + 0) = 0
  BY <1>2, <1>3 DEF Bit
<1>7. RawOk(w.raw, w.works, 0) /\ TightOk(w.tight, w.works, 0)
  BY <1>2, <1>4, FS_EmptySet DEF RawOk, TightOk, JobsOk
<1>8. Refs(w, Bit(w.client.encoder = "raw") + 0,
              Bit(w.client.encoder = "tight") + (Bit(w.client.keepsTight) + 0))
  BY <1>2, <1>3, <1>5, <1>6, <1>7 DEF Refs
<1>9. IsSequence(<< >>) /\ DOMAIN << >> = {}
  BY EmptyIs
<1>10. EngineOk(w.h264, w.backEnds, w.works, backEndType)
  BY <1>1, <1>2, <1>4, <1>9 DEF EngineOk, PoolOk, NoneInUse
<1> QED
  BY <1>2, <1>3, <1>5, <1>8, <1>10 DEF WorldOk, Safe, w

LEMMA NextSafe ==
  ASSUME WellUsed, Safe, [Next]_vars
  PROVE  Safe'
<1> USE DEF WellUsed
<1>1. CASE Progress
  <2>1. ASSUME NEW work \in works,
               \/ RunRaw(work) \/ RawDone(work)
               \/ RunTight(work) \/ TightJobDone(work) \/ RunFinish(work)
               \/ TightFinished(work) \/ RunFfmpeg(work) \/ FfmpegDone(work)
        PROVE  Safe'
    BY <2>1, RunRawSafe, RawDoneSafe, RunTightSafe, TightJobDoneSafe, RunFinishSafe,
       TightFinishedSafe, RunFfmpegSafe, FfmpegDoneSafe
  <2>2. ASSUME NEW b \in DOMAIN backEnds, DeviceEncodes(b) \/ ProcessDstBufs(b)
        PROVE  Safe'
    BY <2>2, DeviceEncodesSafe, ProcessDstBufsSafe
  <2> QED
    BY <1>1, <2>1, <2>2 DEF Progress
<1>2. CASE \E kind \in {"raw", "tight", "h264"}, comp \in Composites, damage \in Damages :
             EncodeFrame(kind, comp, damage)
  BY <1>2, EncodeFrameSafe
<1>3. CASE CloseClient \/ RequestKeyFrame \/ ResetEncoder
  BY <1>3, CloseClientSafe, RequestKeyFrameSafe, ResetEncoderSafe
<1>4. CASE \E q \in Qualities : SetQuality(q)
  BY <1>4, SetQualitySafe
<1>5. CASE UNCHANGED vars
  BY <1>5 DEF Safe, World, vars
<1> QED
  BY <1>1, <1>2, <1>3, <1>4, <1>5 DEF Next

LEMMA SafeNoUse ==
  ASSUME Safe
  PROVE  NoUseAfterFree
<1> DEFINE w == World
<1>1. /\ w.works = works /\ w.raw = raw /\ w.tight = tight /\ w.backEnds = backEnds
      /\ w.fault = fault /\ WorldOk(w, 0, 0, backEndType)
  BY WorldIs DEF Safe
<1> HIDE DEF w
<1>2. /\ Kinds(works) /\ PoolOk(backEnds, works, backEndType)
      /\ fault => backEndType = "v4l2"
      /\ Of(works, "raw") # {} => raw # None
      /\ Of(works, "tight") # {} => tight # None
      /\ Of(works, "finish") # {} => tight # None
  BY <1>1 DEF WorldOk, Refs, EngineOk, RawOk, TightOk
<1>3. ASSUME NEW k \in works
      PROVE  CASE k.of = "raw" -> raw # None
               [] k.of \in {"tight", "finish"} -> tight # None
               [] k.of = "ffmpeg" -> backEnds[k.id].live
  <2>1. k.of \in {"raw", "tight", "finish", "ffmpeg"} /\ k \in Of(works, k.of)
    BY <1>2 DEF Kinds, Of
  <2>2. k.of = "ffmpeg" => backEnds[k.id].live
    BY <1>2, <2>1 DEF PoolOk, BackEndOk
  <2> QED
    BY <1>2, <2>1, <2>2
<1> QED
  BY <1>2, <1>3 DEF NoUseAfterFree

LEMMA SafeBarrier ==
  ASSUME Safe
  PROVE  BarrierCounts
<1> DEFINE w == World
<1>1. /\ w.works = works /\ w.h264 = h264 /\ w.backEnds = backEnds /\ w.client = client
      /\ WorldOk(w, 0, 0, backEndType)
  BY WorldIs DEF Safe
<1> HIDE DEF w
<1>2. /\ PoolOk(backEnds, works, backEndType)
      /\ h264 = None => NoneInUse(backEnds)
      /\ h264 # None => H264Ok(h264, backEnds, backEndType)
      /\ (h264 # None /\ ~client.updating) => h264.barrier = 0
  BY <1>1 DEF WorldOk, EngineOk
<1>3. ASSUME NEW b \in DOMAIN backEnds, InUse(backEnds[b]),
             backEnds[b].cur # None \/ backEnds[b].ready # << >>
      PROVE  h264 # None /\ h264.barrier > 0
  <2>1. h264 # None
    BY <1>2, <1>3 DEF NoneInUse
  <2>2. h264.barrier \in Nat /\ BarrierOk(backEnds, h264.barrier)
    BY <1>2, <2>1 DEF H264Ok
  <2>3. b \in Nat
    BY <1>2, DueIs
  <2>4. Load(backEnds[b]) # 0
    BY <1>2, <1>3, LoadIs DEF PoolOk
  <2>5. Due(backEnds, b) # 0
    BY <1>3, <2>4 DEF Due
  <2>6. h264.barrier # 0
    BY <2>2, <2>3, <2>5, NoneDue
  <2> QED
    BY <2>1, <2>2, <2>6
<1>4. ASSUME NEW k \in works, k.of = "ffmpeg", ~backEnds[k.id].pleaseDestroy
      PROVE  h264 # None /\ h264.barrier > 0
  <2>1. k \in Of(works, "ffmpeg")
    BY <1>4 DEF Of
  <2>2. k.id \in DOMAIN backEnds /\ backEnds[k.id].cur # None /\ backEnds[k.id].live
    BY <1>2, <2>1 DEF PoolOk, BackEndOk
  <2> QED
    BY <1>3, <1>4, <2>2 DEF InUse
<1>5. ASSUME NEW b \in DOMAIN backEnds, backEnds[b].live, backEnds[b].ready # << >>
      PROVE  h264 # None /\ h264.barrier > 0
  <2>1. ~backEnds[b].pleaseDestroy
    BY <1>2, <1>5 DEF PoolOk, BackEndOk
  <2> QED
    BY <1>3, <1>5, <2>1 DEF InUse
<1> QED
  BY <1>2, <1>4, <1>5 DEF BarrierCounts

LEMMA SafeNothing ==
  ASSUME Safe
  PROVE  NothingLeft
<1> SUFFICES ASSUME ~client.open, works = {}
             PROVE  /\ raw = None /\ tight = None /\ h264 = None
                    /\ \A b \in DOMAIN backEnds : ~backEnds[b].live
  BY DEF NothingLeft
<1> DEFINE w == World
<1>1. /\ w.works = works /\ w.h264 = h264 /\ w.backEnds = backEnds /\ w.client = client
      /\ w.raw = raw /\ w.tight = tight /\ WorldOk(w, 0, 0, backEndType)
  BY WorldIs DEF Safe
<1> HIDE DEF w
<1>2. client.encoder = "none" /\ ~client.keepsTight
  BY <1>1 DEF WorldOk, ClientOk
<1>3. /\ Bit(client.encoder = "raw") + 0 = 0
      /\ Bit(client.encoder = "tight") + (Bit(client.keepsTight) + 0) = 0
  BY <1>2 DEF Bit
<1>4. RawOk(raw, works, 0) /\ TightOk(tight, works, 0)
  BY <1>1, <1>3 DEF WorldOk, Refs
<1>5. \A kind : Of(works, kind) = {}
  BY DEF Of
<1>6. raw = None
  <2>1. Bit(Of(works, "raw") # {}) + 0 = 0
    BY <1>5 DEF Bit
  <2> QED
    BY <1>4, <2>1 DEF RawOk
<1>7. tight = None
  <2>1. Cardinality(Of(works, "tight")) = 0 /\ Bit(Of(works, "finish") # {}) = 0
    BY <1>5, FS_EmptySet DEF Bit
  <2>2. tight # None => tight.ref = 0 + 0 + 0 /\ tight.ref # 0
    BY <1>4, <2>1 DEF TightOk
  <2> QED
    BY <2>2
<1>8. h264 = None
  BY <1>1, <1>2 DEF WorldOk
<1>9. NoneInUse(backEnds) /\ PoolOk(backEnds, works, backEndType)
  BY <1>1, <1>8 DEF WorldOk, EngineOk
<1>10. ASSUME NEW b \in DOMAIN backEnds PROVE ~backEnds[b].live
  <2>1. backEnds[b].cur = None
    BY <1>5, <1>9 DEF PoolOk
  <2>2. ~backEnds[b].pleaseDestroy
    BY <1>9, <2>1 DEF PoolOk, BackEndOk
  <2> QED
    BY <1>9, <2>2 DEF NoneInUse, InUse
<1> QED
  BY <1>6, <1>7, <1>8, <1>10

(* References are counted right, whatever the interleaving of workers,      *)
(* device, client and callbacks: however many streams, frames and displays  *)
(* there are, no encoder and no back end is used after it was freed, but    *)
(* for a V4L2 back end whose packet handler destroys it, and when a client  *)
(* is gone and its last work is done with, none of them is left.            *)
THEOREM EncodersLiveAsNeeded ==
  ASSUME WellUsed
  PROVE  Spec => []Lifetimes
<1>1. Init => Safe
  BY InitSafe
<1>2. Safe /\ [Next]_vars => Safe'
  BY NextSafe
<1>3. Safe => Lifetimes
  BY SafeNoUse, SafeNothing DEF Lifetimes
<1> QED
  BY <1>1, <1>2, <1>3, PTL DEF Spec

(* frame_barrier never falls short of the packets to come: the assertions   *)
(* of open_h264_handle_packet and open_h264_encode hold, whichever back     *)
(* ends are resized, reset or destroyed with frames in flight.              *)
THEOREM BarrierIsSound ==
  ASSUME WellUsed
  PROVE  Spec => []BarrierCounts
<1>1. Init => Safe
  BY InitSafe
<1>2. Safe /\ [Next]_vars => Safe'
  BY NextSafe
<1>3. Safe => BarrierCounts
  BY SafeBarrier
<1> QED
  BY <1>1, <1>2, <1>3, PTL DEF Spec
=============================================================================
