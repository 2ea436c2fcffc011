------------------------------ MODULE Encoders ------------------------------
(***************************************************************************)
(* The encoders of one client: raw, tight and Open H.264 with its two back *)
(* ends (enc/raw.c, enc/tight.c, enc/interface.c, enc/h264), driven as     *)
(* server.c does: one frame at a time, by ensure_encoder and               *)
(* encoder_encode, with the result handed to the client's callback.  The   *)
(* callback may close the client, or start the next frame before it        *)
(* returns, so an encoder can be destroyed or reused under the function    *)
(* that called it.                                                         *)
(*                                                                         *)
(* A frame is a sequence of framebuffers, each at a column x and w columns *)
(* wide; a column is the width of a tile.  A rectangle is the columns from *)
(* x1 up to x2.  ZRLE is the subject of ZrlePool and ParallelDeflate.      *)
(***************************************************************************)
EXTENDS Integers, FiniteSets, SequencesExt

CONSTANTS
  Composites,       \* what the displays can be
  Damages,          \* the damage of frames: sets of columns
  Qualities,        \* what the client can ask for: "lossless" or "jpeg"
  NStreams,         \* zlib streams of the tight encoder: 4 in the code
  NSrcBufs,         \* N_SRC_BUFS: 3 in the code
  MaxRects,         \* UINT16_MAX
  MaxFrames,        \* bound: frames encoded
  MaxBackEnds,      \* bound: back ends created
  DropsFrames       \* a frame may be dropped because formats changed

VARIABLES
  raw, tight, h264, \* the encoders, None if there is none
  backEnds,         \* every H.264 back end ever created
  works,            \* aml_work objects: at a worker, or with it behind them
  client,           \* the client, as far as encoding goes
  peer,             \* what the viewer at the other end made of the results
  backEndType,      \* what h264_encoder_create gets
  fault             \* a back end was used that its packet handler destroyed

vars == <<raw, tight, h264, backEnds, works, client, peer, backEndType, fault>>

None == [none |-> TRUE]
Streams == 0..(NStreams - 1)

(* The state as a record, so that the steps of a handler can be composed. *)
World == [raw |-> raw, tight |-> tight, h264 |-> h264, backEnds |-> backEnds,
          works |-> works, client |-> client, peer |-> peer, fault |-> fault]

Becomes(new) ==
  \E w \in {new} :
    /\ raw' = w.raw /\ tight' = w.tight /\ h264' = w.h264
    /\ backEnds' = w.backEnds /\ works' = w.works
    /\ client' = w.client /\ peer' = w.peer /\ fault' = w.fault
    /\ UNCHANGED backEndType

Columns(fb) == fb.x..(fb.x + fb.w - 1)
Visible(comp) == UNION {Columns(comp[i]) : i \in DOMAIN comp}

-----------------------------------------------------------------------------
(* H.264 back ends.  Both: the frames fed and the packets made so far;      *)
(* nextKey is next_frame_should_be_keyframe; asked says that a key frame    *)
(* was asked for since the last frame.  FFmpeg: queue is fb_queue, cur      *)
(* current_fb, packet current_packet.  V4L2: src the states of the source   *)
(* buffers and at src_buf_index, device what the device has to encode,      *)
(* ready what it has encoded.                                               *)

SrcBufsNew == [i \in 1..NSrcBufs |-> "free"]

V4l2New ==
  [type |-> "v4l2", live |-> TRUE, nextKey |-> FALSE, asked |-> FALSE, made |-> 0,
   queue |-> << >>, cur |-> None, packet |-> << >>, pleaseDestroy |-> FALSE,
   src |-> SrcBufsNew, at |-> 1, device |-> << >>, ready |-> << >>]

FfmpegNew == [V4l2New EXCEPT !.type = "ffmpeg", !.nextKey = TRUE]

(* Mutant: a new FFmpeg encoder does not start with a key frame. *)
BackEndNewInter(type) == [V4l2New EXCEPT !.type = type]

(* h264_encoder_create: the FFmpeg encoder asks for a key frame first. *)
BackEndNew(type) == IF type = "ffmpeg" THEN FfmpegNew ELSE V4l2New

(* h264_encoder__schedule_work. *)
ScheduleWork(w, b) ==
  LET e == w.backEnds[b]
  IN  IF e.cur # None \/ e.queue = << >> THEN w
      ELSE [w EXCEPT
             !.backEnds[b] = [e EXCEPT !.cur = [Head(e.queue) EXCEPT !.key = e.nextKey],
                                       !.queue = Tail(e.queue),
                                       !.nextKey = FALSE],
             !.works = @ \cup {[of |-> "ffmpeg", id |-> b, stage |-> "run"]}]

FfmpegFeed(w, b, f) ==
  LET e == w.backEnds[b]
      fed == [e EXCEPT !.queue = Append(@, [frame |-> f, key |-> FALSE, asked |-> e.asked]),
                       !.asked = FALSE]
  IN  ScheduleWork([w EXCEPT !.backEnds[b] = fed], b)

(* process_src_bufs: what the device has done with is free again. *)
ProcessSrcBufs(e) ==
  [e EXCEPT !.src = [i \in DOMAIN @ |-> IF @[i] = "done" THEN "free" ELSE @[i]]]

(* take_src_buffer looks at every buffer, from src_buf_index on. *)
SrcOrder(at) == [k \in 1..NSrcBufs |-> ((at + k - 2) % NSrcBufs) + 1]

(* h264_encoder_v4l2m2m_feed and encode_buffer.  Out of source buffers, the *)
(* frame is dropped.                                                        *)
V4l2Feed(w, b, f) ==
  LET e == ProcessSrcBufs(w.backEnds[b])
      free == {k \in 1..NSrcBufs : e.src[SrcOrder(e.at)[k]] = "free"}
  IN  IF free = {} THEN [w EXCEPT !.backEnds[b] = e, !.client.lost = TRUE]
      ELSE LET k == CHOOSE j \in free : \A i \in free : j <= i
               s == SrcOrder(e.at)[k]
           IN  [w EXCEPT !.backEnds[b] = [e EXCEPT
                  !.src[s] = "queued",
                  !.at = (s % NSrcBufs) + 1,
                  !.device = Append(@, [frame |-> f, key |-> e.nextKey,
                                        asked |-> e.asked, src |-> s]),
                  !.nextKey = FALSE, !.asked = FALSE]]

Feed(w, b, f) ==
  IF w.backEnds[b].type = "ffmpeg" THEN FfmpegFeed(w, b, f) ELSE V4l2Feed(w, b, f)

(* h264_encoder_ffmpeg_destroy waits for the worker to be done;             *)
(* h264_encoder_v4l2m2m_destroy waits in claim_all_src_bufs for the device. *)
BackEndDestroyed(e) ==
  IF e.type = "ffmpeg" /\ e.cur # None
  THEN [e EXCEPT !.pleaseDestroy = TRUE]
  ELSE [BackEndNew(e.type) EXCEPT !.live = FALSE]

BackEndDestroy(w, b) == [w EXCEPT !.backEnds[b] = BackEndDestroyed(@)]

-----------------------------------------------------------------------------
(* Open H.264.  A context: x, the framebuffer's width, its back end, the    *)
(* packets pending, and quality_changed.                                    *)
H264New == [ref |-> 1, contexts |-> << >>, barrier |-> 0, quality |-> "lossless",
            fullReset |-> FALSE, frame |-> None]

DestroyAllContexts(w) ==
  LET ids == {w.h264.contexts[i].id : i \in DOMAIN w.h264.contexts}
  IN  [w EXCEPT !.h264.contexts = << >>,
                !.backEnds = [b \in DOMAIN @ |->
                  IF b \in ids THEN BackEndDestroyed(@[b]) ELSE @[b]]]

(* open_h264_set_quality: no loss is taken as quality 6, the initial value. *)
H264SetQuality(w, q) ==
  LET h == w.h264
      contexts == [i \in DOMAIN h.contexts |->
        [h.contexts[i] EXCEPT !.qualityChanged = @ \/ q # h.quality]]
  IN  [w EXCEPT !.h264 = [h EXCEPT !.quality = q, !.contexts = contexts]]

(* open_h264_ctx_encode of the context at index i: open_h264_resize makes a *)
(* new back end before it destroys the old one.                             *)
ContextEncode(w, i, fb, f) ==
  LET c == w.h264.contexts[i]
      b == Len(w.backEnds) + 1
      made == [w EXCEPT
        !.backEnds = Append(@, BackEndNew(backEndType)),
        !.h264.contexts = [j \in DOMAIN @ |->
           IF j # i THEN @[j]
           ELSE [c EXCEPT !.w = fb.w, !.id = b, !.qualityChanged = FALSE]]]
  IN  IF c.w = fb.w /\ ~c.qualityChanged THEN Feed(w, c.id, f)
      ELSE Feed(IF c.id = 0 THEN made ELSE BackEndDestroy(made, c.id), b, f)

(* open_h264_get_context: contexts are known by their position. *)
GetContext(w, fb) ==
  IF \E i \in DOMAIN w.h264.contexts : w.h264.contexts[i].x = fb.x THEN w
  ELSE [w EXCEPT !.h264.contexts = Append(@,
          [x |-> fb.x, w |-> 0, id |-> 0, pending |-> << >>, qualityChanged |-> FALSE])]

IndexAt(w, fb) ==
  CHOOSE i \in DOMAIN w.h264.contexts :
    /\ w.h264.contexts[i].x = fb.x
    /\ \A j \in 1..(i - 1) : w.h264.contexts[j].x # fb.x

(* Mutant: the framebuffer is not counted. *)
FeedFbUncounted(w, fb, f) ==
  LET u == GetContext(w, fb)
  IN  ContextEncode(u, IndexAt(u, fb), fb, f)

FeedFb(w, fb, f) ==
  LET u == GetContext(w, fb)
  IN  [ContextEncode(u, IndexAt(u, fb), fb, f) EXCEPT !.h264.barrier = @ + 1]

(* Mutant: framebuffers without damage are waited for too. *)
EncodeFbAll(w, fb, damage, f) ==
  IF Columns(fb) \cap damage = {} THEN [w EXCEPT !.h264.barrier = @ + 1]
  ELSE FeedFb(w, fb, f)

(* One turn of the loop of open_h264_encode; frame_barrier counts the       *)
(* framebuffers that are encoded.                                           *)
EncodeFb(w, fb, damage, f) ==
  IF Columns(fb) \cap damage = {} THEN w ELSE FeedFb(w, fb, f)

(* open_h264_encode: after[n] is the world when n framebuffers were seen. *)
H264Encode(w, comp, damage, f) ==
  LET after[n \in 0..Len(comp)] ==
        IF n = 0 THEN [w EXCEPT !.h264.barrier = 0]
        ELSE EncodeFb(after[n - 1], comp[n], damage, f)
  IN  [after[Len(comp)] EXCEPT
         !.h264.frame = [id |-> f, comp |-> comp, damage |-> damage]]

-----------------------------------------------------------------------------
(* Raw.  The work has a copy of the frame and of the damage. *)
RawNew == [ref |-> 1, work |-> FALSE]

RawEncode(w, comp, damage, f) ==
  [w EXCEPT !.raw = [ref |-> @.ref + 1, work |-> TRUE],
            !.works = @ \cup {[of |-> "raw", stage |-> "run",
                               frame |-> f, comp |-> comp, damage |-> damage]}]

(* The rectangles of a region: its runs of columns, from the left. *)
RunsOf(region) ==
  SetToSortSeq({r \in region \X {c + 1 : c \in region} :
                  /\ r[1] < r[2] /\ r[1]..(r[2] - 1) \subseteq region
                  /\ r[1] - 1 \notin region /\ r[2] \notin region},
               LAMBDA a, b : a[1] < b[1])

(* raw_encoder_do_work: too many rectangles become one per framebuffer. *)
RawRects(work) ==
  LET part(fb) == RunsOf(Columns(fb) \cap work.damage)
      parts == FlattenSeq([i \in DOMAIN work.comp |-> part(work.comp[i])])
      whole == [i \in DOMAIN work.comp |->
                  <<work.comp[i].x, work.comp[i].x + work.comp[i].w>>]
      runs == IF Len(parts) > MaxRects THEN whole ELSE parts
  IN  [i \in DOMAIN runs |->
         [x1 |-> runs[i][1], x2 |-> runs[i][2], frame |-> work.frame, type |-> "raw"]]

-----------------------------------------------------------------------------
(* Tight.  grid: for every framebuffer, the state of its tiles.  deflated:  *)
(* what each zlib stream was given.                                         *)
TightNew ==
  [ref |-> 1, w |-> 0, n |-> 0, grid |-> << >>, frame |-> None, quality |-> "lossless",
   nRects |-> 0, nJobs |-> 0, dst |-> << >>, deflated |-> [i \in Streams |-> << >>]]

TotalWidth(comp) == Max({comp[i].x + comp[i].w : i \in DOMAIN comp})

(* tight_encoder_resize: the grid is kept if the whole is as wide as before *)
(* and has as many framebuffers.                                            *)
TightResize(t, comp) ==
  IF t.w = TotalWidth(comp) /\ t.n = Len(comp) THEN t
  ELSE [t EXCEPT !.w = TotalWidth(comp), !.n = Len(comp),
                 !.grid = [i \in DOMAIN comp |-> [c \in 0..(comp[i].w - 1) |-> "ready"]]]

(* Mutant: the place of the framebuffer is forgotten. *)
ApplyDamageAtOrigin(t, comp, damage) ==
  [t EXCEPT !.grid = [i \in DOMAIN @ |-> [c \in DOMAIN @[i] |->
     IF c \in damage THEN "damaged" ELSE "ready"]]]

(* tight_apply_damage. *)
ApplyDamage(t, comp, damage) ==
  [t EXCEPT !.grid = [i \in DOMAIN @ |-> [c \in DOMAIN @[i] |->
     IF comp[i].x + c \in damage THEN "damaged" ELSE "ready"]]]

TilesIn(t, state) ==
  {p \in UNION {{i} \X DOMAIN t.grid[i] : i \in DOMAIN t.grid} :
     t.grid[p[1]][p[2]] = state}

(* Mutant: the jobs do not keep the encoder alive. *)
TightJobRefsNone == 0

(* tight_schedule_zs_work takes a reference for each job. *)
TightJobRefs == NStreams

(* tight_encoder_encode and tight_schedule_encoding_jobs. *)
TightEncode(w, comp, damage, f) ==
  LET t == ApplyDamage(TightResize(w.tight, comp), comp, damage)
  IN  [w EXCEPT
        !.tight = [t EXCEPT
          !.frame = [id |-> f, comp |-> comp, damage |-> damage],
          !.nRects = Cardinality(TilesIn(t, "damaged")),
          !.dst = << >>, !.nJobs = NStreams, !.ref = @ + TightJobRefs],
        !.works = @ \cup {[of |-> "tight", stream |-> i, stage |-> "run"] : i \in Streams}]

(* The order in which the code goes over the tiles. *)
Before(p, q) == p[1] < q[1] \/ (p[1] = q[1] /\ p[2] < q[2])

(* do_tight_zs_work: the next tile of the stream is encoded; lossless tiles *)
(* go through the zlib stream.                                              *)
EncodeTile(t, p) ==
  LET tile == [x1 |-> t.frame.comp[p[1]].x + p[2], frame |-> t.frame.id]
  IN  [t EXCEPT !.grid[p[1]][p[2]] = "encoded",
                !.deflated[p[2] % NStreams] =
                   IF t.quality = "lossless" THEN Append(@, tile) ELSE @]

TightTodo(t, stream) == {p \in TilesIn(t, "damaged") : p[2] % NStreams = stream}

(* Mutant: the finished tiles go out column by column from the right. *)
FinishOrderReversed(p, q) == Before(q, p)

FinishOrder(p, q) == Before(p, q)

(* tight_finish: the rectangles of the encoded tiles. *)
TightRects(t) ==
  LET tiles == SetToSortSeq(TilesIn(t, "encoded"), FinishOrder)
      x(p) == t.frame.comp[p[1]].x + p[2]
  IN  [k \in DOMAIN tiles |->
         [x1 |-> x(tiles[k]), x2 |-> x(tiles[k]) + 1, frame |-> t.frame.id,
          type |-> IF t.quality = "lossless" THEN "zlib" ELSE "jpeg",
          stream |-> tiles[k][2] % NStreams]]

-----------------------------------------------------------------------------
(* encoder_ref and encoder_unref; the destroy functions. *)
Destroyed(w, kind) ==
  CASE kind = "raw"   -> [w EXCEPT !.raw = None,
                                   !.works = {k \in @ : k.of # "raw"}]
    [] kind = "tight" -> [w EXCEPT !.tight = None]
    [] kind = "h264"  -> [DestroyAllContexts(w) EXCEPT !.h264 = None]

Unref(w, kind) ==
  IF w[kind].ref = 1 THEN Destroyed(w, kind) ELSE [w EXCEPT ![kind].ref = @ - 1]

UnrefEncoder(w) == IF w.client.encoder = "none" THEN w ELSE Unref(w, w.client.encoder)

(* Mutant: the tight encoder that is kept for its streams is forgotten. *)
CloseKeepsTight(w) ==
  [UnrefEncoder(w) EXCEPT !.client.open = FALSE, !.client.updating = FALSE,
                          !.client.encoder = "none", !.client.keepsTight = FALSE]

(* client_close: on_done is cleared, the encoder and the tight encoder that *)
(* is kept for its streams are let go.                                      *)
Close(w) ==
  LET v == UnrefEncoder(w)
      u == IF w.client.keepsTight THEN Unref(v, "tight") ELSE v
  IN  [u EXCEPT !.client.open = FALSE, !.client.updating = FALSE,
                !.client.encoder = "none", !.client.keepsTight = FALSE]

(* ensure_encoder. *)
EnsureEncoder(w, kind) ==
  IF w.client.encoder = kind THEN w
  ELSE LET v == UnrefEncoder(w)
           u == CASE kind = "raw"  -> [v EXCEPT !.raw = RawNew]
                  [] kind = "h264" -> [v EXCEPT !.h264 = H264New]
                  [] kind = "tight" ->
                       IF v.client.keepsTight THEN [v EXCEPT !.tight.ref = @ + 1]
                       ELSE [v EXCEPT !.tight = [TightNew EXCEPT !.ref = 2],
                                      !.client.keepsTight = TRUE]
       IN  [u EXCEPT !.client.encoder = kind]

(* on_compositing_done: encoder_set_quality and encoder_encode. *)
Encode(w, kind, comp, damage) ==
  LET f == w.client.frame + 1
      v == EnsureEncoder([w EXCEPT !.client.frame = f, !.client.updating = TRUE], kind)
  IN  CASE kind = "raw"   -> RawEncode(v, comp, damage, f)
        [] kind = "tight" -> TightEncode([v EXCEPT !.tight.quality = w.client.quality],
                                         comp, damage, f)
        [] kind = "h264"  -> H264Encode(H264SetQuality(v, w.client.quality),
                                        comp, damage, f)

-----------------------------------------------------------------------------
(* The viewer: it inflates the tiles of each zlib stream as they come, and  *)
(* decodes each H.264 packet with the context at its place.                 *)
Inflate(inflated, rect) ==
  IF rect.type # "zlib" THEN inflated
  ELSE [inflated EXCEPT ![rect.stream] = Append(@, [x1 |-> rect.x1, frame |-> rect.frame])]

Decode(p, rect) ==
  IF rect.type # "h264" THEN p
  ELSE LET follows == /\ rect.x1 \in DOMAIN p.decoder
                      /\ p.decoder[rect.x1] = [id |-> rect.id, n |-> rect.n - 1]
       IN  [p EXCEPT
             !.decodable = @ /\ (rect.key \/ follows) /\ (rect.asked => rect.key),
             !.decoder = [x \in DOMAIN @ \cup {rect.x1} |->
               IF x = rect.x1 THEN [id |-> rect.id, n |-> rect.n] ELSE @[x]]]

Receive(p, result) ==
  LET decoded == FoldLeft(Decode, p, result.rects)
  IN  [decoded EXCEPT
        !.inflated = FoldLeft(Inflate, @, result.rects),
        !.decoder = IF result.resetAll THEN << >> ELSE @,
        !.last = result]

(* What the client's callback can lead to: the frame is sent and the next   *)
(* is begun later, or at once; the client is closed; or the frame is        *)
(* dropped, because formats changed.                                        *)
Outcomes(w) ==
  IF ~w.client.open THEN {[how |-> "none"]}
  ELSE {[how |-> "later"], [how |-> "close"]}
       \cup {c \in {[how |-> "drop"]} : DropsFrames}
       \cup {c \in [how : {"next"}, kind : {"raw", "tight", "h264"},
                    comp : Composites, damage : Damages] :
               /\ w.client.frame < MaxFrames
               /\ c.damage \subseteq Visible(c.comp)
               /\ c.kind = "h264" => Len(w.backEnds) + Len(c.comp) <= MaxBackEnds}

(* encoder_finish_frame: on_encode_frame_done and finish_fb_update, unless  *)
(* the client is gone.                                                      *)
FinishFrame(w, result, choice) ==
  LET sent == [w EXCEPT !.peer = Receive(@, result), !.client.updating = FALSE]
  IN  IF ~w.client.open THEN w
      ELSE CASE choice.how = "later" -> sent
             [] choice.how = "drop"  -> [w EXCEPT !.client.updating = FALSE]
             [] choice.how = "close" -> Close(w)
             [] choice.how = "next"  -> Encode(sent, choice.kind, choice.comp, choice.damage)

-----------------------------------------------------------------------------
(* The application and the client's messages. *)
EncodeFrame(kind, comp, damage) ==
  /\ client.open /\ ~client.updating /\ client.frame < MaxFrames
  /\ damage \subseteq Visible(comp)
  /\ kind = "h264" => Len(backEnds) + Len(comp) <= MaxBackEnds
  /\ Becomes(Encode(World, kind, comp, damage))

CloseClient ==
  /\ client.open
  /\ Becomes(Close(World))

SetQuality(q) ==
  /\ client.open /\ q # client.quality
  /\ Becomes([World EXCEPT !.client.quality = q])

(* encoder_request_key_frame and open_h264_request_keyframe. *)
RequestKeyFrame ==
  /\ client.open /\ client.encoder = "h264"
  /\ LET ids == {h264.contexts[i].id : i \in DOMAIN h264.contexts}
     IN  Becomes([World EXCEPT !.backEnds = [b \in DOMAIN @ |->
           IF b \in ids THEN [@[b] EXCEPT !.nextKey = TRUE, !.asked = TRUE] ELSE @[b]]])

(* nvnc__reset_encoders and open_h264_reset: a display moved or went. *)
ResetEncoder ==
  /\ client.open /\ client.encoder = "h264" /\ ~h264.fullReset
  /\ Becomes([World EXCEPT !.h264.fullReset = TRUE])

-----------------------------------------------------------------------------
Stage(work) == (works \ {work}) \cup {[work EXCEPT !.stage = "done"]}

RunRaw(work) ==
  /\ work.of = "raw" /\ work.stage = "run"
  /\ Becomes([World EXCEPT !.works = Stage(work)])

(* raw_encoder_on_done, and raw_encoder_work_destroy when the work goes. *)
RawDone(work) ==
  /\ work.of = "raw" /\ work.stage = "done"
  /\ LET w == [World EXCEPT !.works = @ \ {work}, !.raw.work = FALSE]
         rects == RawRects(work)
         result == [n |-> Len(rects), rects |-> rects, resetAll |-> FALSE,
                    frame |-> work.frame, comp |-> work.comp, damage |-> work.damage]
     IN  \E c \in Outcomes(w) : Becomes(Unref(FinishFrame(w, result, c), "raw"))

RunTight(work) ==
  /\ work.of = "tight" /\ work.stage = "run"
  /\ LET todo == TightTodo(tight, work.stream)
     IN  IF todo = {} THEN Becomes([World EXCEPT !.works = Stage(work)])
         ELSE Becomes([World EXCEPT !.tight = EncodeTile(@,
                CHOOSE p \in todo : \A q \in todo : p = q \/ Before(p, q))])

(* schedule_tight_finish. *)
ScheduleTightFinish(w) ==
  [w EXCEPT !.tight.ref = @ + 1,
            !.works = @ \cup {[of |-> "finish", stage |-> "run"]}]

(* on_tight_zs_work_done. *)
TightJobDone(work) ==
  /\ work.of = "tight" /\ work.stage = "done"
  /\ LET w == [World EXCEPT !.works = @ \ {work}, !.tight.nJobs = @ - 1]
         v == IF w.tight.nJobs # 0 THEN w ELSE ScheduleTightFinish(w)
     IN  Becomes(Unref(v, "tight"))

RunFinish(work) ==
  /\ work.of = "finish" /\ work.stage = "run"
  /\ Becomes([World EXCEPT
       !.works = Stage(work),
       !.tight.dst = TightRects(tight),
       !.tight.grid = [i \in DOMAIN @ |-> [c \in DOMAIN @[i] |->
          IF @[i][c] = "encoded" THEN "ready" ELSE @[i][c]]]])

(* on_tight_finished. *)
TightFinished(work) ==
  /\ work.of = "finish" /\ work.stage = "done"
  /\ LET w == [World EXCEPT !.works = @ \ {work}, !.tight.frame = None]
         f == tight.frame
         result == [n |-> tight.nRects, rects |-> tight.dst, resetAll |-> FALSE,
                    frame |-> f.id, comp |-> f.comp, damage |-> f.damage]
     IN  \E c \in Outcomes(w) : Becomes(Unref(FinishFrame(w, result, c), "tight"))

-----------------------------------------------------------------------------
(* open_h264_finish_frame: the rectangles of the pending packets, then the  *)
(* reset of all contexts.                                                   *)
H264Result(h) ==
  LET packets == SelectSeq(h.contexts, LAMBDA c : c.pending # << >>)
      rects == [i \in DOMAIN packets |->
        LET c == packets[i]  p == c.pending[1]
        IN  [x1 |-> c.x, x2 |-> c.x + c.w, frame |-> p.frame, type |-> "h264",
             id |-> c.id, n |-> p.n, key |-> p.key, asked |-> p.asked]]
  IN  [n |-> Len(packets), rects |-> rects, resetAll |-> h.fullReset,
       frame |-> h.frame.id, comp |-> h.frame.comp, damage |-> h.frame.damage]

H264FinishFrame(w, choice) ==
  LET cleared == [w EXCEPT
        !.h264.contexts = [i \in DOMAIN @ |-> [@[i] EXCEPT !.pending = << >>]]]
      reset == IF w.h264.fullReset
               THEN DestroyAllContexts([cleared EXCEPT !.h264.fullReset = FALSE])
               ELSE cleared
  IN  FinishFrame(reset, H264Result(w.h264), choice)

(* open_h264_handle_packet: the last packet of a frame finishes it. *)
HandlePacket(w, b, packet, choice) ==
  LET h == w.h264
      at == CHOOSE i \in DOMAIN h.contexts : h.contexts[i].id = b
      v == [w EXCEPT !.h264 = [h EXCEPT !.contexts[at].pending = Append(@, packet),
                                        !.barrier = @ - 1]]
  IN  IF v.h264.barrier # 0 THEN v ELSE H264FinishFrame(v, choice)

(* What can become of a frame in FFmpeg: its render node may not be the one *)
(* that the pipeline was made for, and each step of making a pipeline, or   *)
(* of encoding, may fail.                                                   *)
Pipelines == [ok : BOOLEAN, newNode : BOOLEAN]

(* A new pipeline starts with a key frame, whatever it was asked for. *)
IsKeyFrame(cur, pipeline) == cur.key \/ pipeline.newNode

(* h264_encoder__do_work: any failure leaves the packet empty. *)
RunFfmpeg(work) ==
  /\ work.of = "ffmpeg" /\ work.stage = "run"
  /\ LET e == backEnds[work.id]
     IN  \E p \in Pipelines :
           Becomes([World EXCEPT
             !.works = Stage(work),
             !.backEnds[work.id] = [e EXCEPT
               !.made = IF p.ok THEN @ + 1 ELSE @,
               !.packet = IF p.ok THEN <<[frame |-> e.cur.frame, key |-> IsKeyFrame(e.cur, p),
                                          asked |-> e.cur.asked, n |-> e.made + 1]>>
                                  ELSE << >>]])

(* h264_encoder__on_work_done. *)
FfmpegDone(work) ==
  /\ work.of = "ffmpeg" /\ work.stage = "done"
  /\ LET b == work.id
         packet == backEnds[b].packet
         w == [World EXCEPT !.works = @ \ {work}, !.backEnds[b].cur = None]
         v == ScheduleWork([w EXCEPT !.backEnds[b].packet = << >>], b)
     IN  IF w.backEnds[b].pleaseDestroy THEN Becomes(BackEndDestroy(w, b))
         ELSE IF packet = << >> THEN Becomes([w EXCEPT !.client.lost = TRUE])
         ELSE \E c \in Outcomes(v) : Becomes(HandlePacket(v, b, packet[1], c))

(* The device encodes the next frame and is done with its source buffer.    *)
(* Its first frame is a key frame anyway.                                   *)
DeviceEncodes(b) ==
  /\ backEnds[b].live /\ backEnds[b].device # << >>
  /\ LET e == backEnds[b]
         f == Head(e.device)
     IN  Becomes([World EXCEPT !.backEnds[b] = [e EXCEPT
           !.device = Tail(@), !.src[f.src] = "done", !.made = @ + 1,
           !.ready = Append(@, [frame |-> f.frame, key |-> f.key \/ e.made = 0,
                                asked |-> f.asked, n |-> e.made + 1])]])

(* process_dst_bufs, for a packet: the buffer is given back to the device   *)
(* through the back end after the handler has returned, which may have      *)
(* destroyed it: the client was closed, or its next frame resized or reset. *)
ProcessDstBufs(b) ==
  /\ backEnds[b].live /\ backEnds[b].ready # << >>
  /\ LET w == [World EXCEPT !.backEnds[b].ready = Tail(@)]
     IN  \E c \in Outcomes(w) :
           LET v == HandlePacket(w, b, Head(backEnds[b].ready), c)
           IN  Becomes([v EXCEPT !.fault = @ \/ ~v.backEnds[b].live])

-----------------------------------------------------------------------------
Init ==
  /\ raw = None /\ tight = None /\ h264 = None
  /\ backEnds = << >> /\ works = {} /\ fault = FALSE
  /\ client = [open |-> TRUE, encoder |-> "none", keepsTight |-> FALSE, frame |-> 0,
               updating |-> FALSE, quality |-> "lossless", lost |-> FALSE]
  /\ peer = [inflated |-> [i \in Streams |-> << >>], decoder |-> << >>,
             decodable |-> TRUE, last |-> None]
  /\ backEndType \in {"ffmpeg", "v4l2"}

Progress ==
  \/ \E work \in works :
       \/ RunRaw(work) \/ RawDone(work)
       \/ RunTight(work) \/ TightJobDone(work) \/ RunFinish(work) \/ TightFinished(work)
       \/ RunFfmpeg(work) \/ FfmpegDone(work)
  \/ \E b \in DOMAIN backEnds : DeviceEncodes(b) \/ ProcessDstBufs(b)

Next ==
  \/ Progress
  \/ \E kind \in {"raw", "tight", "h264"}, comp \in Composites, damage \in Damages :
       EncodeFrame(kind, comp, damage)
  \/ CloseClient \/ RequestKeyFrame \/ ResetEncoder
  \/ \E q \in Qualities : SetQuality(q)

(* Workers, the event loop and the device go on: weak fairness of Progress, *)
(* which is enabled just when there is something at a worker, in the event  *)
(* loop or at the device.                                                   *)
Busy ==
  \/ works # {}
  \/ \E b \in DOMAIN backEnds :
       backEnds[b].live /\ (backEnds[b].device # << >> \/ backEnds[b].ready # << >>)

Fairness == []<>~Busy \/ []<><<Progress>>_vars

Spec == Init /\ [][Next]_vars /\ Fairness

-----------------------------------------------------------------------------
(* A frame's damage is in its result (raw_encoder_do_work,                  *)
(* tight_apply_damage and tight_finish, open_h264_encode and                *)
(* open_h264_finish_frame): what the viewer gets announces as many          *)
(* rectangles as it has; no column is in two of them; every damaged column  *)
(* is in one; and all of them were made from that frame, not from the one   *)
(* before it or the one begun in the meantime.                              *)
DamageEncoded ==
  LET r == peer.last
      cols(k) == r.rects[k].x1..(r.rects[k].x2 - 1)
  IN  r # None =>
        /\ r.n = Len(r.rects)
        /\ \A i, j \in DOMAIN r.rects : i # j => cols(i) \cap cols(j) = {}
        /\ \A k \in DOMAIN r.rects :
             cols(k) \subseteq Visible(r.comp) /\ r.rects[k].frame = r.frame
        /\ r.damage \subseteq UNION {cols(k) : k \in DOMAIN r.rects}

(* The viewer can decode what it gets.  The zlib streams of the tight       *)
(* encoder stay whole (do_tight_zs_work, tight_finish, ensure_encoder):     *)
(* whatever the workers' interleaving and however often the client goes to  *)
(* other encodings and back, the viewer inflates on each stream just what   *)
(* was deflated on it, in that order; it has all of it when no frame is     *)
(* being encoded.  And every H.264 packet (open_h264_resize,                *)
(* open_h264_reset, h264_encoder__schedule_work, force_key_frame) is a key  *)
(* frame or the next one of the same back end as the packet before it at    *)
(* that place, and the first frame after a request for a key frame is one.  *)
Decodable ==
  /\ peer.decodable
  /\ (client.open /\ tight # None) =>
       \A i \in Streams :
         /\ IsPrefix(peer.inflated[i], tight.deflated[i])
         /\ ~client.updating => peer.inflated[i] = tight.deflated[i]

(* No encoder or back end is used after it was freed: each is there until   *)
(* the last of its jobs is done with it (encoder_ref in                     *)
(* tight_schedule_zs_work and raw_encoder_encode, please_destroy of the     *)
(* FFmpeg back end).  The V4L2 back end is the exception: its packet        *)
(* handler may destroy it, and process_dst_bufs goes on.                    *)
NoUseAfterFree ==
  /\ fault => backEndType = "v4l2"
  /\ \A k \in works :
       CASE k.of = "raw" -> raw # None
         [] k.of \in {"tight", "finish"} -> tight # None
         [] k.of = "ffmpeg" -> backEnds[k.id].live

(* frame_barrier counts the packets that are still to come (the assertions  *)
(* of open_h264_handle_packet and open_h264_encode): it is above zero while *)
(* a back end that was not destroyed has a frame at the worker or a packet  *)
(* to hand over, however contexts were resized and reset since, and zero    *)
(* when the next frame is begun.                                            *)
BarrierCounts ==
  LET waited == h264 # None /\ h264.barrier > 0
  IN  /\ \A k \in works :
           (k.of = "ffmpeg" /\ ~backEnds[k.id].pleaseDestroy) => waited
      /\ \A b \in DOMAIN backEnds :
           (backEnds[b].live /\ backEnds[b].ready # << >>) => waited
      /\ (h264 # None /\ ~client.updating) => h264.barrier = 0

(* A client leaves nothing behind (client_close, encoder_unref,             *)
(* h264_encoder_ffmpeg_destroy): when it is gone and the last of its works  *)
(* is done with, every encoder and every back end was destroyed.            *)
NothingLeft ==
  (~client.open /\ works = {}) =>
    /\ raw = None /\ tight = None /\ h264 = None
    /\ \A b \in DOMAIN backEnds : ~backEnds[b].live

(* References are counted right (encoder_ref and encoder_unref,             *)
(* please_destroy, client_close): an encoder or a back end is there as long *)
(* as somebody uses it, and no longer, but for the V4L2 back end whose      *)
(* packet handler destroys it.                                              *)
Lifetimes == NoUseAfterFree /\ NothingLeft

(* Every frame is finished (n_jobs of the tight encoder, frame_barrier):    *)
(* encoding ends, unless a back end made nothing of it or the client goes.  *)
FrameFinishes == client.updating ~> (~client.updating \/ client.lost)
=============================================================================
