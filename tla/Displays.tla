------------------------------ MODULE Displays ------------------------------
(***************************************************************************)
(* Displays and the damage they cause (display.c, damage-refinery.c and    *)
(* the display functions of server.c), up to what one client shows: frames *)
(* are fed to displays that come, go and move; the damage refinery drops   *)
(* from a frame's damage the tiles that look as they did the last time;    *)
(* an update takes the client's damage and the displays' frames, and is    *)
(* shown when it ends.                                                     *)
(***************************************************************************)
EXTENDS Geometry

CONSTANTS
  TileSide,       \* the side of a tile of the refinery: 32 in the code
  Rows,           \* the pixels of frames, which are one pixel high
  FrameTransforms,\* the transforms of frames
  Positions,      \* the horizontal positions of displays
  LogicalWidths,  \* the logical widths of displays, 0 for none
  MaxDisplays,    \* NVNC_FB_COMPOSITE_MAX
  MaxAdded,       \* bound: displays ever added
  MaxCalls        \* bound: calls of the application

VARIABLES
  displays,       \* nvnc.displays
  nextId,         \* nvnc.next_display_id
  nDamageClients, \* nvnc.n_damage_clients
  otherClient,    \* another client has an encoder that looks at damage
  client,         \* the client that is followed, or None
  calls           \* bound: calls of the application so far

desktop == <<displays, nextId, nDamageClients, otherClient, client, calls>>

None == [none |-> TRUE]

-----------------------------------------------------------------------------
(* The damage refinery: its size, and what it saw last of each tile.  A     *)
(* hash stands for the pixels it was made of.                               *)
NoHash == << >>

RefineryInit(w, h) ==
  [w |-> w, h |-> h,
   hashes |-> [t \in (0..(CeilDiv(w, TileSide) - 1)) \X (0..(CeilDiv(h, TileSide) - 1))
                 |-> NoHash]]

RefineryResize(r, w, h) == IF r.w = w /\ r.h = h THEN r ELSE RefineryInit(w, h)

Tile(t, w, h) ==
  {p \in (0..(w - 1)) \X (0..(h - 1)) :
     t = <<p[1] \div TileSide, p[2] \div TileSide>>}

HashTile(r, t, frame) == [p \in Tile(t, r.w, r.h) |-> frame.pixels[p]]

TileRegion(region) == {<<p[1] \div TileSide, p[2] \div TileSide>> : p \in region}

(* damage_refine: the tiles that the hint touches are hashed again, and     *)
(* those that look different are the damage.                                *)
Rehashed(r, hint, frame) ==
  [r EXCEPT !.hashes = [t \in DOMAIN @ |->
     IF t \in TileRegion(hint) THEN HashTile(r, t, frame) ELSE @[t]]]

Refined(r, hint, frame) ==
  UNION {Tile(t, r.w, r.h) :
           t \in {u \in TileRegion(hint) : HashTile(r, u, frame) # r.hashes[u]}}

-----------------------------------------------------------------------------
(* What is on the desktop.  A frame has the offset and the logical size     *)
(* that its display had when it was fed; later displays are drawn over      *)
(* earlier ones.                                                            *)
HaveDisplayBuffers == \A i \in DOMAIN displays : displays[i].buffer # None

Frames == [i \in DOMAIN displays |-> displays[i].buffer]

RectangleOf(f) ==
  LET size == EffectiveSize(f)
  IN  (f.x..(f.x + size[1] - 1)) \X (f.y..(f.y + size[2] - 1))

OnTop(frames, q) == frames[Max({i \in DOMAIN frames : q \in RectangleOf(frames[i])})]

(* What the colour at q is made of. *)
ColourAt(f, q) ==
  [p \in ShownPixels(f, q[1] - f.x, q[2] - f.y) |-> f.pixels[p]]

Picture(frames) ==
  [q \in UNION {RectangleOf(frames[i]) : i \in DOMAIN frames} |->
     ColourAt(OnTop(frames, q), q)]

(* attach_desktop_layout_to_frame: the positions are those that the         *)
(* displays have now, the sizes those of their frames.                      *)
FrameLayout == BuildLayout(CompositeWidth(Frames), CompositeHeight(Frames), displays)

Whole(layout) == (0..(layout.w - 1)) \X (0..(layout.h - 1))

-----------------------------------------------------------------------------
(* nvnc_display_new and nvnc_add_display. *)
AddDisplay(x) ==
  /\ Len(displays) < MaxDisplays /\ nextId < MaxAdded
  /\ displays' = Append(displays,
       [id |-> nextId, x |-> x, y |-> 0, lw |-> 0, lh |-> 0,
        buffer |-> None, refinery |-> RefineryInit(0, 0)])
  /\ nextId' = nextId + 1
  /\ UNCHANGED <<nDamageClients, otherClient, client>>

(* nvnc_remove_display: the last one takes the place of the one removed. *)
RemoveDisplay(i) ==
  /\ displays' = SubSeq([displays EXCEPT ![i] = displays[Len(displays)]],
                        1, Len(displays) - 1)
  /\ UNCHANGED <<nextId, nDamageClients, otherClient, client>>

(* nvnc_display_set_position and nvnc_display_set_logical_size.  The reset  *)
(* of the clients' encoders changes nothing that is kept here.              *)
SetPosition(i, x) ==
  /\ displays' = [displays EXCEPT ![i].x = x]
  /\ UNCHANGED <<nextId, nDamageClients, otherClient, client>>

SetLogicalSize(i, w) ==
  /\ displays' = [displays EXCEPT ![i].lw = w, ![i].lh = IF w = 0 THEN 0 ELSE 1]
  /\ UNCHANGED <<nextId, nDamageClients, otherClient, client>>

(* Mutant: the refinery keeps its hashes while nobody looks at damage. *)
UnrefinedKept(r) == r

(* No client looks at damage: the refinery is reset. *)
Unrefined(r) == RefineryResize(r, 0, 0)

(* The new frame is at another place than the old one, or turned.           *)
IsDisplaced(old, new) ==
  old # None /\ <<old.x, old.y, old.lw, old.lh, old.t>>
                  # <<new.x, new.y, new.lw, new.lh, new.t>>

(* nvnc__damage_region: the damage is added to that of every client.        *)
DamageRegion(damage, displaced) ==
  client' = IF client = None THEN None
            ELSE [client EXCEPT !.damage = @ \cup damage, !.astray = @ \/ displaced]

(* nvnc_display_feed_frame. *)
FeedFrame(i, frame, hint, inexact) ==
  LET d == displays[i]
      sized == RefineryResize(d.refinery, frame.w, frame.h)
      looked == nDamageClients # 0
      fb == [w |-> frame.w, h |-> frame.h, t |-> frame.t, pixels |-> frame.pixels,
             x |-> d.x, y |-> d.y, lw |-> d.lw, lh |-> d.lh]
      damage == IF looked THEN Refined(sized, hint, frame) ELSE hint
  IN  /\ displays' = [displays EXCEPT
           ![i].refinery = IF looked THEN Rehashed(sized, hint, frame)
                                     ELSE Unrefined(d.refinery),
           ![i].buffer = fb]
      /\ DamageRegion(DamageOnDesktop(fb, damage, inexact), IsDisplaced(d.buffer, fb))
      /\ UNCHANGED <<nextId, nDamageClients, otherClient>>

(* What the application feeds: a frame whose damage has every pixel that is *)
(* not as in the display's previous frame.                                  *)
Feed(i) ==
  /\ \E row \in Rows, t \in FrameTransforms, all \in BOOLEAN, inexact \in BOOLEAN :
       LET pixels == [p \in (0..(Len(row) - 1)) \X {0} |-> row[p[1] + 1]]
           frame == [w |-> Len(row), h |-> 1, t |-> t, pixels |-> pixels]
           old == displays[i].buffer
           same == old # None /\ old.w = frame.w
           changed == {p \in DOMAIN pixels : ~same \/ pixels[p] # old.pixels[p]}
       IN  FeedFrame(i, frame, IF all THEN DOMAIN pixels ELSE changed, inexact)

-----------------------------------------------------------------------------
(* The client.  encoder: none yet, one that looks at damage, or one that    *)
(* has ENCODER_IMPL_FLAG_IGNORES_DAMAGE.  known: known_layout.  shown: what *)
(* it was sent.  update: the update in progress.  astray is not in the      *)
(* code: a frame was displaced, or an update was composed of frames that    *)
(* are not where their displays are, and no change of the layout has made   *)
(* everything damaged since.                                                *)
Looks(encoder) == IF encoder = "damage" THEN 1 ELSE 0

(* send_server_init_message, and the request for everything that a client   *)
(* begins with.                                                             *)
Join ==
  /\ client = None /\ displays # << >> /\ HaveDisplayBuffers
  /\ LET size == DesktopExtents(displays)
         layout == BuildLayout(size[1], size[2], displays)
     IN  client' = [encoder |-> "none", known |-> layout, damage |-> Whole(layout),
                    shown |-> << >>, update |-> None, astray |-> FALSE]
  /\ UNCHANGED <<displays, nextId, nDamageClients, otherClient, calls>>

(* client_close. *)
Leave ==
  /\ client # None
  /\ client' = None
  /\ nDamageClients' = nDamageClients - Looks(client.encoder)
  /\ UNCHANGED <<displays, nextId, otherClient, calls>>

(* Another client gets its encoder, or goes. *)
OtherClient ==
  /\ otherClient' = ~otherClient
  /\ nDamageClients' = IF otherClient THEN nDamageClients - 1 ELSE nDamageClients + 1
  /\ UNCHANGED <<displays, nextId, client>>

Settled == \A i \in DOMAIN displays : displays[i].x = displays[i].buffer.x

(* process_fb_update_requests, with a request pending. *)
StartUpdate ==
  /\ client # None /\ client.update = None
  /\ displays # << >> /\ HaveDisplayBuffers
  /\ client.damage # {}
  /\ client' = [client EXCEPT
       !.damage = {}, !.astray = @ \/ ~Settled,
       !.update = [damage |-> client.damage \cap Whole(FrameLayout),
                   picture |-> Picture(Frames), layout |-> FrameLayout,
                   encoding |-> FALSE]]
  /\ UNCHANGED <<displays, nextId, nDamageClients, otherClient, calls>>

(* on_compositing_done: ensure_encoder counts the client again when it      *)
(* takes another encoder.                                                   *)
EnsureEncoder(encoder) ==
  /\ client # None /\ client.update # None /\ ~client.update.encoding
  /\ nDamageClients' = nDamageClients - Looks(client.encoder) + Looks(encoder)
  /\ client' = [client EXCEPT !.encoder = encoder, !.update.encoding = TRUE]
  /\ UNCHANGED <<displays, nextId, otherClient, calls>>

(* What is seen once the update is there. *)
Seen(shown, update) ==
  [q \in DOMAIN shown \cup (update.damage \cap DOMAIN update.picture) |->
     IF q \in update.damage \cap DOMAIN update.picture
     THEN update.picture[q] ELSE shown[q]]

(* finish_fb_update.  send_desktop_resize_rect, when the layout is not the  *)
(* one the client knows, makes everything damaged.                          *)
FinishUpdate ==
  /\ client # None /\ client.update # None /\ client.update.encoding
  /\ LET layout == client.update.layout
     IN  client' = [client EXCEPT
           !.shown = Seen(client.shown, client.update),
           !.damage = IF LayoutEq(client.known, layout) THEN @ ELSE Whole(layout),
           !.known = IF LayoutEq(client.known, layout) THEN @ ELSE layout,
           !.astray = @ /\ LayoutEq(client.known, layout),
           !.update = None]
  /\ UNCHANGED <<displays, nextId, nDamageClients, otherClient, calls>>

-----------------------------------------------------------------------------
DesktopInit ==
  /\ displays = << >> /\ nextId = 0
  /\ nDamageClients = 0 /\ otherClient = FALSE
  /\ client = None /\ calls = 0

DesktopNext ==
  \/ /\ calls < MaxCalls /\ calls' = calls + 1
     /\ \/ \E x \in Positions : AddDisplay(x)
        \/ \E i \in DOMAIN displays :
             \/ RemoveDisplay(i)
             \/ Feed(i)
             \/ \E x \in Positions : SetPosition(i, x)
             \/ \E w \in LogicalWidths : SetLogicalSize(i, w)
        \/ OtherClient
  \/ Join \/ Leave
  \/ StartUpdate \/ FinishUpdate
  \/ \E e \in {"damage", "ignores"} : EnsureEncoder(e)

DesktopSpec == DesktopInit /\ [][DesktopNext]_desktop

-----------------------------------------------------------------------------
(* Nothing on a client's screen is out of date for good (damage_refine,     *)
(* nvnc_display_feed_frame, nvnc__damage_region, finish_fb_update): when    *)
(* every display has a frame, each pixel that a display shows is as the     *)
(* client sees it, or will after the update in progress, or it is in the    *)
(* client's damage; unless the layout is not the one the client knows: then *)
(* the next update damages everything.  Three cases are excepted, in which  *)
(* the code does leave old pixels: a display that was moved, resized or     *)
(* turned and then put back, or turned in place, before the client was told *)
(* of a new layout, and an update that is composed before a moved display   *)
(* is fed (astray); and displays that are shown enlarged, where a pixel is  *)
(* blended from more of the buffer than its damage covers.                  *)
NoStalePixel ==
  (client # None /\ HaveDisplayBuffers /\ displays # << >> /\ Settled /\ ~client.astray) =>
    LET update == client.update
        known == IF update = None THEN client.known ELSE update.layout
        seen == IF update = None THEN client.shown ELSE Seen(client.shown, update)
        now == Picture(Frames)
    IN  \/ ~LayoutEq(known, FrameLayout) \/ ~LayoutEq(client.known, known)
        \/ \A q \in DOMAIN now :
             \/ q \in client.damage \/ (q \in DOMAIN seen /\ seen[q] = now[q])
             \/ IsEnlarged(OnTop(Frames, q))
=============================================================================
