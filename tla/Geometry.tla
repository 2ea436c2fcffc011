------------------------------ MODULE Geometry ------------------------------
(***************************************************************************)
(* Transforms, regions, frames and desktop layouts (transform-util.c,      *)
(* region.c, frame.c, desktop-layout.c and the parts of compositor.c,      *)
(* display.c and server.c that work out where things are).                 *)
(*                                                                         *)
(* A region is the set of its pixels <<x, y>>.  The code works on the      *)
(* rectangles of a region; each of its operations maps a rectangle to the  *)
(* union of what it maps the pixels of the rectangle to.                   *)
(***************************************************************************)
EXTENDS Integers, Sequences, FiniteSets, FiniteSetsExt

Transforms == {"normal", "90", "180", "270",
               "flipped", "flipped_90", "flipped_180", "flipped_270"}

U16 == 65536

(* nvnc_is_transform_90_degrees and nvnc_transform_dimensions. *)
IsTransform90Degrees(t) == t \in {"90", "270", "flipped_90", "flipped_270"}

TransformDimensions(t, w, h) ==
  IF IsTransform90Degrees(t) THEN <<h, w>> ELSE <<w, h>>

(* Mutant: 90 and 270 degrees are mixed up. *)
TransformPixelSwapped(t, p, w, h) ==
  LET x == p[1]  y == p[2] IN
  CASE t = "normal"      -> <<x, y>>
    [] t = "90"          -> <<y, w - 1 - x>>
    [] t = "180"         -> <<w - 1 - x, h - 1 - y>>
    [] t = "270"         -> <<h - 1 - y, x>>
    [] t = "flipped"     -> <<w - 1 - x, y>>
    [] t = "flipped_90"  -> <<y, x>>
    [] t = "flipped_180" -> <<x, h - 1 - y>>
    [] t = "flipped_270" -> <<h - 1 - y, w - 1 - x>>

(* nvnc_transform_region, for a pixel of a buffer of w by h: the rectangle  *)
(* from p to p + 1 becomes the one from the result to the result + 1.       *)
TransformPixel(t, p, w, h) ==
  LET x == p[1]  y == p[2] IN
  CASE t = "normal"      -> <<x, y>>
    [] t = "90"          -> <<h - 1 - y, x>>
    [] t = "180"         -> <<w - 1 - x, h - 1 - y>>
    [] t = "270"         -> <<y, w - 1 - x>>
    [] t = "flipped"     -> <<w - 1 - x, y>>
    [] t = "flipped_90"  -> <<y, x>>
    [] t = "flipped_180" -> <<x, h - 1 - y>>
    [] t = "flipped_270" -> <<h - 1 - y, w - 1 - x>>

TransformRegion(region, t, w, h) == {TransformPixel(t, p, w, h) : p \in region}

(* nvnc_transform_to_pixman_transform: the rows of the matrix that takes a  *)
(* point of the composite to the point of the buffer that is shown there,   *)
(* as <<factor of x, factor of y, offset>>.                                 *)
PixmanTransform(t, w, h) ==
  CASE t = "normal"      -> << <<1, 0, 0>>,  <<0, 1, 0>> >>
    [] t = "90"          -> << <<0, 1, 0>>,  <<-1, 0, h>> >>
    [] t = "180"         -> << <<-1, 0, w>>, <<0, -1, h>> >>
    [] t = "270"         -> << <<0, -1, w>>, <<1, 0, 0>> >>
    [] t = "flipped"     -> << <<-1, 0, w>>, <<0, 1, 0>> >>
    [] t = "flipped_90"  -> << <<0, 1, 0>>,  <<1, 0, 0>> >>
    [] t = "flipped_180" -> << <<1, 0, 0>>,  <<0, -1, h>> >>
    [] t = "flipped_270" -> << <<0, -1, w>>, <<-1, 0, h>> >>

-----------------------------------------------------------------------------
(* Quotients rounded down and up, of natural numbers. *)
FloorDiv(a, b) == a \div b
CeilDiv(a, b) == (a + b - 1) \div b

(* nvnc_region_scale by to / from, in one direction: the pixels that the    *)
(* span from x to x + 1 covers.  The factor is a double: unless it is a     *)
(* whole number, a product that should be one may come out beside it        *)
(* (inexact), and is then rounded to the next number outwards.              *)
ScaleSpan(x, to, from, inexact) ==
  LET Off(n) == IF inexact /\ to % from # 0 /\ n > 0 /\ n % from = 0 THEN 1 ELSE 0
  IN  (FloorDiv(x * to, from) - Off(x * to))
        .. (CeilDiv((x + 1) * to, from) + Off((x + 1) * to) - 1)

ScaleRegion(region, toW, fromW, toH, fromH, inexact) ==
  UNION {ScaleSpan(p[1], toW, fromW, inexact) \X ScaleSpan(p[2], toH, fromH, inexact) :
           p \in region}

TranslateRegion(region, x, y) == {<<p[1] + x, p[2] + y>> : p \in region}

-----------------------------------------------------------------------------
(* A frame: offset x and y, buffer of w by h, logical size lw by lh (0 for  *)
(* none) and transform t.  nvnc_frame_get_effective_logical_size.           *)
EffectiveSize(f) ==
  IF f.lw # 0 /\ f.lh # 0 THEN <<f.lw, f.lh>> ELSE TransformDimensions(f.t, f.w, f.h)

(* nvnc_composite_fb_width and _height, in 16 bits. *)
CompositeWidth(fbs) ==
  Max({0} \cup {fbs[i].x + EffectiveSize(fbs[i])[1] : i \in DOMAIN fbs}) % U16
CompositeHeight(fbs) ==
  Max({0} \cup {fbs[i].y + EffectiveSize(fbs[i])[2] : i \in DOMAIN fbs}) % U16

(* get_fb_dimensions, have_any_scaling, are_all_transforms_normal and       *)
(* is_compositing_needed.  As in the code, the logical height is taken with *)
(* a logical width.                                                         *)
IsScaled(f) ==
  f.lw # 0 /\ <<f.lw, f.lh>> # TransformDimensions(f.t, f.w, f.h)

IsCompositingNeeded(fbs) ==
  \E i \in DOMAIN fbs : IsScaled(fbs[i]) \/ fbs[i].t # "normal"

(* nvnc_frames_overlap, as it is written: the vertical tests are the wrong  *)
(* way round.  The first pair decides.                                      *)
FramesOverlap(a, b) ==
  /\ a.x < b.x + b.w /\ a.x + a.w > b.x
  /\ a.y > b.y + b.h /\ a.y + a.h < b.y

ContainsOverlaps(fbs) == Len(fbs) >= 2 /\ FramesOverlap(fbs[1], fbs[2])

StartsAtZero(fbs) ==
  /\ Min({fbs[i].x : i \in DOMAIN fbs}) = 0
  /\ Min({fbs[i].y : i \in DOMAIN fbs}) = 0

(* nvnc_composite_fb_validate: the assertions hold. *)
CompositeValid(fbs) == ~ContainsOverlaps(fbs) /\ StartsAtZero(fbs)

Buffer(f) == (0..(f.w - 1)) \X (0..(f.h - 1))

(* composite_buffer_now: the point of the buffer of f that is fetched for   *)
(* the pixel <<x, y>> of its rectangle of the composite.  The centre of the *)
(* pixel is scaled to the transformed buffer, and the matrix takes it to    *)
(* the buffer.  Coordinates are multiples of 1 / Unit(f), where the code    *)
(* has 16.16 fixed point.                                                   *)
Unit(f) == 2 * (EffectiveSize(f)[1] * EffectiveSize(f)[2])

Fetched(f, x, y) ==
  LET td == TransformDimensions(f.t, f.w, f.h)
      u == (2 * x + 1) * td[1] * EffectiveSize(f)[2]
      v == (2 * y + 1) * td[2] * EffectiveSize(f)[1]
      m == PixmanTransform(f.t, f.w, f.h)
  IN  [i \in 1..2 |-> m[i][1] * u + m[i][2] * v + m[i][3] * Unit(f)]

(* How far the coordinate c is from the centre of pixel a. *)
Apart(f, c, a) ==
  LET d == c - (2 * a + 1) * (EffectiveSize(f)[1] * EffectiveSize(f)[2])
  IN  IF d < 0 THEN -d ELSE d

(* The pixels of the buffer that are shown at <<x, y>>: PIXMAN_FILTER_      *)
(* BILINEAR blends those that are less than one pixel away.  The nearest    *)
(* filter, for frames that are not scaled, fetches the only one there is.   *)
ShownPixels(f, x, y) ==
  LET c == Fetched(f, x, y)
  IN  {a \in 0..(f.w - 1) : Apart(f, c[1], a) < Unit(f)}
        \X {b \in 0..(f.h - 1) : Apart(f, c[2], b) < Unit(f)}

(* The fetched point is in p, so that no other pixel weighs more. *)
IsMain(f, x, y, p) ==
  \A i \in 1..2 : 2 * Apart(f, Fetched(f, x, y)[i], p[i]) <= Unit(f)

(* The frame is shown larger than its buffer is, in some direction. *)
IsEnlarged(f) ==
  LET td == TransformDimensions(f.t, f.w, f.h)
  IN  EffectiveSize(f)[1] > td[1] \/ EffectiveSize(f)[2] > td[2]

(* What nvnc_display_feed_frame makes of the damage of a buffer: rotated,   *)
(* scaled, and moved to the place of the display.                           *)
DamageOnDesktop(f, damage, inexact) ==
  LET td == TransformDimensions(f.t, f.w, f.h)
      rotated == TransformRegion(damage, f.t, f.w, f.h)
      scaled == IF f.lw # 0 /\ f.lh # 0
                THEN ScaleRegion(rotated, f.lw, td[1], f.lh, td[2], inexact)
                ELSE rotated
  IN  TranslateRegion(scaled, f.x, f.y)

-----------------------------------------------------------------------------
(* A desktop layout: its size, and a sequence of displays with id, place    *)
(* and size.  build_desktop_layout.                                         *)
BuildLayout(width, height, displays) ==
  [w |-> width, h |-> height,
   displays |-> [i \in DOMAIN displays |->
     [id |-> displays[i].id, x |-> displays[i].x, y |-> displays[i].y,
      w |-> EffectiveSize(displays[i].buffer)[1],
      h |-> EffectiveSize(displays[i].buffer)[2]]]]

(* nvnc_desktop_layout_eq: the displays in any order. *)
LayoutEq(a, b) ==
  /\ a.w = b.w /\ a.h = b.h
  /\ Len(a.displays) = Len(b.displays)
  /\ \A i \in DOMAIN a.displays :
       LET same == {j \in DOMAIN b.displays : b.displays[j].id = a.displays[i].id}
       IN  same # {} /\ b.displays[Min(same)] = a.displays[i]

InBounds(d, layout) == d.x + d.w <= layout.w /\ d.y + d.h <= layout.h

(* check_desktop_layout, up to the application's answer.  The loop that     *)
(* looks for a repeated id counts the outer variable: at the second display *)
(* it compares the ids of the first two, and does not end if they differ.   *)
CheckLayout(layout, known) ==
  LET d == layout.displays
      Bad(i) == d[i].id \notin known \/ ~InBounds(d[i], layout)
  IN  IF Len(d) >= 1 /\ Bad(1) THEN "invalid"
      ELSE IF Len(d) <= 1 THEN "ask"
      ELSE IF Bad(2) \/ d[1].id = d[2].id THEN "invalid"
      ELSE "hangs"

(* calculate_desktop_extents, in 16 bits. *)
DesktopExtents(displays) ==
  LET size(d) == IF d.lw = 0 \/ d.lh = 0
                 THEN TransformDimensions(d.buffer.t, d.buffer.w, d.buffer.h)
                 ELSE <<d.lw, d.lh>>
  IN  <<Max({0} \cup {displays[i].x + size(displays[i])[1] : i \in DOMAIN displays}) % U16,
        Max({0} \cup {displays[i].y + size(displays[i])[2] : i \in DOMAIN displays}) % U16>>
=============================================================================
