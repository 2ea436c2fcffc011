-------------------------- MODULE AlgorithmsProofs --------------------------
(***************************************************************************)
(* Proofs about Algorithms, for frames of every size.  The damage of a     *)
(* buffer is mapped forward to the desktop, pixel by pixel; the compositor *)
(* maps the centres of the desktop's pixels back to the buffer.  Each side *)
(* of a frame is looked at alone: Gap says how far a pixel of the one is   *)
(* from a pixel of the other.                                              *)
(***************************************************************************)
EXTENDS Algorithms, TLAPS

(* Numbers: the quotient of the provers, by its inequalities. *)
LEMMA Quotient ==
  ASSUME NEW a \in Int, NEW b \in Nat \ {0}
  PROVE  /\ a \div b \in Int
         /\ b * (a \div b) <= a
         /\ a < b * (a \div b) + b
BY SMT

LEMMA Monotone ==
  ASSUME NEW a \in Int, NEW b \in Int, NEW k \in Nat \ {0}
  PROVE  /\ a <= b => k * a <= k * b
         /\ k * a < k * b => a < b
         /\ k * a <= k * b => a <= b
BY SMT

(* How far the centre of pixel x of a side of `to` pixels is from that of   *)
(* pixel s of a side of `from` pixels, in units of 1 / (2 to from).         *)
Magnitude(d) == IF d < 0 THEN -d ELSE d

Gap(x, s, to, from) == Magnitude((2 * x + 1) * from - (2 * s + 1) * to)

LEMMA GapIsInt ==
  ASSUME NEW x \in Int, NEW s \in Int, NEW to \in Int, NEW from \in Int
  PROVE  Gap(x, s, to, from) \in Int
<1> PICK d \in Int : d = (2 * x + 1) * from - (2 * s + 1) * to
  OBVIOUS
<1> QED
  BY DEF Gap, Magnitude

(* nvnc_region_scale rounds outwards: a pixel that is in the exact span is  *)
(* in the one that the code computes.                                       *)
LEMMA InSpan ==
  ASSUME NEW to \in Nat \ {0}, NEW from \in Nat \ {0}, NEW s \in Nat, NEW x \in Nat,
         NEW inexact \in BOOLEAN,
         s * to < (x + 1) * from, x * from < (s + 1) * to
  PROVE  x \in ScaleSpan(s, to, from, inexact)
<1> PICK lo \in Nat : lo = s * to
  OBVIOUS
<1> PICK hi \in Nat : hi = (s + 1) * to
  OBVIOUS
<1>1. PICK q \in Int : q = lo \div from /\ from * q <= lo
  BY Quotient
<1>2. from * q < from * (x + 1)
  BY <1>1
<1>3. q <= x
  BY <1>2, Monotone
<1>4. PICK r \in Int : r = (hi + from - 1) \div from /\ hi + from - 1 < from * r + from
  BY Quotient
<1>5. from * x < from * r
  BY <1>4
<1>6. x < r
  BY <1>5, Monotone
<1> DEFINE Off(n) == IF inexact /\ to % from # 0 /\ n > 0 /\ n % from = 0 THEN 1 ELSE 0
<1>7. /\ ScaleSpan(s, to, from, inexact) = (q - Off(lo)) .. (r + Off(hi) - 1)
      /\ Off(lo) \in {0, 1} /\ Off(hi) \in {0, 1}
  BY <1>1, <1>4 DEF ScaleSpan, FloorDiv, CeilDiv
<1> HIDE DEF Off
<1> QED
  BY <1>3, <1>6, <1>7

(* ... and is at most one pixel too large. *)
LEMMA SpanInside ==
  ASSUME NEW to \in Nat \ {0}, NEW from \in Nat \ {0}, NEW s \in 0..(from - 1),
         NEW inexact \in BOOLEAN
  PROVE  ScaleSpan(s, to, from, inexact) \subseteq (-1)..to
<1> PICK lo \in Nat : lo = s * to
  OBVIOUS
<1> PICK hi \in Nat : hi = (s + 1) * to
  OBVIOUS
<1>1. hi <= from * to
  BY Monotone
<1>2. PICK q \in Int : q = lo \div from /\ lo < from * q + from
  BY Quotient
<1>3. from * (-1) < from * q
  BY <1>2
<1>4. q >= 0
  BY <1>3, Monotone
<1>5. PICK r \in Int : r = (hi + from - 1) \div from /\ from * r <= hi + from - 1
  BY Quotient
<1>6. from * r < from * (to + 1)
  BY <1>1, <1>5
<1>7. r <= to
  BY <1>6, Monotone
<1> DEFINE Off(n) == IF inexact /\ to % from # 0 /\ n > 0 /\ n % from = 0 THEN 1 ELSE 0
<1>8. /\ ScaleSpan(s, to, from, inexact) = (q - Off(lo)) .. (r + Off(hi) - 1)
      /\ Off(lo) \in {0, 1} /\ Off(hi) \in {0, 1}
  BY <1>2, <1>5 DEF ScaleSpan, FloorDiv, CeilDiv
<1> HIDE DEF Off
<1> QED
  BY <1>4, <1>7, <1>8

(* A side that is not enlarged: what is blended into a pixel is less than   *)
(* a pixel of the buffer away, and its span reaches there.                  *)
LEMMA BlendInSpan ==
  ASSUME NEW to \in Nat \ {0}, NEW from \in Nat \ {0}, NEW s \in Nat, NEW x \in Nat,
         NEW inexact \in BOOLEAN, to <= from, Gap(x, s, to, from) < 2 * to
  PROVE  x \in ScaleSpan(s, to, from, inexact)
<1> PICK st \in Nat : st = s * to
  OBVIOUS
<1> PICK xf \in Nat : xf = x * from
  OBVIOUS
<1>1. 2 * xf + from - (2 * st + to) < 2 * to /\ (2 * st + to) - (2 * xf + from) < 2 * to
  BY DEF Gap, Magnitude
<1>2. st < xf + from /\ xf < st + to
  BY <1>1
<1> QED
  BY <1>2, InSpan

(* Of any side, the main part of a pixel is at most half a pixel away. *)
LEMMA MainInSpan ==
  ASSUME NEW to \in Nat \ {0}, NEW from \in Nat \ {0}, NEW s \in Nat, NEW x \in Nat,
         NEW inexact \in BOOLEAN, Gap(x, s, to, from) <= to
  PROVE  x \in ScaleSpan(s, to, from, inexact)
<1> PICK st \in Nat : st = s * to
  OBVIOUS
<1> PICK xf \in Nat : xf = x * from
  OBVIOUS
<1>1. 2 * xf + from - (2 * st + to) <= to /\ (2 * st + to) - (2 * xf + from) <= to
  BY DEF Gap, Magnitude
<1>2. st < xf + from /\ xf < st + to
  BY <1>1
<1> QED
  BY <1>2, InSpan

(* A side that is not scaled. *)
LEMMA BlendSame ==
  ASSUME NEW side \in Nat \ {0}, NEW s \in Nat, NEW x \in Nat,
         Gap(x, s, side, side) < 2 * side
  PROVE  x = s
<1>1. side * (2 * (x - s)) < side * 2 /\ side * (2 * (s - x)) < side * 2
  BY DEF Gap, Magnitude
<1>2. 2 * (x - s) < 2 /\ 2 * (s - x) < 2
  BY <1>1, Monotone
<1> QED
  BY <1>2

-----------------------------------------------------------------------------
(* What a frame can be: a buffer that is not empty, anywhere, with or       *)
(* without a logical size.                                                  *)
IsFrame(f) ==
  /\ f.x \in Int /\ f.y \in Int
  /\ f.w \in Nat \ {0} /\ f.h \in Nat \ {0}
  /\ f.lw \in Nat /\ f.lh \in Nat
  /\ f.t \in Transforms

LEMMA Dimensions ==
  ASSUME NEW f, IsFrame(f)
  PROVE  \E tw, th, lw, lh \in Nat \ {0} :
           /\ TransformDimensions(f.t, f.w, f.h) = <<tw, th>>
           /\ EffectiveSize(f) = <<lw, lh>>
           /\ IF f.lw # 0 /\ f.lh # 0 THEN lw = f.lw /\ lh = f.lh ELSE lw = tw /\ lh = th
           /\ IF IsTransform90Degrees(f.t) THEN tw = f.h /\ th = f.w
                                           ELSE tw = f.w /\ th = f.h
<1>1. CASE IsTransform90Degrees(f.t)
  BY <1>1 DEF IsFrame, TransformDimensions, EffectiveSize
<1>2. CASE ~IsTransform90Degrees(f.t)
  BY <1>2 DEF IsFrame, TransformDimensions, EffectiveSize
<1> QED
  BY <1>1, <1>2

(* The sizes of a frame after its transform, and of its place. *)
Sizes(f, tw, th, lw, lh) ==
  /\ TransformDimensions(f.t, f.w, f.h) = <<tw, th>>
  /\ EffectiveSize(f) = <<lw, lh>>

(* The matrices: along a side of the buffer, or against it, the fetched     *)
(* point is as far from a pixel as the gap says; k is the other side.       *)
Along(d, g, x, s, to, from, k) ==
  /\ to \in Nat \ {0} /\ from \in Nat \ {0} /\ k \in Nat \ {0}
  /\ s \in Int /\ x \in Nat /\ g \in Int /\ d \in Int
  /\ g = Gap(x, s, to, from)
  /\ \/ d = (2 * x + 1) * from * k - (2 * s + 1) * (to * k)
     \/ d = (2 * s + 1) * (to * k) - (2 * x + 1) * from * k

LEMMA AlongGap ==
  ASSUME NEW to, NEW from, NEW k, NEW s, NEW x, NEW g, NEW d,
         Along(d, g, x, s, to, from, k)
  PROVE  Magnitude(d) = k * g
<1>0. /\ to \in Nat \ {0} /\ from \in Nat \ {0} /\ k \in Nat \ {0}
      /\ s \in Int /\ x \in Nat /\ g \in Int /\ d \in Int
  BY DEF Along
<1>5. PICK e \in Int : e = (2 * x + 1) * from - (2 * s + 1) * to
  BY <1>0
<1>1. d = k * e \/ d = k * (-e)
  BY <1>0, <1>5 DEF Along
<1>2. (e < 0 => k * e < 0) /\ (e >= 0 => k * e >= 0)
  BY <1>0, Monotone
<1>3. k * (-e) = -(k * e)
  BY <1>0
<1>4. g = IF e < 0 THEN -e ELSE e
  BY <1>5 DEF Along, Gap, Magnitude
<1> QED
  BY <1>0, <1>1, <1>2, <1>3, <1>4 DEF Magnitude

(* Pixel p of the buffer is <<i, j>> after the transform; gx and gy are its *)
(* gaps to the pixel <<x, y>> of the place of the frame.                    *)
Placed(f, p, x, y, i, j, gx, gy, tw, th, lw, lh) ==
  /\ IsFrame(f) /\ p \in Buffer(f) /\ x \in Nat /\ y \in Nat
  /\ tw \in Nat \ {0} /\ th \in Nat \ {0} /\ lw \in Nat \ {0} /\ lh \in Nat \ {0}
  /\ Sizes(f, tw, th, lw, lh)
  /\ i \in Int /\ j \in Int /\ TransformPixel(f.t, p, f.w, f.h) = <<i, j>>
  /\ gx \in Int /\ gx = Gap(x, i, lw, tw)
  /\ gy \in Int /\ gy = Gap(y, j, lh, th)

(* How far the point that is fetched for <<x, y>> is from the pixel p of    *)
(* the buffer, in each direction.                                           *)
LEMMA ApartIs ==
  ASSUME NEW f, NEW p, NEW x, NEW y, NEW i, NEW j, NEW gx, NEW gy,
         NEW tw, NEW th, NEW lw, NEW lh, Placed(f, p, x, y, i, j, gx, gy, tw, th, lw, lh)
  PROVE  \/ /\ Apart(f, Fetched(f, x, y)[1], p[1]) = lh * gx
            /\ Apart(f, Fetched(f, x, y)[2], p[2]) = lw * gy
         \/ /\ Apart(f, Fetched(f, x, y)[1], p[1]) = lw * gy
            /\ Apart(f, Fetched(f, x, y)[2], p[2]) = lh * gx
<1> USE DEF Placed
<1>3. ASSUME NEW d, Along(d, gx, x, i, lw, tw, lh) PROVE Magnitude(d) = lh * gx
  BY <1>3, AlongGap
<1>4. ASSUME NEW d, Along(d, gy, y, j, lh, th, lw) PROVE Magnitude(d) = lw * gy
  BY <1>4, AlongGap
<1>0. TransformDimensions(f.t, f.w, f.h) = <<tw, th>> /\ EffectiveSize(f) = <<lw, lh>>
  BY DEF Sizes
<1>7. PICK area \in Nat \ {0} : area = lw * lh
  OBVIOUS
<1>8. PICK u \in Int : u = (2 * x + 1) * tw * lh
  OBVIOUS
<1>9. PICK v \in Int : v = (2 * y + 1) * th * lw
  OBVIOUS
<1>1. PICK a \in 0..(f.w - 1), b \in 0..(f.h - 1) : p = <<a, b>>
  BY DEF Buffer
<1> DEFINE m == PixmanTransform(f.t, f.w, f.h)
           at(n) == m[n][1] * u + m[n][2] * v + m[n][3] * (2 * area)
           off(n, s) == at(n) - (2 * s + 1) * area
<1>2. /\ Apart(f, Fetched(f, x, y)[1], p[1]) = Magnitude(off(1, a))
      /\ Apart(f, Fetched(f, x, y)[2], p[2]) = Magnitude(off(2, b))
  <2>1. EffectiveSize(f)[1] = lw /\ EffectiveSize(f)[2] = lh
    BY <1>0
  <2>2. Unit(f) = 2 * area
    BY <1>7, <2>1 DEF Unit
  <2>3. Fetched(f, x, y) = [n \in 1..2 |-> at(n)]
    BY <1>0, <1>8, <1>9, <2>1, <2>2 DEF Fetched
  <2>4. Fetched(f, x, y)[1] = at(1) /\ Fetched(f, x, y)[2] = at(2)
    BY <2>3
  <2>5. p[1] = a /\ p[2] = b
    BY <1>1
  <2> HIDE DEF m, at
  <2> QED
    BY <1>7, <2>1, <2>4, <2>5 DEF Apart, Magnitude
<1>10. ASSUME NEW d \in Int, d = u - (2 * i + 1) * area \/ d = (2 * i + 1) * area - u
       PROVE  Along(d, gx, x, i, lw, tw, lh)
  BY <1>7, <1>8, <1>10 DEF Along
<1>11. ASSUME NEW d \in Int, d = v - (2 * j + 1) * area \/ d = (2 * j + 1) * area - v
       PROVE  Along(d, gy, y, j, lh, th, lw)
  <2>1. lh * lw = area
    BY <1>7
  <2> QED
    BY <1>9, <1>11, <2>1 DEF Along
<1>5. CASE f.t \in {"normal", "180", "flipped", "flipped_180"}
  <2>1. tw = f.w /\ th = f.h
    BY <1>0, <1>5 DEF TransformDimensions, IsTransform90Degrees
  <2>2. /\ i = (IF f.t \in {"normal", "flipped_180"} THEN a ELSE f.w - 1 - a)
        /\ j = (IF f.t \in {"normal", "flipped"} THEN b ELSE f.h - 1 - b)
    BY <1>1, <1>5 DEF TransformPixel
  <2>3. Along(off(1, a), gx, x, i, lw, tw, lh)
    <3>1. CASE f.t \in {"normal", "flipped_180"}
      BY <1>10, <1>11, <2>2, <3>1 DEF PixmanTransform
    <3>2. CASE f.t \in {"180", "flipped"}
      BY <1>10, <1>11, <2>2, <3>2 DEF PixmanTransform, IsFrame
    <3> QED
      BY <1>5, <3>1, <3>2
  <2>4. Along(off(2, b), gy, y, j, lh, th, lw)
    <3>1. CASE f.t \in {"normal", "flipped"}
      BY <1>10, <1>11, <2>2, <3>1 DEF PixmanTransform
    <3>2. CASE f.t \in {"180", "flipped_180"}
      BY <1>10, <1>11, <2>2, <3>2 DEF PixmanTransform, IsFrame
    <3> QED
      BY <1>5, <3>1, <3>2
  <2> HIDE DEF off
  <2> QED
    BY <1>2, <1>3, <1>4, <2>3, <2>4
<1>6. CASE f.t \in {"90", "270", "flipped_90", "flipped_270"}
  <2>1. tw = f.h /\ th = f.w
    BY <1>0, <1>6 DEF TransformDimensions, IsTransform90Degrees
  <2>2. /\ i = (IF f.t \in {"270", "flipped_90"} THEN b ELSE f.h - 1 - b)
        /\ j = (IF f.t \in {"90", "flipped_90"} THEN a ELSE f.w - 1 - a)
    BY <1>1, <1>6 DEF TransformPixel
  <2>3. Along(off(1, a), gy, y, j, lh, th, lw)
    <3>1. CASE f.t \in {"90", "flipped_90"}
      BY <1>10, <1>11, <2>2, <3>1 DEF PixmanTransform
    <3>2. CASE f.t \in {"270", "flipped_270"}
      BY <1>10, <1>11, <2>2, <3>2 DEF PixmanTransform, IsFrame
    <3> QED
      BY <1>6, <3>1, <3>2
  <2>4. Along(off(2, b), gx, x, i, lw, tw, lh)
    <3>1. CASE f.t \in {"270", "flipped_90"}
      BY <1>10, <1>11, <2>2, <3>1 DEF PixmanTransform
    <3>2. CASE f.t \in {"90", "flipped_270"}
      BY <1>10, <1>11, <2>2, <3>2 DEF PixmanTransform, IsFrame
    <3> QED
      BY <1>6, <3>1, <3>2
  <2> HIDE DEF off
  <2> QED
    BY <1>2, <1>3, <1>4, <2>3, <2>4
<1> QED
  BY <1>5, <1>6 DEF IsFrame, Transforms

(* So a pixel that is blended in is less than a pixel of the buffer away in *)
(* each direction, and the main one at most half of one.                    *)
LEMMA GapOfShown ==
  ASSUME NEW f, IsFrame(f), NEW x \in Nat, NEW y \in Nat, NEW p \in ShownPixels(f, x, y),
         NEW tw \in Nat \ {0}, NEW th \in Nat \ {0},
         NEW lw \in Nat \ {0}, NEW lh \in Nat \ {0}, Sizes(f, tw, th, lw, lh),
         NEW i \in Int, NEW j \in Int, TransformPixel(f.t, p, f.w, f.h) = <<i, j>>
  PROVE  /\ p \in Buffer(f)
         /\ Gap(x, i, lw, tw) < 2 * lw /\ Gap(y, j, lh, th) < 2 * lh
         /\ IsMain(f, x, y, p) => Gap(x, i, lw, tw) <= lw /\ Gap(y, j, lh, th) <= lh
<1> DEFINE apart(n) == Apart(f, Fetched(f, x, y)[n], p[n])
<1>1. p \in Buffer(f) /\ apart(1) < Unit(f) /\ apart(2) < Unit(f)
  BY DEF ShownPixels, Buffer
<1>2. IsMain(f, x, y, p) => 2 * apart(1) <= Unit(f) /\ 2 * apart(2) <= Unit(f)
  BY DEF IsMain
<1>3. Unit(f) = 2 * (lw * lh)
  BY DEF Sizes, Unit
<1>0. x \in Int /\ y \in Int /\ tw \in Int /\ th \in Int /\ lw \in Int /\ lh \in Int
  OBVIOUS
<1>8. Gap(x, i, lw, tw) \in Int /\ Gap(y, j, lh, th) \in Int
  BY <1>0, GapIsInt
<1> PICK gx \in Int : gx = Gap(x, i, lw, tw)
  BY <1>8
<1> PICK gy \in Int : gy = Gap(y, j, lh, th)
  BY <1>8
<1>9. \/ /\ Apart(f, Fetched(f, x, y)[1], p[1]) = lh * gx
         /\ Apart(f, Fetched(f, x, y)[2], p[2]) = lw * gy
      \/ /\ Apart(f, Fetched(f, x, y)[1], p[1]) = lw * gy
         /\ Apart(f, Fetched(f, x, y)[2], p[2]) = lh * gx
  <2>1. Placed(f, p, x, y, i, j, gx, gy, tw, th, lw, lh)
    BY <1>1 DEF Placed
  <2> QED
    BY <2>1, ApartIs
<1>4. \/ apart(1) = lh * gx /\ apart(2) = lw * gy
      \/ apart(1) = lw * gy /\ apart(2) = lh * gx
  BY <1>9
<1> HIDE DEF apart
<1>5. lh * gx < lh * (2 * lw) /\ lw * gy < lw * (2 * lh)
  <2>1. lh * (2 * lw) = 2 * (lw * lh) /\ lw * (2 * lh) = 2 * (lw * lh)
    OBVIOUS
  <2> QED
    BY <1>1, <1>3, <1>4, <2>1
<1>6. gx < 2 * lw /\ gy < 2 * lh
  BY <1>5, Monotone
<1>7. ASSUME IsMain(f, x, y, p) PROVE gx <= lw /\ gy <= lh
  <2>1. 2 * (lh * gx) <= 2 * (lw * lh) /\ 2 * (lw * gy) <= 2 * (lw * lh)
    BY <1>2, <1>3, <1>4, <1>7
  <2>2. lh * gx \in Int /\ lw * gy \in Int /\ lw * lh \in Int
    OBVIOUS
  <2>3. lh * gx <= lh * lw /\ lw * gy <= lw * lh
    BY <2>1, <2>2
  <2> QED
    BY <2>3, Monotone
<1> QED
  BY <1>1, <1>6, <1>7

(* A pixel of the buffer stays within the transformed buffer. *)
LEMMA TransformInside ==
  ASSUME NEW f, IsFrame(f), NEW p \in Buffer(f),
         NEW tw \in Nat \ {0}, NEW th \in Nat \ {0},
         TransformDimensions(f.t, f.w, f.h) = <<tw, th>>
  PROVE  \E i \in 0..(tw - 1), j \in 0..(th - 1) :
           TransformPixel(f.t, p, f.w, f.h) = <<i, j>>
<1>1. PICK a \in 0..(f.w - 1), b \in 0..(f.h - 1) : p = <<a, b>>
  BY DEF Buffer
<1>2. CASE f.t \in {"normal", "180", "flipped", "flipped_180"}
  <2>1. tw = f.w /\ th = f.h
    BY <1>2 DEF TransformDimensions, IsTransform90Degrees
  <2> QED
    BY <1>1, <1>2, <2>1 DEF TransformPixel, IsFrame
<1>3. CASE f.t \in {"90", "270", "flipped_90", "flipped_270"}
  <2>1. tw = f.h /\ th = f.w
    BY <1>3 DEF TransformDimensions, IsTransform90Degrees
  <2> QED
    BY <1>1, <1>3, <2>1 DEF TransformPixel, IsFrame
<1> QED
  BY <1>2, <1>3 DEF IsFrame, Transforms

(* The damage of a region is the damage of its pixels. *)
LEMMA DamageOfPixel ==
  ASSUME NEW f, IsFrame(f), NEW damage, NEW p \in damage, NEW inexact,
         NEW tw \in Nat \ {0}, NEW th \in Nat \ {0}, NEW i \in Int, NEW j \in Int,
         TransformDimensions(f.t, f.w, f.h) = <<tw, th>>,
         TransformPixel(f.t, p, f.w, f.h) = <<i, j>>,
         NEW a \in Int, NEW b \in Int,
         IF f.lw # 0 /\ f.lh # 0
         THEN a \in ScaleSpan(i, f.lw, tw, inexact) /\ b \in ScaleSpan(j, f.lh, th, inexact)
         ELSE a = i /\ b = j
  PROVE  <<a + f.x, b + f.y>> \in DamageOnDesktop(f, damage, inexact)
<1> DEFINE rotated == TransformRegion(damage, f.t, f.w, f.h)
           scaled == IF f.lw # 0 /\ f.lh # 0
                     THEN ScaleRegion(rotated, f.lw, tw, f.lh, th, inexact) ELSE rotated
<1>1. <<i, j>> \in rotated
  BY DEF TransformRegion
<1>2. <<a, b>> \in scaled
  <2> HIDE DEF rotated
  <2>1. CASE f.lw # 0 /\ f.lh # 0
    <3>1. <<a, b>> \in ScaleSpan(<<i, j>>[1], f.lw, tw, inexact)
                         \X ScaleSpan(<<i, j>>[2], f.lh, th, inexact)
      BY <2>1
    <3> QED
      BY <1>1, <2>1, <3>1 DEF ScaleRegion
  <2>2. CASE ~(f.lw # 0 /\ f.lh # 0)
    BY <1>1, <2>2
  <2> QED
    BY <2>1, <2>2
<1>3. DamageOnDesktop(f, damage, inexact) = TranslateRegion(scaled, f.x, f.y)
  BY DEF DamageOnDesktop
<1> HIDE DEF scaled
<1>4. <<a + f.x, b + f.y>> = <<<<a, b>>[1] + f.x, <<a, b>>[2] + f.y>>
  OBVIOUS
<1> QED
  BY <1>2, <1>3, <1>4 DEF TranslateRegion

(* No damage is lost on the way to the desktop (nvnc_display_feed_frame     *)
(* against composite_buffer_now): whatever the sizes of the buffer and of   *)
(* the display, the transform and the errors of the scaling factor, a       *)
(* desktop pixel is in the damage of every pixel of the buffer that is      *)
(* blended into it, or, when the display is shown enlarged, that is the     *)
(* main part of it.                                                         *)
THEOREM DamageCoversShown ==
  ASSUME NEW f, IsFrame(f), NEW q \in RectangleOf(f), NEW inexact \in BOOLEAN,
         NEW p \in ShownPixels(f, q[1] - f.x, q[2] - f.y),
         IsEnlarged(f) => IsMain(f, q[1] - f.x, q[2] - f.y, p),
         NEW damage, p \in damage
  PROVE  p \in Buffer(f) /\ q \in DamageOnDesktop(f, damage, inexact)
<1>1. PICK tw, th, lw, lh \in Nat \ {0} :
         /\ TransformDimensions(f.t, f.w, f.h) = <<tw, th>>
         /\ EffectiveSize(f) = <<lw, lh>>
         /\ IF f.lw # 0 /\ f.lh # 0 THEN lw = f.lw /\ lh = f.lh ELSE lw = tw /\ lh = th
  BY Dimensions
<1>2. PICK x \in Nat, y \in Nat :
         /\ q = <<x + f.x, y + f.y>>
         /\ q[1] - f.x = x /\ q[2] - f.y = y
  <2>1. q \in (f.x..(f.x + lw - 1)) \X (f.y..(f.y + lh - 1))
    BY <1>1 DEF RectangleOf
  <2>2. PICK c \in f.x..(f.x + lw - 1), d \in f.y..(f.y + lh - 1) : q = <<c, d>>
    BY <2>1
  <2>3. c - f.x \in Nat /\ d - f.y \in Nat
    BY DEF IsFrame
  <2>4. c = (c - f.x) + f.x /\ d = (d - f.y) + f.y
    BY DEF IsFrame
  <2> QED
    BY <2>2, <2>3, <2>4
<1>3. p \in Buffer(f)
  BY DEF ShownPixels, Buffer
<1>4. PICK i \in Nat, j \in Nat : TransformPixel(f.t, p, f.w, f.h) = <<i, j>>
  BY <1>1, <1>3, TransformInside
<1>5. /\ p \in ShownPixels(f, x, y)
      /\ IsEnlarged(f) => IsMain(f, x, y, p)
  BY <1>2
<1>6. Sizes(f, tw, th, lw, lh)
  BY <1>1 DEF Sizes
<1>7. /\ Gap(x, i, lw, tw) < 2 * lw /\ Gap(y, j, lh, th) < 2 * lh
      /\ IsMain(f, x, y, p) => Gap(x, i, lw, tw) <= lw /\ Gap(y, j, lh, th) <= lh
  BY <1>4, <1>5, <1>6, GapOfShown
<1>8. ~IsEnlarged(f) => lw <= tw /\ lh <= th
  BY <1>1 DEF IsEnlarged
<1>9. CASE f.lw # 0 /\ f.lh # 0
  <2>1. x \in ScaleSpan(i, lw, tw, inexact)
    <3>1. CASE IsEnlarged(f)
      BY <1>5, <1>7, <3>1, MainInSpan
    <3>2. CASE ~IsEnlarged(f)
      BY <1>7, <1>8, <3>2, BlendInSpan
    <3> QED
      BY <3>1, <3>2
  <2>2. y \in ScaleSpan(j, lh, th, inexact)
    <3>1. CASE IsEnlarged(f)
      BY <1>5, <1>7, <3>1, MainInSpan
    <3>2. CASE ~IsEnlarged(f)
      BY <1>7, <1>8, <3>2, BlendInSpan
    <3> QED
      BY <3>1, <3>2
  <2> QED
    BY <1>1, <1>2, <1>3, <1>4, <1>9, <2>1, <2>2, DamageOfPixel
<1>10. CASE ~(f.lw # 0 /\ f.lh # 0)
  <2>1. x = i /\ y = j
    BY <1>1, <1>7, <1>10, BlendSame
  <2> QED
    BY <1>1, <1>2, <1>3, <1>4, <1>10, <2>1, DamageOfPixel
<1> QED
  BY <1>9, <1>10

(* The damage of a display is no more than one pixel outside of its         *)
(* rectangle: scaling rounds outwards, and its factor may be too large.     *)
THEOREM DamageWithinMargin ==
  ASSUME NEW f, IsFrame(f), NEW damage \in SUBSET Buffer(f), NEW inexact \in BOOLEAN
  PROVE  DamageOnDesktop(f, damage, inexact) \subseteq Margin(f)
<1>1. PICK tw, th, lw, lh \in Nat \ {0} :
         /\ TransformDimensions(f.t, f.w, f.h) = <<tw, th>>
         /\ EffectiveSize(f) = <<lw, lh>>
         /\ IF f.lw # 0 /\ f.lh # 0 THEN lw = f.lw /\ lh = f.lh ELSE lw = tw /\ lh = th
  BY Dimensions
<1> DEFINE rotated == TransformRegion(damage, f.t, f.w, f.h)
           scaled == IF f.lw # 0 /\ f.lh # 0
                     THEN ScaleRegion(rotated, f.lw, tw, f.lh, th, inexact) ELSE rotated
<1>2. \A r \in rotated : \E i \in 0..(tw - 1), j \in 0..(th - 1) : r = <<i, j>>
  BY <1>1, TransformInside DEF TransformRegion
<1>3. \A s \in scaled : \E a \in (-1)..lw, b \in (-1)..lh : s = <<a, b>>
  <2> HIDE DEF rotated
  <2>1. CASE f.lw # 0 /\ f.lh # 0
    <3> SUFFICES ASSUME NEW s \in ScaleRegion(rotated, f.lw, tw, f.lh, th, inexact)
                 PROVE  \E a \in (-1)..lw, b \in (-1)..lh : s = <<a, b>>
      BY <2>1
    <3>1. PICK r \in rotated :
            s \in ScaleSpan(r[1], f.lw, tw, inexact) \X ScaleSpan(r[2], f.lh, th, inexact)
      BY DEF ScaleRegion
    <3>2. PICK i \in 0..(tw - 1), j \in 0..(th - 1) : r = <<i, j>>
      BY <1>2
    <3>3. /\ ScaleSpan(i, lw, tw, inexact) \subseteq (-1)..lw
          /\ ScaleSpan(j, lh, th, inexact) \subseteq (-1)..lh
      BY SpanInside
    <3>4. s \in ScaleSpan(i, lw, tw, inexact) \X ScaleSpan(j, lh, th, inexact)
      BY <1>1, <2>1, <3>1, <3>2
    <3> QED
      BY <3>3, <3>4
  <2>2. CASE ~(f.lw # 0 /\ f.lh # 0)
    BY <1>1, <1>2, <2>2
  <2> QED
    BY <2>1, <2>2
<1>4. DamageOnDesktop(f, damage, inexact) = TranslateRegion(scaled, f.x, f.y)
  BY <1>1 DEF DamageOnDesktop
<1> HIDE DEF scaled
<1> SUFFICES ASSUME NEW s \in scaled
             PROVE  <<s[1] + f.x, s[2] + f.y>> \in Margin(f)
  BY <1>4 DEF TranslateRegion
<1>5. PICK a \in (-1)..lw, b \in (-1)..lh : s = <<a, b>>
  BY <1>3
<1>6. a + f.x \in (f.x - 1)..(f.x + lw) /\ b + f.y \in (f.y - 1)..(f.y + lh)
  BY DEF IsFrame
<1> QED
  BY <1>1, <1>5, <1>6 DEF Margin

-----------------------------------------------------------------------------
(* A damage job has a frame, and its result is not computed yet or is the   *)
(* damage of each pixel of the buffer.                                      *)
DamageJobs ==
  job.kind = "damage" =>
    /\ IsFrame(job.frame) /\ job.inexact \in BOOLEAN
    /\ \/ out = Pending
       \/ out = [p \in Buffer(job.frame) |-> DamageOnDesktop(job.frame, {p}, job.inexact)]

LEMMA DamageJobsInit == Init => DamageJobs
<1> SUFFICES ASSUME Init, job.kind = "damage" PROVE DamageJobs
  BY DEF DamageJobs
<1>1. out = Pending
  BY DEF Init
<1>2. ~PixelJob
  BY DEF PixelJob
<1>3. ~CursorJob
  <2> SUFFICES ASSUME CursorJob PROVE FALSE
    OBVIOUS
  <2>1. \E c, image : job = [kind |-> "cursor", client |-> c, cpixel |-> FALSE, image |-> image]
    BY Zenon DEF CursorJob
  <2> QED
    BY <2>1
<1>4. ~TileJob
  BY DEF TileJob
<1>5. ~TextJob
  BY DEF TextJob
<1>6. ~DesktopJob
  BY DEF DesktopJob
<1>7. DamageJob
  BY <1>2, <1>3, <1>4, <1>5, <1>6 DEF Init
<1>8. IsFrame(job.frame) /\ job.inexact \in BOOLEAN
  BY <1>7 DEF DamageJob, IsFrame
<1> QED
  BY <1>1, <1>8 DEF DamageJobs

LEMMA DamageJobsNext == DamageJobs /\ [Next]_vars => DamageJobs'
<1> SUFFICES ASSUME DamageJobs, [Next]_vars PROVE DamageJobs'
  OBVIOUS
<1>1. CASE DoDamage
  BY <1>1 DEF DoDamage, DamageJobs
<1>2. CASE DoPixels \/ DoCursor \/ DoTile \/ DoLatin1 \/ DoUtf8 \/ DoLines \/ DoBase64
  <2>1. job' = job /\ job.kind # "damage"
    BY <1>2 DEF DoPixels, DoCursor, DoTile, DoLatin1, DoUtf8, DoLines, DoBase64
  <2> QED
    BY <2>1 DEF DamageJobs
<1>3. CASE UNCHANGED <<job, out>>
  BY <1>3 DEF DamageJobs
<1> QED
  BY <1>1, <1>2, <1>3 DEF Next, vars

(* Damage reaches the client, for frames of every size: DamageShown, which  *)
(* compares the damage of nvnc_display_feed_frame with the pixels that      *)
(* composite_buffer_now blends, holds of every job.                         *)
THEOREM DamageIsShown == Spec => []DamageShown
<1>1. DamageJobs => DamageShown
  <2> SUFFICES ASSUME DamageJobs, Done("damage") PROVE DamageShown
    BY DEF DamageShown
  <2> DEFINE f == job.frame
  <2>1. /\ IsFrame(f) /\ job.inexact \in BOOLEAN
        /\ out = [p \in Buffer(f) |-> DamageOnDesktop(f, {p}, job.inexact)]
    BY DEF DamageJobs, Done
  <2>2. ASSUME NEW q \in RectangleOf(f),
               NEW p \in ShownPixels(f, q[1] - f.x, q[2] - f.y),
               ~(IsEnlarged(f) /\ ~IsMain(f, q[1] - f.x, q[2] - f.y, p))
        PROVE  q \in out[p]
    <3>1. p \in Buffer(f) /\ q \in DamageOnDesktop(f, {p}, job.inexact)
      BY <2>1, <2>2, DamageCoversShown
    <3> QED
      BY <2>1, <3>1
  <2>3. ASSUME NEW p \in DOMAIN out PROVE out[p] \subseteq Margin(f)
    <3>1. p \in Buffer(f) /\ out[p] = DamageOnDesktop(f, {p}, job.inexact)
      BY <2>1
    <3> QED
      BY <2>1, <3>1, DamageWithinMargin
  <2> QED
    BY <2>2, <2>3 DEF DamageShown
<1> QED
  BY <1>1, DamageJobsInit, DamageJobsNext, PTL DEF Spec
=============================================================================
