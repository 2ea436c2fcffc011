------------------------------- MODULE Cursor -------------------------------
(***************************************************************************)
(* The encoding of the cursor (cursor.c).                                  *)
(***************************************************************************)
EXTENDS Pixels, Geometry

NoImage == << >>

EmptyCursor == [x |-> 0, y |-> 0, w |-> 0, h |-> 0, pixels |-> << >>, mask |-> << >>]

(* The mask is taken row by row.  The rows are found as if pixels had four  *)
(* bytes: with half of that, a row begins two rows further for every row,   *)
(* and the result says where the row of each pixel of the mask is read.     *)
MaskPixel(k, w, bytes) == (4 \div bytes) * (k \div w) * w + (k % w)

(* cursor_encode: the image is composited by itself, which turns it,        *)
(* converted to the client's format, and followed by the mask.  The image   *)
(* is not scaled, so one pixel of it is shown at each pixel of the cursor.  *)
CursorEncode(image, hot, fmt) ==
  LET f == image.frame
      w == CompositeWidth(<<f>>)
      h == CompositeHeight(<<f>>)
      src == PixelFormatFromFourcc(image.fourcc)
      fb == [k \in 0..(w * h - 1) |->
               image.pixels[CHOOSE p \in ShownPixels(f, k % w, k \div w) : TRUE]]
      rows == [k \in 1..(w * h * src.bytes) |->
                 StorePixel(fb[(k - 1) \div src.bytes], src.bytes)[((k - 1) % src.bytes) + 1]]
  IN  IF image = NoImage THEN EmptyCursor
      ELSE [x |-> hot[1], y |-> hot[2], w |-> w, h |-> h,
            pixels |-> ConvertPixels(rows, w * h, src, fmt),
            mask |-> AlphaMask([k \in 1..(w * h) |-> fb[MaskPixel(k - 1, w, src.bytes)]],
                               image.fourcc)]
=============================================================================
