------------------------------- MODULE Pixels -------------------------------
(***************************************************************************)
(* Pixel formats and their conversion (pixels.c).  A pixel of at most 32   *)
(* bits is the set of the positions of its bits that are set, so shifts,   *)
(* masks and their loss of bits are exact.                                 *)
(***************************************************************************)
EXTENDS Integers, Sequences, FiniteSets, FiniteSetsExt

Word == 0..31

(* x << n, x >> n and a mask of the n lowest bits, of 32-bit words. *)
Shl(x, n) == {b + n : b \in {c \in x : c + n <= 31}}
Shr(x, n) == {b - n : b \in {c \in x : c >= n}}
Mask(n) == 0..(n - 1)

-----------------------------------------------------------------------------
(* PIXEL_FORMAT_TABLE: the channels from the most significant one, and      *)
(* their sizes.  "N" is a channel that is not there.                        *)
Rgb(chans, sizes) == {<<c, s>> : c \in chans, s \in sizes}

AlphaLast == {<<"R", "G", "B", "X">>, <<"R", "G", "B", "A">>,
              <<"B", "G", "R", "X">>, <<"B", "G", "R", "A">>}
AlphaFirst == {<<"X", "R", "G", "B">>, <<"A", "R", "G", "B">>,
               <<"X", "B", "G", "R">>, <<"A", "B", "G", "R">>}
NoAlpha == {<<"R", "G", "B", "N">>, <<"B", "G", "R", "N">>}

PixelFormatTable ==
  Rgb(AlphaLast, {<<10, 10, 10, 2>>, <<8, 8, 8, 8>>, <<4, 4, 4, 4>>, <<5, 5, 5, 1>>})
  \cup Rgb(AlphaFirst, {<<2, 10, 10, 10>>, <<8, 8, 8, 8>>, <<4, 4, 4, 4>>,
                   <<1, 5, 5, 5>>})
  \cup Rgb(NoAlpha, {<<8, 8, 8, 0>>, <<5, 6, 5, 0>>})
  \cup {<< <<"R", "G", "B", "N">>, <<3, 3, 2, 0>> >>,
        << <<"B", "G", "R", "N">>, <<2, 3, 3, 0>> >>}

(* The *_SHIFT, *_SIZE and BPP_FROM_SIZES macros. *)
Shift(f, c) ==
  LET After(i) == FoldSet(LAMBDA j, n : n + f[2][j], 0, (i + 1)..4)
  IN  FoldSet(LAMBDA i, n : n + After(i), 0, {i \in 1..4 : f[1][i] = c})

Size(f, c) == FoldSet(LAMBDA i, n : n + f[2][i], 0, {i \in 1..4 : f[1][i] = c})

BitsPerPixel(f) == f[2][1] + f[2][2] + f[2][3] + f[2][4]

HasAlpha(f) == \E i \in 1..4 : f[1][i] = "A"

Colours == {"R", "G", "B"}

(* struct nvnc_pixel_format; max is the mask of a channel. *)
PixelFormat(bytes, shift, max) ==
  [bytes |-> bytes, shift |-> shift, max |-> max,
   size |-> [c \in Colours |-> Cardinality(max[c])]]

PixelFormatFromFourcc(f) ==
  PixelFormat(BitsPerPixel(f) \div 8,
              [c \in Colours |-> Shift(f, c)],
              [c \in Colours |-> Mask(Size(f, c))])

(* nvnc_pixel_format_from_rfb: what a client asks for.  The size of a       *)
(* channel is the number of bits of its maximum.                            *)
PixelFormatFromRfb(rfb) ==
  PixelFormat(rfb.bits \div 8,
    [c \in Colours |->
       IF rfb.bigEndian
       THEN rfb.bits - rfb.shift[c] - Cardinality(rfb.max[c])
       ELSE rfb.shift[c]],
    rfb.max)

PixelFormatToRfb(fmt) ==
  [bits |-> fmt.bytes * 8, bigEndian |-> FALSE, shift |-> fmt.shift,
   max |-> fmt.max]

Depth(fmt) == fmt.size["R"] + fmt.size["G"] + fmt.size["B"]

(* nvnc_pixel_format_to_cpixel: a pixel of four bytes is cut down to the    *)
(* bytes its depth needs; of three bytes, from the lowest channel.          *)
PixelFormatToCpixel(src) ==
  LET bytes == (Depth(src) + 7) \div 8
      low == Min({src.shift[c] : c \in Colours})
  IN  IF src.bytes # 4 THEN src
      ELSE IF bytes # 3 THEN [src EXCEPT !.bytes = bytes]
      ELSE [src EXCEPT !.bytes = 3,
                       !.shift = [c \in Colours |-> src.shift[c] - low]]

-----------------------------------------------------------------------------
(* Mutant: the destination's shift comes before the scaling. *)
ConvertPixelUnscaled(px, s, d) ==
  UNION {Shl(Shr(px, s.shift[c]) \cap s.max[c], d.shift[c]) : c \in Colours}

(* convert_pixel: each channel is scaled to the destination's size. *)
ConvertPixel(px, s, d) ==
  UNION {Shl(Shr(Shl(Shr(px, s.shift[c]) \cap s.max[c], d.size[c]),
                 s.size[c]), d.shift[c]) : c \in Colours}

(* memcpy of a pixel out of a row of bytes.  A pixel of three bytes is read *)
(* with the first byte of the next one, but for the last of the row.        *)
LoadPixel(row, i, bytes, n) ==
  LET width == IF bytes = 3 /\ i < n - 1 THEN 4 ELSE bytes
  IN  {b \in Word : /\ b < 8 * width
                    /\ \E j \in 0..(width - 1) :
                         b \in {8 * j + k : k \in row[i * bytes + j + 1]}}

(* The lowest bytes of a converted pixel, from the lowest one. *)
StorePixel(px, bytes) == [j \in 1..bytes |-> Shr(px, 8 * (j - 1)) \cap Mask(8)]

(* nvnc_convert_pixels for a row of n pixels. *)
ConvertPixels(row, n, s, d) ==
  [k \in 1..(n * d.bytes) |->
     StorePixel(ConvertPixel(LoadPixel(row, (k - 1) \div d.bytes, s.bytes, n),
                             s, d),
                d.bytes)[((k - 1) % d.bytes) + 1]]

-----------------------------------------------------------------------------
(* extract_alpha_mask: one bit per pixel, set when alpha is above half. *)
Value(bits) == FoldSet(LAMBDA b, n : n + 2^b, 0, bits)

AlphaMask(pixels, f) ==
  LET max == Mask(Size(f, "A"))
  IN  [i \in DOMAIN pixels |->
         Value(Shr(pixels[i], Shift(f, "A")) \cap max) > Value(max) \div 2]
=============================================================================
