----------------------------- MODULE Algorithms -----------------------------
(***************************************************************************)
(* The pure functions of the server, run on every input of bounded sets:   *)
(* each behaviour takes one input and computes its result.  The properties *)
(* compare the result with a definition of what it should be that is       *)
(* independent of how the code computes it.  One kind of behaviour has no  *)
(* single input: it is a desktop, of the module Displays, over time.       *)
(***************************************************************************)
EXTENDS Cursor, ZrleTile, Displays, Text, SequencesExt

CONSTANTS
  MaxSide,      \* the greatest width and height of a buffer
  MaxLogical,   \* the greatest logical width and height
  Bytes,        \* bytes of UTF-8 text
  MaxText,      \* the greatest length of a text
  MaxTile       \* the greatest number of pixels of a tile

VARIABLES job, out

vars == <<job, out, desktop>>

Pending == << >>

-----------------------------------------------------------------------------
(* Pixels: what the formats of frames and of clients can be. *)
ServerFormats == {PixelFormatFromFourcc(f) : f \in PixelFormatTable}

(* A client may ask for either byte order.  Of the big-endian formats only  *)
(* those with channels of one whole byte are looked at: for the others      *)
(* nvnc_pixel_format_from_rfb mirrors bits where it should swap bytes.      *)
WholeByte(fmt, c) == fmt.shift[c] % 8 = 0 /\ fmt.size[c] = 8

ClientFormats ==
  {PixelFormatToRfb(fmt) : fmt \in ServerFormats}
  \cup {[PixelFormatToRfb(fmt) EXCEPT !.bigEndian = TRUE] :
          fmt \in {g \in ServerFormats : \A c \in Colours : WholeByte(g, c)}}

(* A row of two pixels: one has a single bit set, the other all but that.   *)
(* Compact pixels are for formats of four bytes.                            *)
PixelJob ==
  \E s \in ServerFormats, c \in ClientFormats, z \in BOOLEAN :
    /\ z => c.bits = 32
    /\ \E b \in Mask(8 * s.bytes) :
         job = [kind |-> "pixels", src |-> s, client |-> c, cpixel |-> z,
                row |-> <<{b}, Mask(8 * s.bytes) \ {b}>>]

RowOf(pixels, bytes) == StorePixel(pixels[1], bytes) \o StorePixel(pixels[2], bytes)

ClientFormat(j) ==
  IF j.cpixel THEN PixelFormatToCpixel(PixelFormatFromRfb(j.client))
              ELSE PixelFormatFromRfb(j.client)

DoPixels ==
  /\ job.kind = "pixels" /\ out = Pending
  /\ out' = ConvertPixels(RowOf(job.row, job.src.bytes), 2, job.src, ClientFormat(job))
  /\ UNCHANGED job

(* A cursor of up to two by two pixels, scaled in no direction; each pixel  *)
(* has all bits of alpha or all the others.  Of the formats with two bytes, *)
(* cursors of one row: MaskPixel finds no other row in its place.           *)
CursorJob ==
  \E f \in {g \in PixelFormatTable : HasAlpha(g)}, w, h \in 1..2, t \in Transforms,
     c \in {PixelFormatToRfb(PixelFormatFromFourcc(g)) :
               g \in {<< <<"R", "G", "B", "X">>, <<8, 8, 8, 8>> >>,
                      << <<"B", "G", "R", "N">>, <<5, 6, 5, 0>> >>}} :
    LET alpha == {Shift(f, "A") + b : b \in Mask(Size(f, "A"))}
        values == {alpha, Mask(BitsPerPixel(f)) \ alpha}
        frame == [x |-> 0, y |-> 0, w |-> w, h |-> h, t |-> t, lw |-> 0, lh |-> 0]
    IN  /\ BitsPerPixel(f) = 16 => CompositeHeight(<<frame>>) = 1
        /\ \E pixels \in [(0..(w - 1)) \X (0..(h - 1)) -> values] :
             job = [kind |-> "cursor", client |-> c, cpixel |-> FALSE,
                    image |-> [frame |-> frame, fourcc |-> f, pixels |-> pixels]]

DoCursor ==
  /\ job.kind = "cursor" /\ out = Pending
  /\ out' = CursorEncode(job.image, <<1, 0>>, ClientFormat(job))
  /\ UNCHANGED job

TileJob ==
  \E n \in 1..MaxTile, bpp \in {1, 3} :
    \E tile \in [1..n -> 1..(PaletteMax + 1)] :
      job = [kind |-> "tile", tile |-> tile, bpp |-> bpp]

DoTile ==
  /\ job.kind = "tile" /\ out = Pending
  /\ out' = EncodeTile(job.tile, job.bpp)
  /\ UNCHANGED job

-----------------------------------------------------------------------------
(* Frames: every transform, scaled or not, anywhere near the origin. *)
DamageJob ==
  \E at \in {<<0, 0>>, <<1, 2>>}, w, h \in 1..MaxSide, t \in Transforms,
     logical \in {<<0, 0>>} \cup ((1..MaxLogical) \X (1..MaxLogical)), i \in BOOLEAN :
    job = [kind |-> "damage", inexact |-> i,
           frame |-> [x |-> at[1], y |-> at[2], w |-> w, h |-> h, t |-> t,
                      lw |-> logical[1], lh |-> logical[2]]]

(* The damage of each pixel of the buffer, on the desktop. *)
DoDamage ==
  /\ job.kind = "damage" /\ out = Pending
  /\ LET f == job.frame
     IN  out' = [p \in Buffer(f) |-> DamageOnDesktop(f, {p}, job.inexact)]
  /\ UNCHANGED job

-----------------------------------------------------------------------------
Texts(chars) == UNION {[1..n -> chars] : n \in 0..MaxText}

TextJob ==
  \/ job \in [kind : {"latin1", "utf8", "base64"}, text : Texts(Bytes)]
  \/ job \in [kind : {"lines"}, text : Texts({CR, LF, 97})]

DoLatin1 ==
  /\ job.kind = "latin1" /\ out = Pending
  /\ out' = <<Utf8ToLatin1(Latin1ToUtf8(job.text))>>
  /\ UNCHANGED job

DoUtf8 ==
  /\ job.kind = "utf8" /\ out = Pending
  /\ out' = <<Utf8ToLatin1(job.text)>>
  /\ UNCHANGED job

DoLines ==
  /\ job.kind = "lines" /\ out = Pending
  /\ out' = <<CrLfToLf(job.text)>>
  /\ UNCHANGED job

DoBase64 ==
  /\ job.kind = "base64" /\ out = Pending
  /\ out' = <<Base64Encode(job.text), Base64Decode(Base64Encode(job.text))>>
  /\ UNCHANGED job

-----------------------------------------------------------------------------
DesktopJob == job = [kind |-> "desktop"]

Init ==
  /\ PixelJob \/ CursorJob \/ TileJob \/ DamageJob \/ TextJob \/ DesktopJob
  /\ out = Pending
  /\ DesktopInit

Next ==
  \/ /\ \/ DoPixels \/ DoCursor \/ DoTile \/ DoDamage
        \/ DoLatin1 \/ DoUtf8 \/ DoLines \/ DoBase64
     /\ UNCHANGED desktop
  \/ DesktopJob /\ DesktopNext /\ UNCHANGED <<job, out>>

Spec == Init /\ [][Next]_vars

Done(kind) == job.kind = kind /\ out # Pending

-----------------------------------------------------------------------------
(* How a client reads the i-th pixel of the bytes it was sent: in its own   *)
(* byte order, a compact pixel without the byte that holds no channel.      *)
Received(sent, i) ==
  LET n == ClientFormat(job).bytes
      at(j) == IF job.client.bigEndian THEN n - 1 - j ELSE j
  IN  UNION {Shl(sent[i * n + j + 1], 8 * at(j)) : j \in 0..(n - 1)}

ReadShift(c) ==
  LET low == Min({job.client.shift[d] : d \in Colours})
  IN  IF ClientFormat(job).bytes < job.client.bits \div 8
      THEN job.client.shift[c] - low
      ELSE job.client.shift[c]

(* The most significant bits of a channel, counted from the top. *)
Top(value, size, n) == {size - 1 - b : b \in value} \cap 0..(n - 1)

(* The i-th pixel of the bytes, as the client reads it, has the colour px. *)
HasColour(sent, i, px, src) ==
  \A c \in Colours :
    LET s == src.size[c]
        d == Cardinality(job.client.max[c])
        value == Shr(px, src.shift[c]) \cap Mask(s)
        read == Shr(Received(sent, i), ReadShift(c)) \cap Mask(d)
    IN  Top(read, d, d) = Top(value, s, d)

(* How a client reads a packed tile, byte by byte (RFC 6143, 7.7.6): an     *)
(* index is a pixel, an index above 128 begins a run, and the bytes of a    *)
(* run add up until one is not the greatest.                                *)
Unpacked(t) ==
  LET Read(acc, b) ==
        IF acc.run
        THEN [acc EXCEPT !.run = (b = RunMax), !.px = @ \o [k \in 1..b |-> acc.c]]
        ELSE LET c == t.colours[(b % 128) + 1]
             IN  [run |-> b >= 128, c |-> c, px |-> Append(acc.px, c)]
  IN  FoldLeft(Read, [run |-> FALSE, c |-> 0, px |-> << >>], t.bytes)

(* Colours survive the trip to the client (nvnc_convert_pixels with the     *)
(* formats of nvnc_pixel_format_from_rfb and _to_cpixel): whatever formats  *)
(* the frame and the client have, the client's in either byte order if its  *)
(* channels are whole bytes and little-endian otherwise, each channel       *)
(* that the client reads has the leading bits of the frame's channel, as    *)
(* many as both have, then zeros; nothing of the neighbouring pixel or of   *)
(* another channel gets in.  Where damage of a pixel of a cursor's image    *)
(* would be shown, the cursor has its colour, and is opaque just when the   *)
(* top bit of its alpha is set (cursor_encode, extract_alpha_mask), for     *)
(* cursors of four bytes a pixel and those of two that have one row.  A ZRLE *)
(* tile is no longer than its raw form and decodes to its pixels            *)
(* (zrle_encode_tile).                                                      *)
ColoursPreserved ==
  /\ Done("pixels") =>
       \A i \in 0..1 : HasColour(out, i, job.row[i + 1], job.src)
  /\ Done("cursor") =>
       \A p \in DOMAIN job.image.pixels :
         \A q \in DamageOnDesktop(job.image.frame, {p}, FALSE) :
           LET i == q[2] * out.w + q[1]
               f == job.image.fourcc
               px == job.image.pixels[p]
           IN  /\ HasColour(out.pixels, i, px, PixelFormatFromFourcc(f))
               /\ out.mask[i + 1] = (Shift(f, "A") + Size(f, "A") - 1 \in px)
  /\ Done("tile") =>
       /\ TileSize(out, job.bpp) <= 1 + job.bpp * Len(job.tile)
       /\ CASE out.head = 0 -> out.colours = job.tile
            [] out.head = 1 -> job.tile = [k \in DOMAIN job.tile |-> out.colours[1]]
            [] OTHER -> ~Unpacked(out).run /\ Unpacked(out).px = job.tile

(* A rectangle and the pixels around it. *)
Margin(f) ==
  LET size == EffectiveSize(f)
  IN  ((f.x - 1)..(f.x + size[1])) \X ((f.y - 1)..(f.y + size[2]))

(* Damage reaches the client (nvnc_display_feed_frame against               *)
(* composite_buffer_now): the two compute where a buffer's pixels are shown *)
(* in opposite directions, one by mapping rectangles forward and one by     *)
(* mapping pixel centres back through a matrix, with a filter.  Every       *)
(* desktop pixel that a damaged pixel of the buffer is blended into is in   *)
(* the damage; of a display that is shown enlarged, every pixel that the    *)
(* damaged one is the main part of.  The damage is not more than one pixel  *)
(* outside of the display's rectangle.                                      *)
DamageShown ==
  Done("damage") =>
    LET f == job.frame IN
    /\ \A q \in RectangleOf(f) :
         \A p \in ShownPixels(f, q[1] - f.x, q[2] - f.y) :
           \/ q \in out[p]
           \/ IsEnlarged(f) /\ ~IsMain(f, q[1] - f.x, q[2] - f.y, p)
    /\ \A p \in DOMAIN out : out[p] \subseteq Margin(f)

(* The UTF-8 encoding of a code point below 2^16, from its definition. *)
Encoded(cp) ==
  IF cp < 128 THEN <<cp>>
  ELSE IF cp < 2048 THEN <<192 + (cp \div 64), 128 + (cp % 64)>>
  ELSE <<224 + (cp \div 4096), 128 + ((cp \div 64) % 64), 128 + (cp % 64)>>

(* Clipboard text is preserved (utf8.c, crlf_to_lf, base64.c): Latin-1 text *)
(* comes back from UTF-8; no byte of the output of utf8_to_latin1 is above  *)
(* 127 unless its own two-byte encoding was there, so overlong and broken   *)
(* sequences yield nothing but question marks; the output fits the buffer;  *)
(* line ends are single line feeds, as many as there were; base64 has the   *)
(* padded length and decodes to what it encodes.                            *)
TextPreserved ==
  /\ Done("latin1") => out[1] = job.text
  /\ Done("utf8") =>
       /\ Len(out[1]) <= Len(job.text)
       /\ \A k \in DOMAIN out[1] :
            out[1][k] # Question =>
              \E i \in DOMAIN job.text :
                 LET e == Encoded(out[1][k])
                 IN  i + Len(e) - 1 <= Len(job.text)
                     /\ SubSeq(job.text, i, i + Len(e) - 1) = e
  /\ Done("lines") =>
       /\ \A k \in DOMAIN out[1] : out[1][k] # CR
       /\ Cardinality({k \in DOMAIN out[1] : out[1][k] = LF})
            = Cardinality({k \in DOMAIN job.text :
                             \/ job.text[k] = CR
                             \/ job.text[k] = LF /\ (k = 1 \/ job.text[k - 1] # CR)})
       /\ SelectSeq(out[1], LAMBDA c : c # LF)
            = SelectSeq(job.text, LAMBDA c : c \notin {CR, LF})
  /\ Done("base64") =>
       /\ Len(out[1]) = 4 * ((Len(job.text) + 2) \div 3)
       /\ out[2] = job.text

(* A sequence that lacks a continuation byte does not swallow what follows  *)
(* (utf8_to_latin1): plain text at the end of a text is kept.               *)
Resyncs ==
  Done("utf8") =>
    \A i \in DOMAIN job.text :
      LET rest == SubSeq(job.text, i, Len(job.text))
      IN  (\A k \in DOMAIN rest : rest[k] < 128) => IsSuffix(rest, out[1])
=============================================================================
