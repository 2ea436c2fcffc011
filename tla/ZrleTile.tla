------------------------------ MODULE ZrleTile ------------------------------
(***************************************************************************)
(* The encoding of one tile by the ZRLE encoder (enc/zrle.c).  A pixel is  *)
(* its colour; an encoded tile is its first byte, the colours that follow  *)
(* it and the bytes after those.                                           *)
(***************************************************************************)
EXTENDS Integers, Sequences, FiniteSets, FiniteSetsExt

CONSTANTS
  PaletteMax,   \* the greatest palette, 16 in the code
  RunMax        \* the greatest byte of a run length, 255 in the code

ASSUME TileAssumption == PaletteMax \in 1..127 /\ RunMax \in 1..255

LOCAL INSTANCE SequencesExt

NoPalette == << >>

(* The elements of a set of positions in the order of a loop over them. *)
Ascending(S) ==
  [k \in 1..Cardinality(S) |->
     CHOOSE i \in S : Cardinality({j \in S : j < i}) = k - 1]

(* find_colour_in_palette, which must be there. *)
IndexOf(palette, colour) == Min({i \in DOMAIN palette : palette[i] = colour}) - 1

(* zrle_get_tile_palette: the colours in the order of their first pixels,   *)
(* and no palette if they are too many.                                     *)
TilePalette(tile) ==
  LET firsts == {i \in DOMAIN tile : \A j \in 1..(i - 1) : tile[j] # tile[i]}
      order == Ascending(firsts)
  IN  IF Cardinality(firsts) > PaletteMax THEN NoPalette
      ELSE [k \in DOMAIN order |-> tile[order[k]]]

(* encode_run_length: full bytes while more than one of them is left. *)
EncodeRunLength(index, n) ==
  IF n = 1 THEN <<index>>
  ELSE <<index + 128>> \o [k \in 1..((n - 1) \div RunMax) |-> RunMax]
         \o <<(n - 1) % RunMax>>

(* zrle_encode_packed_tile: the runs of equal pixels, each with the index   *)
(* of its colour.                                                           *)
PackedTile(tile, palette) ==
  LET starts == {i \in DOMAIN tile : i = 1 \/ tile[i] # tile[i - 1]}
      order == Ascending(starts)
      length(k) == (IF k = Len(order) THEN Len(tile) + 1 ELSE order[k + 1]) - order[k]
      runs == [k \in DOMAIN order |->
                 EncodeRunLength(IndexOf(palette, tile[order[k]]), length(k))]
  IN  [head |-> 128 + Len(palette), colours |-> palette, bytes |-> FlattenSeq(runs)]

(* zrle_encode_unichrome_tile *)
UnichromeTile(colour) == [head |-> 1, colours |-> <<colour>>, bytes |-> << >>]

TileSize(t, bpp) == 1 + bpp * Len(t.colours) + Len(t.bytes)

(* zrle_encode_tile, for pixels of bpp bytes. *)
EncodeTile(tile, bpp) ==
  LET palette == TilePalette(tile)
      packed == PackedTile(tile, palette)
      raw == [head |-> 0, colours |-> tile, bytes |-> << >>]
  IN  IF Len(palette) = 1 THEN UnichromeTile(palette[1])
      ELSE IF palette # NoPalette /\ TileSize(packed, bpp) <= 1 + bpp * Len(tile)
      THEN packed
      ELSE raw
=============================================================================
