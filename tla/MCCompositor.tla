---------------------------- MODULE MCCompositor ----------------------------
(* Compositor with two workers, composites of two sizes and four feeds. *)
EXTENDS Compositor

TwoSizes == {1, 2}
FourBuffers == 1..4
=============================================================================
