--------------------------- MODULE MCFrameOverlay ---------------------------
(***************************************************************************)
(* TLC instance of FrameOverlay: packs of up to two frames, one of which   *)
(* may look like a footer inside; two segments of two icounts; a hash that *)
(* reads as a length of 0, 1 or more than is left.                         *)
(***************************************************************************)
EXTENDS FrameOverlay

Pix == [t |-> "pix"]

\* A frame's bytes may be those of another pack's footer.
FooterLike == FooterCells(<<>>, 1, 1, 0)

MCPayloads == {<<Pix>>, FooterLike}
MCDamages == {Pix}

\* The frames are those the replay pushes.
MCFrames ==
  [frame : 0..(MaxFrames - 1), segment : 1..MaxSegments, comp : {0}, icount : 0..MaxIcount,
   bytes : MCPayloads]
=============================================================================
