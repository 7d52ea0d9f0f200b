--------------------------- MODULE MCEncoderProbe ---------------------------
(***************************************************************************)
(* TLC instance of EncoderProbe: two smoke frames and a stdin of one unit, *)
(* so that the second blocks on a child that hangs; a log larger than the  *)
(* stderr pipe.                                                            *)
(***************************************************************************)
EXTENDS EncoderProbe
=============================================================================
