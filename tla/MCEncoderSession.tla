-------------------------- MODULE MCEncoderSession --------------------------
(***************************************************************************)
(* TLC instance of EncoderSession.  Frames larger than the stdin pipe, so  *)
(* that a frame is written in parts and the writer blocks; a stderr pipe   *)
(* of one unit, so that logging blocks the child; a log longer than the    *)
(* tail; two write_frame calls, so that there is one after an error.       *)
(***************************************************************************)
EXTENDS EncoderSession
=============================================================================
