---------------------------- MODULE MCRunCapture ----------------------------
(***************************************************************************)
(* TLC instance of RunCapture: three pipes of one unit each, and more of   *)
(* input, output and log than a pipe holds, so that each can block.        *)
(***************************************************************************)
EXTENDS RunCapture
=============================================================================
