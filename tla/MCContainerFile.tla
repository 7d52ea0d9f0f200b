-------------------------- MODULE MCContainerFile --------------------------
(***************************************************************************)
(* TLC instance of ContainerFile, on the paths of MCSplicePath: lengths    *)
(* that need padding and lengths that need none; containers of one edge    *)
(* with up to two edits and of two edges with one.                         *)
(***************************************************************************)
EXTENDS ContainerFile, MCSplicePath
=============================================================================
