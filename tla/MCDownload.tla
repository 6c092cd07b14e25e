----------------------------- MODULE MCDownload -----------------------------
(***************************************************************************)
(* Download on a small instance: a file of three chunks, one of a single   *)
(* chunk whose name has the same stem, so that they share a checkpoint, an *)
(* empty one, and one spare local name.                                    *)
(***************************************************************************)
EXTENDS Download

CONSTANTS a, b, e, c, stemA, stemE, stemC, stemNone

MCChunks == (a :> 3) @@ (b :> 1) @@ (e :> 0)
MCStem == (a :> stemA) @@ (b :> stemA) @@ (e :> stemE) @@ (c :> stemC) @@ (NoName :> stemNone)
=============================================================================
