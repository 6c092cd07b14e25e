------------------------------ MODULE MCUpload ------------------------------
(***************************************************************************)
(* Upload on a small instance: a file of two full chunks and a rest, one   *)
(* of two chunks, one of a single chunk and an empty one.  The first three *)
(* differ only in their extension, so that they share a checkpoint file    *)
(* and one can be resumed from the checkpoint of another.                  *)
(***************************************************************************)
EXTENDS Upload, TLC

CONSTANTS a, b, c, e, stemA, stemE

MCFileSize == (a :> 5) @@ (b :> 4) @@ (c :> 1) @@ (e :> 0)
MCStem == (a :> stemA) @@ (b :> stemA) @@ (c :> stemA) @@ (e :> stemE)
=============================================================================
