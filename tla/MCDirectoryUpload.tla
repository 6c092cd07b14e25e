-------------------------- MODULE MCDirectoryUpload --------------------------
(***************************************************************************)
(* DirectoryUpload on a small instance: two threads; a directory of three   *)
(* files, the smallest of which has the stem of another one, in another    *)
(* folder, and goes to another thread; one of a file and an empty file;    *)
(* an empty one.                                                           *)
(***************************************************************************)
EXTENDS DirectoryUpload, TLC

CONSTANTS a, b, c, e, stemA, stemC, stemE

MCChunks == (a :> 2) @@ (b :> 1) @@ (c :> 2) @@ (e :> 0)
MCStem == (a :> stemA) @@ (b :> stemA) @@ (c :> stemC) @@ (e :> stemE)
MCDirectories == {{}, {a, b, c}, {b, e}}
=============================================================================
