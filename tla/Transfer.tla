------------------------------ MODULE Transfer ------------------------------
(***************************************************************************)
(* What UploadFile and DownloadFile promise, with all that happens on the  *)
(* way left out: a transfer copies a source file to a place of its own.    *)
(* It reports success only when the place holds the whole file, and then   *)
(* the place is sealed: no later transfer and no resume writes there, or   *)
(* reports it again.  Whatever else a transfer did, it has failed.         *)
(*                                                                         *)
(* A place is an id of the server for Upload and a local name for          *)
(* Download; both implement this specification.  A place may also be       *)
(* sealed half-filled, when nobody is left who knows of it.                *)
(***************************************************************************)
CONSTANTS Files,
          Places,
          None,           \* no file
          IsCopy(_, _)    \* whether a content is the whole of a file

VARIABLES
  phase,     \* "rest", "transfer" or "resume": the call being made
  source,    \* the file it copies, None as long as that is open
  outcome,   \* how the last call ended
  content,   \* of each place
  sealed     \* the places that are not written any more

vars == <<phase, source, outcome, content, sealed>>

Init == phase = "rest" /\ source = None /\ outcome = "none" /\ sealed = {}

Seal == sealed \subseteq sealed'

(* One place that is not sealed is written. *)
Write == \E p \in Places \ sealed : content' = [content EXCEPT ![p] = content'[p]]

Start ==
  /\ phase = "rest" /\ phase' \in {"transfer", "resume"}
  /\ source' \in Files \cup {None}
  /\ outcome' = "none"
  /\ UNCHANGED content /\ Seal

Proceed ==
  /\ phase # "rest"
  /\ source' = source \/ (source = None /\ source' \in Files)
  /\ UNCHANGED content \/ Write
  /\ UNCHANGED <<phase, outcome>> /\ Seal

End(result) ==
  /\ phase # "rest" /\ phase' = "rest"
  /\ source' = None
  /\ outcome' = result
  /\ UNCHANGED content /\ Seal

Succeed ==
  /\ End("true")
  /\ phase = "transfer" => \E p \in sealed' \ sealed : IsCopy(content[p], source)

Fail == End("false") \/ End("threw") \/ End("killed")

Rest == phase = "rest" /\ Seal /\ UNCHANGED <<phase, source, outcome, content>>

Next == Start \/ Proceed \/ Succeed \/ Fail \/ Rest

Spec == Init /\ [][Next]_vars

=============================================================================
