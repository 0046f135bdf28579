------------------------------ MODULE Transfer ------------------------------
(***************************************************************************)
(* What the programs that carry one file over a network promise: the copy   *)
(* grows by the piece of the source that comes next and by nothing else,    *)
(* and what is said of it at the end is true from then on.                  *)
(***************************************************************************)
EXTENDS Naturals, Sequences

VARIABLES
  source,   \* the file, piece by piece
  copy,     \* the pieces that have been written at the other end
  result    \* "none" until the end; "whole"; "sent": the last piece may be
            \* missing; "failed"; "unchecked": an error nobody looked at

vars == <<source, copy, result>>

Init == copy = <<>> /\ result = "none"

Promise(said, pieces) ==
  /\ said = "whole" => pieces = source
  /\ said = "sent" => Len(source) - 1 <= Len(pieces)

Write == Len(copy) < Len(source) /\ copy' = Append(copy, source[Len(copy) + 1])

Report == result = "none" /\ result' \in {"whole", "sent", "failed", "unchecked"}

(* The last piece may be written and reported at once. *)
Next ==
  /\ Write \/ UNCHANGED copy
  /\ Report \/ UNCHANGED result
  /\ Promise(result', copy')
  /\ UNCHANGED source

Spec == Init /\ [][Next]_vars
=============================================================================
