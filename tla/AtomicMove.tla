----------------------------- MODULE AtomicMove -----------------------------
(***************************************************************************)
(* What moving files promises: every file is at its source or at its        *)
(* target, it changes place in one step, and the result says "ok" exactly   *)
(* when all of them arrived.  A file still at its source may grow, and a    *)
(* move may miss what was appended since the program last looked, but never *)
(* what the file held when the program started.                             *)
(***************************************************************************)
EXTENDS SequencesExt

CONSTANTS Unit, NoFile

VARIABLES
  first,    \* what the files held at the start, NoFile for a missing one
  home,     \* where each file is: "source", "target" or "absent"
  text,     \* what each file holds there
  result    \* "none" until the program ends, then "ok" or "error"

vars == <<first, home, text, result>>

File == DOMAIN first

Init ==
  /\ home = [f \in File |-> IF first[f] = NoFile THEN "absent" ELSE "source"]
  /\ text = first
  /\ result = "none"

Verdict(places) == IF \A f \in File : places[f] = "target" THEN "ok" ELSE "error"

Move(f) ==
  /\ result = "none"
  /\ home[f] = "source"
  /\ home' = [home EXCEPT ![f] = "target"]
  /\ text' = [text EXCEPT ![f] = text'[f]]
  /\ IsPrefix(first[f], text'[f])
  /\ IsPrefix(text'[f], text[f])
  /\ result' \in {"none", Verdict(home')}
  /\ UNCHANGED first

Report ==
  /\ result = "none"
  /\ result' = Verdict(home)
  /\ UNCHANGED <<first, home, text>>

Grow(f) ==
  /\ home[f] = "source"
  /\ \E u \in Unit : text' = [text EXCEPT ![f] = Append(@, u)]
  /\ UNCHANGED <<first, home, result>>

Next == Report \/ \E f \in File : Move(f) \/ Grow(f)

Spec == Init /\ [][Next]_vars
=============================================================================
