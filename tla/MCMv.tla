-------------------------------- MODULE MCMv --------------------------------
(* Small instances of Mv: two directories, of which one has two spellings. *)
EXTENDS Mv

CONSTANTS a, b, x, y

MCName == {a, b}
MCSpelling == {"dir", "./dir", "other"}
MCDir == {"Dir", "Other"}
MCReal == [s \in MCSpelling |-> IF s = "other" THEN "Other" ELSE "Dir"]
MCUnit == {x, y}
OneVolume == MCDir \X MCDir
TwoVolumes == {<<d, d>> : d \in MCDir}

P(s, n) == [dir |-> s, base |-> n]
E(d, n) == [dir |-> d, base |-> n]

OperandCalls ==
  { [list |-> FALSE, lines |-> <<P("dir", a)>>, target |-> P("other", b)],
    [list |-> FALSE, lines |-> <<P("dir", a)>>, target |-> P("./dir", b)],
    [list |-> FALSE, lines |-> <<P("dir", a)>>, target |-> P("dir", a)] }
ListCalls ==
  { [list |-> TRUE, lines |-> <<P("dir", a), P("./dir", b)>>, target |-> P("other", a)],
    [list |-> TRUE, lines |-> <<>>, target |-> P("other", a)] }
AliasCalls ==
  { [list |-> FALSE, lines |-> <<P("dir", a)>>, target |-> P("./dir", a)],
    [list |-> TRUE, lines |-> <<P("dir", a)>>, target |-> P("dir", a)] }

SafeCalls == OperandCalls \cup ListCalls
AllCalls == SafeCalls \cup AliasCalls

(* dir/a holds two units or is missing, dir/b holds one, other/b may exist. *)
MCInitial ==
  { [e \in [dir : MCDir, base : MCName] |->
       CASE e = E("Dir", a) -> ta [] e = E("Dir", b) -> tb
         [] e = E("Other", b) -> tc [] OTHER -> NoFile] :
      ta \in {<<x, y>>, <<>>, NoFile}, tb \in {<<x>>, NoFile}, tc \in {NoFile, <<y, y>>} }

MCGrowing == {E("Dir", a)}
=============================================================================
