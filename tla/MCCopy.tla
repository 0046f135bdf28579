------------------------------- MODULE MCCopy -------------------------------
(* Small instances of Copy: two directories, of which one has two spellings. *)
EXTENDS Copy

CONSTANTS a, b, x, y

MCName == {a, b}
MCSpelling == {"dir", "./dir", "other"}
MCDir == {"Dir", "Other"}
MCReal == [s \in MCSpelling |-> IF s = "other" THEN "Other" ELSE "Dir"]
MCUnit == {x, y}

P(s, n) == [dir |-> s, base |-> n]
E(d, n) == [dir |-> d, base |-> n]

Call(list, lines, target, options) ==
  [list |-> list, lines |-> lines, target |-> target,
   verify |-> "-v" \in options, abort |-> "-a" \in options]

OperandCalls(options) ==
  { Call(FALSE, <<P("dir", a)>>, P("other", b), options) }
ListCalls(options) ==
  { Call(TRUE, <<P("dir", a), P("./dir", b)>>, P("other", a), options),
    Call(TRUE, <<>>, P("other", a), options) }

VerifyCalls ==
  UNION { OperandCalls(o) \cup ListCalls(o) : o \in {{"-v"}, {"-v", "-a"}} }
PlainCalls == OperandCalls({}) \cup ListCalls({"-a"}) \cup ListCalls({})
AllCalls == VerifyCalls \cup PlainCalls

(* dir/a holds two units or none, or is missing, dir/b one; others may exist. *)
MCInitial ==
  { [e \in [dir : MCDir, base : MCName] |->
       CASE e = E("Dir", a) -> ta [] e = E("Dir", b) -> tb
         [] e = E("Other", b) -> tc [] OTHER -> NoFile] :
      ta \in {<<x, y>>, <<>>, NoFile}, tb \in {<<x>>, NoFile}, tc \in {NoFile, <<y, y>>} }

MCGrowing == {E("Dir", a)}
=============================================================================
