---------------------------- MODULE MCDirectory -----------------------------
(* Small instances of Scan with the commands of Directory: three names, two *)
(* levels, directories of up to three entries behind the dot, read in       *)
(* blocks of two.  Some situations are about the reader among writers, some *)
(* about two writers, some about one command line.                          *)
EXTENDS Scan

CONSTANTS v, w

a == 2
b == 3
c == 4
Two == {v, w}
MCName == {a, b, c}

(* Files with a deleted entry between them; a directory with a file in it;  *)
(* directories within directories; an empty disk.                           *)
Folder(s, n) == [kind |-> "dir", slot |-> s, size |-> n]
Plain(s) == [kind |-> "file", slot |-> s, size |-> 0]
Flat == (<<>> :> Folder(1, 4)) @@ (<<a>> :> Plain(4)) @@ (<<b>> :> Plain(2))
Deep == (<<>> :> Folder(1, 4)) @@ (<<a>> :> Folder(4, 2)) @@ (<<a, b>> :> Plain(2))
           @@ (<<b>> :> Plain(3))
Deeper == (<<>> :> Folder(1, 3)) @@ (<<a>> :> Folder(2, 2)) @@ (<<a, a>> :> Folder(2, 1))
           @@ (<<b>> :> Folder(3, 1))
Empty == <<>> :> Folder(1, 1)

Opt(o) == [option |-> o, path |-> <<>>]
To(p) == [option |-> "name", path |-> p]
Call(program, args, typed, list) ==
  [program |-> program, args |-> args, stdin |-> typed, file |-> list, hasFile |-> list # <<>>]
Plainly(program, p) == Call(program, <<To(p)>>, <<>>, <<>>)
Ans(ch) == [path |-> NoPath, chunks |-> ch]
Line_(p) == [path |-> p, chunks |-> <<"n">>]
Blank == [path |-> <<>>, chunks |-> <<>>]
Idle == Call("makdir", <<Opt("-?")>>, <<>>, <<>>)

Qid_(o, matched) ==
  [program |-> "qid", opts |-> o, wanted |-> matched, operands |-> <<>>, depth |-> 0]
Dir_(o, dirs, n) ==
  [program |-> "dir", opts |-> o, wanted |-> {}, operands |-> dirs, depth |-> n]
NoReader == Dir_({"n"}, <<<<c>>>>, 0)

(* The third place of the module directory is one too many for qid. *)
Nothing == (1 :> Free) @@ (2 :> Free) @@ (3 :> Free)
Both == (1 :> a) @@ (2 :> b) @@ (3 :> c)
OneOfTwo == (1 :> Free) @@ (2 :> a) @@ (3 :> Free)

At_(t, m, r, i, j) == [tree |-> t, memory |-> m, read |-> r, jobs |-> (v :> i) @@ (w :> j)]

MakdirP == Call("makdir", <<Opt("-p"), To(<<a, b>>)>>, <<>>, <<>>)
Asking(typed) == Call("del", <<Opt("-p"), To(<<a>>), To(<<b>>)>>, typed, <<>>)

AmongWriters == {
  At_(Flat, Nothing, Qid_({}, {a, b}), Plainly("del", <<b>>), Plainly("touch", <<c>>)),
  At_(Flat, Nothing, Qid_({"a"}, {a, c}), Plainly("touch", <<c>>), Plainly("deldir", <<b>>)),
  At_(Deep, Nothing, Qid_({"x"}, {b}), Plainly("del", <<a, b>>), Plainly("deldir", <<a>>)),
  At_(Flat, Nothing, Dir_({"a"}, <<>>, 0), Plainly("del", <<b>>), Plainly("touch", <<c>>)),
  At_(Deep, Nothing, Dir_({"a", "s"}, <<<<a>>, <<b>>, <<>>>>, 0), Plainly("del", <<b>>), Idle),
  At_(Deep, Nothing, Dir_({"r"}, <<>>, 2), Plainly("del", <<a, b>>), Plainly("deldir", <<a>>)),
  At_(Deeper, Nothing, Dir_({"r"}, <<<<a>>, <<>>>>, 1), Plainly("deldir", <<b>>), Plainly("touch", <<a, c>>)),
  At_(Deeper, Nothing, Dir_({"r", "n"}, <<<<a>>>>, 2), Idle, Idle) }

InMemory == {
  At_(Flat, Both, Qid_({"m"}, {a}), Idle, Idle),
  At_(Flat, OneOfTwo, Qid_({"a"}, {a}), Idle, Idle),
  At_(Empty, Both, Qid_({"x", "m"}, {a, b}), Idle, Idle) }

TwoWriters == {At_(t, Nothing, NoReader, MakdirP, j) :
  t \in {Flat, Deep, Empty}, j \in {MakdirP, Plainly("touch", <<a>>), Plainly("touch", <<a, b>>)}}

(* Answers, lists, unknown options and missing names. *)
CommandLines == {
  Asking(<<Ans(<<"y">>), Ans(<<"n">>)>>), Asking(<<Ans(<<>>), Ans(<<"y">>)>>), Asking(<<Ans(<<"y">>)>>),
  Asking(<<Ans(<<"y", "n">>), Ans(<<"y">>)>>),
  Call("del", <<Opt("-p"), Opt("-z=")>>, <<Ans(<<"y">>)>>, <<Line_(<<b>>), Line_(<<a>>)>>),
  Call("del", <<Opt("-p"), Opt("-z")>>,
       <<Line_(<<b>>), Ans(<<"n">>), Line_(<<a>>), Ans(<<"y">>)>>, <<>>),
  Call("del", <<Opt("-p"), To(<<a>>), Opt("-z")>>,
       <<Ans(<<"y", "n">>), Line_(<<b>>), Blank, Line_(<<b>>), Ans(<<"y">>)>>, <<>>),
  Call("del", <<Opt("-z=")>>, <<>>, <<>>),
  Call("deldir", <<Opt("-z=")>>, <<>>, <<>>),
  Call("deldir", <<To(<<a>>), Opt("-z")>>, <<Line_(<<b>>)>>, <<>>),
  Call("makdir", <<Opt("-q"), Opt("-z")>>, <<Line_(<<b>>), Blank, Line_(<<c>>)>>, <<>>),
  Call("makdir", <<Opt("-k")>>, <<>>, <<>>),
  Call("touch", <<To(<<a>>), Opt("-q"), To(<<b>>), To(<<c>>)>>, <<>>, <<>>),
  Call("touch", <<Opt("-c"), To(<<a, c>>), To(<<b>>)>>, <<>>, <<>>),
  Call("touch", <<Opt("-z")>>, <<>>, <<>>) }

MCSituations ==
  AmongWriters \cup InMemory \cup TwoWriters
    \cup {At_(t, Nothing, NoReader, j, Idle) : t \in {Flat, Deep}, j \in CommandLines}

MCContent == [n \in MCName |->
  [size |-> IF n = a THEN 400 ELSE 60, magic |-> IF n = b THEN "other" ELSE "module",
   type |-> "program", msize |-> 400, nameAt |-> 100, nulAt |-> 5, highAt |-> 200,
   is64 |-> FALSE, rows |-> 0, rowsAt |-> 0, check |-> TRUE]]
MCDataDir == <<>>
MCExecDir == <<a>>
MCAddress == {1, 2, 3}
MCFaults == {"read", "modules", "memory"}
=============================================================================
