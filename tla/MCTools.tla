------------------------------- MODULE MCTools -------------------------------
(* Command lines and small files for Tools: texts of up to three lines over *)
(* a few characters with lines of at most eight, blocks of three bytes.     *)
EXTENDS Tools

a == 97
b == 98
A == 65
n == Newline
SeqsUpto(S, k) == UNION {[1..i -> S] : i \in 0..k}

Opt(o) == [o |-> o, v |-> <<>>, n |-> 0]
Num(o, k) == [o |-> o, v |-> <<>>, n |-> k]
Txt(o, v) == [o |-> o, v |-> v, n |-> 0]
Word(v) == Txt("word", v)
Texts(lines) == {FlattenSeq(ls) : ls \in SeqsUpto(lines, 3)}

Job(tool, args, as, disk, stdin) ==
  [tool |-> tool, args |-> args, as |-> as, plain |-> as = <<>>, disk |-> disk, stdin |-> stdin]
f == <<102>>
g == <<103>>
list == <<108>>
Two == (f :> <<a, n, b, n>>) @@ (g :> <<A, n>>) @@ (list :> <<103, n, n, 102, n>>)

(* A command line that only has to do what the code does. *)
Other_(tool, args, stdin) == [Job(tool, args, <<>>, Two, stdin) EXCEPT !.plain = FALSE]
OneFile(text) == f :> text

(* grep *)
Lines == {<<a, n>>, <<b, n>>, <<A, b, n>>}
LongLine == <<b, b, b, b, b, b, b, a, b, n, b, n>>
GrepOptions == {<<>>, <<Opt("-i")>>, <<Opt("-v")>>, <<Opt("-c")>>, <<Opt("-l")>>, <<Opt("-s")>>,
                <<Num("-m", 1)>>, <<Num("-m", 1), Opt("-v")>>, <<Opt("-i"), Opt("-c")>>,
                <<Opt("-n"), Num("-m", 2), Opt("-i")>>}
GrepFiles == {Job("grep", o \o <<Word(<<a>>), Word(f)>>, <<>>, OneFile(t), <<>>) :
                o \in GrepOptions, t \in Texts(Lines) \cup {LongLine, <<a, n, b>>}}
GrepInput == {Job("grep", o \o <<Word(<<a, b>>)>>, <<>>, OneFile(<<>>), t) :
                o \in GrepOptions, t \in Texts({<<a, b, n>>, <<b, n>>})}
GrepPatterns == {Job("grep", o \o es \o <<Word(f)>>, <<>>, OneFile(t), <<>>) :
                   o \in {<<>>, <<Opt("-v")>>, <<Opt("-i"), Opt("-c")>>},
                   es \in SeqsUpto({Txt("-e", <<a>>), Txt("-e", <<A, b>>)}, 3) \ {<<>>}, t \in Texts(Lines) \cup {LongLine}}
GrepLists == {
  Job("grep", <<Txt("-e", <<a>>), Txt("-z=", list)>>, <<Word(<<a>>), Word(g), Word(f)>>, Two, <<>>),
  Job("grep", <<Word(<<b>>), Opt("-z")>>, <<Word(<<b>>), Word(f)>>, Two, <<102, n>>),
  Job("grep", <<Txt("-f", f), Word(g), Word(f)>>,
      <<Txt("-e", <<a>>), Txt("-e", <<b>>), Word(g), Word(f)>>, Two, <<>>),
  Job("grep", <<Txt("-f", list), Word(f)>>, <<Txt("-e", <<103>>), Txt("-e", <<>>), Word(f)>>, Two, <<>>),
  Job("grep", <<Txt("-f", list), Txt("-f", f), Word(g)>>, <<Txt("-f", list), Word(g)>>, Two, <<>>),
  Job("grep", <<Word(<<a>>), Txt("-z=", list), Txt("-z=", <<a>>)>>, <<Word(<<a>>)>>, Two, <<a, n>>) }
GrepErrors == {
  Other_("grep", args, <<>>) :
    args \in {<<>>, <<Opt("-?")>>, <<Opt("-k")>>, <<Num("-m", -1)>>, <<Txt("-f", <<a>>)>>,
              <<Word(<<a>>), Word(<<a>>)>>} }

(* cmp *)
CmpJobs == {Job("cmp", o \o <<Word(f), Word(g)>>, <<>>, (f :> s) @@ (g :> t), <<>>) :
              o \in {<<>>, <<Opt("-t")>>, <<Num("-b", 1)>>, <<Num("-b", 2)>>, <<Opt("-s"), Num("-b", 1)>>},
              s \in {<<a, b, a>>, <<a, b>>, <<>>}, t \in SeqsUpto({a, b}, 4)}
CmpErrors == {Other_("cmp", args, <<>>) :
              args \in {<<Word(f)>>, <<Word(f), Word(<<a>>)>>, <<Word(f), Word(g), Word(f)>>,
                        <<Num("-b", 65)>>, <<Opt("-k")>>, <<Opt("-?")>>}}

(* qsort: fields between blanks. *)
Fields == {<<a, Blank, b, n>>, <<b, Blank, a, n>>, <<a, n>>}
QsortJobs == {Job("qsort", o \o <<Word(f)>>, <<>>, OneFile(t), <<>>) :
                o \in {<<>>, <<Num("-f", 1)>>, <<Num("-f", 2)>>, <<Num("-f", 2), Txt("-c", <<Blank>>)>>},
                t \in Texts(Fields) \cup {<<b, n, a, n, b, n, a, n>>, LongLine, LongLine \o LongLine}}
QsortOthers == {
  Job("qsort", <<>>, <<>>, Two, <<b, n, a, n>>), Job("qsort", <<>>, <<>>, Two, <<b, n, a, n, b, n, a, n>>),
  Job("qsort", <<Txt("-z=", list)>>, <<Word(g), Word(f)>>, Two, <<>>),
  Job("qsort", <<Opt("-z")>>, <<Word(f), Word(g)>>, Two, <<102, n, 103, n>>) }
    \cup {Other_("qsort", args, <<>>) :
            args \in {<<Opt("-?")>>, <<Opt("-k")>>, <<Num("-f", 0)>>, <<Txt("-c", <<>>)>>,
                      <<Txt("-z=", <<a>>)>>, <<Word(<<a>>)>>}}

(* count *)
CountJobs == {Job("count", o \o <<Word(f)>>, <<>>, OneFile(t), <<>>) :
                o \in {<<>>, <<Opt("-w")>>, <<Opt("-c"), Opt("-l")>>, <<Opt("-c")>>, <<Opt("-b")>>, <<Num("-d", 2)>>},
                t \in SeqsUpto({a, Blank, n, LineFeed}, 3)}
CountOthers == {
  Job("count", <<Opt("-w"), Txt("-z=", list)>>, <<Opt("-w"), Word(g), Word(f)>>, Two, <<>>),
  Job("count", <<Opt("-z")>>, <<Word(f), Word(<<a>>)>>, Two, <<102, n, 97, n>>) }
    \cup {Other_("count", args, <<>>) :
            args \in {<<>>, <<Opt("-?")>>, <<Opt("-k")>>, <<Num("-d", 0)>>}}

(* tr *)
Sets == {<<a>>, <<a, b>>, <<b, a>>, <<A, a>>}
TrJobs == {Job("tr", o \o <<Word(s), Word(t)>>, <<>>, Two, text) :
             o \in {<<>>, <<Opt("-s")>>, <<Opt("-c")>>, <<Opt("-v"), Opt("-s")>>},
             s \in Sets \cup {<<a, b, A>>}, t \in Sets, text \in SeqsUpto({a, b, A}, 3)}
TrDeletes == {Job("tr", o \o <<Word(s)>>, <<>>, Two, text) :
             o \in {<<Opt("-d")>>, <<Opt("-c"), Opt("-d"), Opt("-s")>>}, s \in Sets, text \in SeqsUpto({a, b, A}, 3)}
TrOthers == {Other_("tr", args, <<102, n>>) :
             args \in {<<Opt("-?")>>, <<Opt("-k")>>, <<Word(<<a>>)>>, <<Txt("-z=", <<a>>)>>,
                       <<Word(<<a>>), Word(<<b>>), Word(f), Word(f)>>, <<Word(<<a>>), Word(<<b>>), Word(<<a>>)>>,
                       <<Word(<<a>>), Word(<<b>>), Word(f), Word(g), Word(f)>>,
                       <<Opt("-z"), Word(<<a>>), Word(<<b>>)>>, <<Txt("-z=", list), Word(<<a>>), Word(<<b>>)>>}}
MCBeyond == [1..2 -> {0, b, A}]

(* tee *)
TeeJobs == {[tool |-> "tee", args |-> args, stdin |-> [i \in 1..k |-> a],
             room |-> (<<>> :> 9) @@ (f :> r) @@ (g :> q),
             buffer |-> (<<>> :> 1) @@ (f :> z) @@ (g :> 4)] :
              args \in {<<Word(f), Word(g)>>, <<Word(g)>>, <<Word(f), Word(<<a>>)>>, <<>>, <<Opt("-?")>>, <<Opt("-k")>>},
              k \in 0..7, r \in {0, 2, 6}, q \in {3, 9}, z \in {1, 3, 5}}

WildJobs == {[tool |-> "wildmatch", pattern |-> p, name |-> m] :
              p \in SeqsUpto({a, b, Star, Query}, 3), m \in SeqsUpto({a, b}, 3)}
              \cup {[tool |-> "wildmatch", pattern |-> <<Star, a, Star, b>>, name |-> m] : m \in SeqsUpto({a, b}, 4)}

(* binex: up to three records; addresses at the end of 64K and of 16M. *)
BytesOf(k) == [i \in 1..k |-> (37 * i) % 256]
Bin(type, address, k, room, buffer) ==
  [tool |-> "binex", type |-> type, address |-> address, hex |-> TRUE, paths |-> 2,
   exists |-> FALSE, rewrite |-> FALSE, bytes |-> BytesOf(k),
   room |-> room, buffer |-> buffer]
BinexJobs ==
  {Bin(t, s, k, r, z) : t \in 0..4, s \in {0, 4660, 65520, 16777210}, k \in {0, 1, 16, 17, 33},
                        r \in {0, 44, 70, 400}, z \in {1, 32, 256}}
    \cup {[Bin(1, 0, 3, 99, 8) EXCEPT !.hex = FALSE], [Bin(1, 0, 3, 99, 8) EXCEPT !.paths = 0],
          [Bin(1, 0, 3, 99, 8) EXCEPT !.exists = TRUE],
          [Bin(1, 0, 3, 99, 8) EXCEPT !.exists = TRUE, !.rewrite = TRUE]}

(* attr *)
AttrChars == {"-", "n", "p", "e", "w", "d", "y"}
AttrJob(args, names, fails) ==
  [tool |-> "attr", args |-> args, list |-> names, fails |-> fails,
   disk |-> (<<"f">> :> {"w", "pe"}) @@ (<<"g">> :> {})]
AttrJobs ==
  {AttrJob(<<p, t>>, <<>>, fails) : p \in {<<"f">>, <<"h">>}, fails \in BOOLEAN,
     t \in {u \in SeqsUpto(AttrChars, 3) : u # <<>>} \cup {<<"-", "e", "n", "p", "e">>, <<"n", "e", "-", "s", "r">>}}
    \cup {AttrJob(args, <<<<"g">>, <<"f">>>>, FALSE) :
            args \in {<<>>, <<<<"-", "?">>>>, <<<<"-", "e">>, <<"f">>>>, <<<<"-", "z">>>>, <<<<"f">>>>,
                      <<<<"f">>, <<"-", "w">>, <<"-", "a">>>>, <<<<"f">>, <<"w">>, <<"-", "e">>>>,
                      <<<<"f">>, <<"w">>, <<"e">>>>}}

(* fixmod: two modules and a file that is none. *)
Module(k) == [good |-> k # 3, sealed |-> k = 1, edition |-> 1]
Mod(name) == [o |-> "word", name |-> name, letter |-> "", text |-> <<>>]
Edit(letter, text) == [o |-> "-u?", name |-> "", letter |-> letter, text |-> text]
Bare(o) == [o |-> o, name |-> "", letter |-> "", text |-> <<>>]
FixmodArgs == {Mod("one"), Mod("two"), Mod("three"), Bare("-u"), Bare("-?"), Bare("-k"),
               Edit("e", <<5>>), Edit("e", <<>>), Edit("e", <<Equals, 5>>), Edit("r", <<5>>)}
Modules == {"one", "two", "three"}
Nothing == [at |-> "nothing", header |-> TRUE]
FixmodJob(args, faults) ==
  [tool |-> "fixmod", args |-> args, faults |-> faults,
   disk |-> [x \in Modules |-> Module(IF x = "one" THEN 1 ELSE IF x = "two" THEN 2 ELSE 3)]]
FixmodJobs ==
  {FixmodJob(args, [x \in Modules |-> Nothing]) : args \in SeqsUpto(FixmodArgs, 3)}
    \cup {FixmodJob(o \o args, [x \in Modules |-> IF x = one THEN fault ELSE Nothing]) :
             o \in {<<>>, <<Edit("e", <<5>>)>>}, args \in SeqsUpto(FixmodArgs, 2), one \in {"one", "two"},
             fault \in {x \in Fault : x.at \in {"write", "flush"} \/ x.header}}

(* repair_module(): a header and a few bytes. *)
RepairJobs == {[tool |-> "repair", module |-> [i \in 1..(ParityAt + 2 + k) |-> (x * i + y) % 256]] :
                 k \in {3, 4, 7}, x \in {0, 1, 167}, y \in {0, 128, 255}}

(* Files at each size a header ends at, with a name near the end of it. *)
IdentifyJobs == {[tool |-> "identify",
   file |-> [size |-> size, magic |-> magic, type |-> type, msize |-> 80, nameAt |-> at, nulAt |-> nul,
             highAt |-> high, is64 |-> is64, rows |-> rows, rowsAt |-> 60, check |-> check]] :
     size \in {0, 3, 4, 9, 15, 16, 47, 48, 55, 56, 63, 64, 71, 72, 200}, magic \in Magics, type \in {"program", "system", "any"},
     at \in {30, 150}, nul \in {5, 50}, high \in {4, 45, 70}, is64 \in BOOLEAN, rows \in {2}, check \in {TRUE}}
IdentifyOdd == {[tool |-> "identify",
   file |-> [size |-> 200, magic |-> magic, type |-> type, msize |-> msize, nameAt |-> at, nulAt |-> 5,
             highAt |-> 4, is64 |-> TRUE, rows |-> rows, rowsAt |-> 100, check |-> check]] :
     magic \in {"m6809", "elf", "module"}, type \in ModuleTypes, msize \in {11, 40}, at \in {8, 20, 37},
     rows \in {1, 600}, check \in BOOLEAN}

MCJobs == GrepFiles \cup GrepInput \cup GrepPatterns \cup GrepLists \cup GrepErrors \cup CmpJobs \cup CmpErrors
  \cup QsortJobs \cup QsortOthers \cup CountJobs \cup CountOthers \cup TrJobs \cup TrDeletes \cup TrOthers
  \cup TeeJobs \cup WildJobs \cup BinexJobs \cup AttrJobs \cup FixmodJobs \cup RepairJobs
  \cup IdentifyJobs \cup IdentifyOdd
=============================================================================
