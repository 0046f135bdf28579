--------------------------------- MODULE Text --------------------------------
(***************************************************************************)
(* The filters grep, cmp, qsort, count, tr and tee and the pattern matcher  *)
(* of qid, as functions from a command line and the files to what comes     *)
(* out.  A text is a sequence of character codes; a disk is a function from *)
(* names, which are texts too, to texts.                                    *)
(***************************************************************************)
EXTENDS Stdio, Integers, Sequences, FiniteSets, SequencesExt

CONSTANTS
  LineMax,     \* characters one fgets() takes: 511 (255 for names)
  PatternMax,  \* patterns of grep: 64
  LinesMax,    \* lines of qsort: 2048
  KeyMax,      \* characters of a key of qsort: 255
  Kilo,        \* 1024
  BlockMax     \* bytes of one fread() of tee: 512

ASSUME TextAssumption ==
  \A n \in {LineMax, PatternMax, LinesMax, KeyMax, Kilo, BlockMax} : n \in Nat \ {0}

Newline == 13
LineFeed == 10
Blank == 32
Tab == 9
Star == 42
Query == 63

ToLower(c) == IF c \in 65..90 THEN c + 32 ELSE c

(* What fgets() returns, call by call: a line with its end, or as much of   *)
(* one as the buffer holds.                                                 *)
Pieces(text) ==
  FoldLeft(LAMBDA ps, c :
             IF ps = <<>> \/ Last(Last(ps)) = Newline \/ Len(Last(ps)) = LineMax
             THEN Append(ps, <<c>>)
             ELSE [ps EXCEPT ![Len(ps)] = Append(@, c)],
           <<>>, text)

(* A line read from a list, its end taken off. *)
Stripped(piece) ==
  LET kept == {k \in 1..Len(piece) : piece[k] \notin {Newline, LineFeed}}
  IN IF kept = {} THEN <<>>
     ELSE SubSeq(piece, 1, CHOOSE k \in kept : \A j \in kept : j <= k)

Names(text) ==
  LET lines == Pieces(text)
  IN SelectSeq([i \in DOMAIN lines |-> Stripped(lines[i])], LAMBDA n : n # <<>>)

-----------------------------------------------------------------------------
(* An argument is an option o with its text v or its number n, or a word.   *)
(* main() takes them from left to right, and an error ends it at once.  The *)
(* names of a list, of standard input with -z, come last.                   *)
Running == 2
Stop(s, status) == [s EXCEPT !.exit = status]

Arguments(Take(_, _), start, args) ==
  FoldLeft(LAMBDA s, a : IF s.exit = Running THEN Take(s, a) ELSE s, start, args)

NoList == [from |-> "none", text |-> <<>>]
StdinList(job) == [from |-> "stdin", text |-> job.stdin]
FileList(job, name) ==
  IF name \in DOMAIN job.disk THEN [from |-> "file", text |-> job.disk[name]] ELSE NoList
StdinLeft(job, list) == IF list.from = "stdin" THEN <<>> ELSE job.stdin

(* grep *)
EqualText(line, at, pattern, insensitive) ==
  \A k \in 1..Len(pattern) :
    /\ at + k - 1 <= Len(line)
    /\ LET a == line[at + k - 1]
           b == pattern[k]
       IN IF insensitive THEN ToLower(a) = ToLower(b) ELSE a = b

LineMatches(line, patterns, insensitive) ==
  \E i \in DOMAIN patterns : \E at \in DOMAIN line : EqualText(line, at, patterns[i], insensitive)

(* Mutant of Search: a match among the lines after a match does not count   *)
(* them anew.                                                               *)
SearchOnce(s, text) ==
  FoldLeft(LAMBDA t, line :
             LET match == LineMatches(line, s.patterns, "-i" \in s.opts) # ("-v" \in s.opts)
                 number == t.number + 1
             IN [number |-> number,
                 matches |-> IF match THEN t.matches + 1 ELSE t.matches,
                 remaining |-> IF t.remaining > 0 THEN t.remaining - 1 ELSE IF match THEN s.more ELSE 0,
                 lines |-> IF match \/ t.remaining > 0
                           THEN Append(t.lines, [at |-> number, line |-> line]) ELSE t.lines],
           [number |-> 0, matches |-> 0, remaining |-> 0, lines |-> <<>>], Pieces(text))

(* The lines chosen, with their numbers, and how many of them match. *)
Search(s, text) ==
  FoldLeft(LAMBDA t, line :
             LET match == LineMatches(line, s.patterns, "-i" \in s.opts) # ("-v" \in s.opts)
                 number == t.number + 1
             IN [number |-> number,
                 matches |-> IF match THEN t.matches + 1 ELSE t.matches,
                 remaining |-> IF match THEN s.more
                               ELSE IF t.remaining > 0 THEN t.remaining - 1 ELSE 0,
                 lines |-> IF match \/ t.remaining > 0
                           THEN Append(t.lines, [at |-> number, line |-> line]) ELSE t.lines],
           [number |-> 0, matches |-> 0, remaining |-> 0, lines |-> <<>>], Pieces(text))

Result(what, of) == <<[what |-> what, of |-> of]>>

SearchFile(job, s, path) ==
  IF path \notin DOMAIN job.disk THEN [s EXCEPT !.status = 1, !.names = @ + 1]
  ELSE LET t == Search(s, job.disk[path])
       IN [s EXCEPT !.names = @ + 1,
                    !.out = @ \o (IF s.opts \cap {"-s", "-c", "-l"} = {}
                                    THEN Result("lines", t.lines) ELSE <<>>)
                              \o (IF "-c" \in s.opts /\ "-s" \notin s.opts
                                    THEN Result("count", t.matches) ELSE <<>>)
                              \o (IF "-l" \in s.opts /\ "-s" \notin s.opts /\ t.matches # 0
                                    THEN Result("name", path) ELSE <<>>)]

(* Without a name: neither -c nor -l print anything of their own. *)
SearchStdin(job, s) ==
  IF s.opts \cap {"-s", "-c"} # {} THEN s
  ELSE [s EXCEPT !.out = @ \o Result("lines", Search(s, StdinLeft(job, s.list)).lines)]

GrepArgument(job, s, a) ==
  CASE a.o = "-?" -> Stop(s, 0)
    [] a.o \in {"-i", "-v", "-c", "-l", "-n", "-s"} -> [s EXCEPT !.opts = @ \cup {a.o}]
    [] a.o = "-m" -> IF a.n < 0 THEN Stop(s, 1) ELSE [s EXCEPT !.more = a.n]
    [] a.o = "-e" -> IF Len(s.patterns) >= PatternMax THEN Stop(s, 1)
                     ELSE [s EXCEPT !.patterns = Append(@, a.v)]
    [] a.o = "-f" ->
         IF a.v \notin DOMAIN job.disk THEN Stop(s, 1)
         ELSE LET lines == Pieces(job.disk[a.v])
                  more == [i \in DOMAIN lines |-> Stripped(lines[i])]
              IN [s EXCEPT !.patterns = @ \o SubSeq(more, 1, Smaller(Len(more), PatternMax - Len(@)))]
    [] a.o = "-z" -> [s EXCEPT !.list = StdinList(job)]
    [] a.o = "-z=" -> [s EXCEPT !.list = FileList(job, a.v)]
    [] a.o = "word" -> IF s.patterns = <<>> THEN [s EXCEPT !.patterns = <<a.v>>]
                       ELSE SearchFile(job, s, a.v)
    [] OTHER -> Stop(s, 1)

Grep(job) ==
  LET s == Arguments(LAMBDA t, a : GrepArgument(job, t, a),
                     [exit |-> Running, opts |-> {}, more |-> 0, patterns |-> <<>>, list |-> NoList,
                      names |-> 0, status |-> 0, out |-> <<>>], job.args)
      listed == FoldLeft(LAMBDA t, n : SearchFile(job, t, n), s, Names(s.list.text))
      all == IF listed.names = 0 THEN SearchStdin(job, listed) ELSE listed
  IN IF s.exit # Running THEN [exit |-> s.exit, out |-> s.out]
     ELSE IF s.patterns = <<>> THEN [exit |-> 1, out |-> <<>>]
     ELSE [exit |-> all.status, out |-> all.out]

-----------------------------------------------------------------------------
(* cmp, a buffer of each file at a time. *)
Buffer(text, size, k) == SubSeq(text, (k - 1) * size + 1, Smaller(k * size, Len(text)))

Differ(a, b, i) == i > Len(a) \/ i > Len(b) \/ a[i] # b[i]

(* One byte more; with -s nothing after the first difference. *)
CompareByte(a, b, silent, t, i) ==
  IF silent /\ t.different > 0 THEN t
  ELSE [compared |-> t.compared + 1,
        different |-> IF Differ(a, b, i) THEN t.different + 1 ELSE t.different]

Longer(a, b) == IF Len(a) >= Len(b) THEN Len(a) ELSE Len(b)
Upto(n) == [i \in 1..n |-> i]

CompareBuffer(one, two, size, silent, t, k) ==
  LET a == Buffer(one, size, k)
      b == Buffer(two, size, k)
  IN FoldLeft(LAMBDA u, i : CompareByte(a, b, silent, u, i), t, Upto(Longer(a, b)))

(* Mutant of Compare: a last buffer that is not full is left out. *)
CompareFull(one, two, size, silent) ==
  FoldLeft(LAMBDA t, k : CompareBuffer(one, two, size, silent, t, k),
           [compared |-> 0, different |-> 0], Upto(Longer(one, two) \div size))

Compare(one, two, size, silent) ==
  FoldLeft(LAMBDA t, k : CompareBuffer(one, two, size, silent, t, k),
           [compared |-> 0, different |-> 0], Upto(Longer(one, two) \div size + 1))

CmpArgument(s, a) ==
  CASE a.o = "-?" -> Stop(s, 0)
    [] a.o \in {"-t", "-s"} -> [s EXCEPT !.opts = @ \cup {a.o}]
    [] a.o = "-b" -> IF a.n < 1 \/ a.n > 64 THEN Stop(s, 1) ELSE [s EXCEPT !.size = a.n * Kilo]
    [] a.o = "word" -> IF Len(s.names) = 2 THEN Stop(s, 1) ELSE [s EXCEPT !.names = Append(@, a.v)]
    [] OTHER -> Stop(s, 1)

Cmp(job) ==
  LET s == Arguments(CmpArgument, [exit |-> Running, opts |-> {}, size |-> 4 * Kilo, names |-> <<>>], job.args)
      t == Compare(job.disk[s.names[1]], job.disk[s.names[2]], s.size, "-s" \in s.opts)
      verdict == IF "-t" \in s.opts THEN <<>>
                 ELSE IF t.different = 0 THEN <<"the same">> ELSE <<"not the same">>
      totals == IF "-t" \in s.opts \/ t.different # 0
                  THEN Result("compared", t.compared) \o Result("different", t.different) ELSE <<>>
  IN IF s.exit # Running THEN [exit |-> s.exit, out |-> <<>>]
     ELSE IF Len(s.names) < 2 \/ \E i \in DOMAIN s.names : s.names[i] \notin DOMAIN job.disk
       THEN [exit |-> 1, out |-> <<>>]
     ELSE [exit |-> IF t.different = 0 THEN 0 ELSE 1,
           out |-> IF "-s" \in s.opts THEN <<>> ELSE verdict \o totals]

-----------------------------------------------------------------------------
(* qsort: the key of a line is the whole line, or one field of it. *)
Key(line, field, separator) ==
  LET passed(i) == Cardinality({j \in 1..(i - 1) : line[j] = separator})
      starts == {i \in DOMAIN line : passed(i) >= field - 1}
      start == IF starts = {} THEN Len(line) + 1 ELSE CHOOSE i \in starts : \A j \in starts : i <= j
      ends == {i \in start..Len(line) : line[i] \in {separator, Newline, LineFeed}}
      end == IF ends = {} THEN Len(line) ELSE (CHOOSE i \in ends : \A j \in ends : i <= j) - 1
  IN IF field <= 0 THEN line ELSE SubSeq(line, start, Smaller(end, start + KeyMax - 1))

(* strcmp() *)
NotAfter(a, b) ==
  \/ IsPrefix(a, b)
  \/ \E i \in DOMAIN a \cap DOMAIN b :
       a[i] < b[i] /\ \A j \in 1..(i - 1) : a[j] = b[j]

(* A line too many ends the reading of its file. *)
ReadFile(s, text) ==
  LET lines == Pieces(text)
      room == Smaller(Len(lines), LinesMax - Len(s.lines))
  IN [s EXCEPT !.lines = @ \o SubSeq(lines, 1, room),
               !.status = IF room < Len(lines) THEN 1 ELSE @]

ReadNamed(job, s, name) ==
  IF name \in DOMAIN job.disk THEN ReadFile(s, job.disk[name]) ELSE [s EXCEPT !.status = 1]

QsortArgument(job, s, a) ==
  CASE a.o = "-?" -> Stop(s, 0)
    [] a.o = "-f" -> IF a.n < 1 THEN Stop([s EXCEPT !.field = a.n], 1) ELSE [s EXCEPT !.field = a.n]
    [] a.o = "-c" -> IF a.v = <<>> THEN Stop(s, 1) ELSE [s EXCEPT !.separator = Head(a.v)]
    [] a.o = "-z" -> [s EXCEPT !.list = StdinList(job)]
    [] a.o = "-z=" -> IF a.v \notin DOMAIN job.disk THEN Stop(s, 1) ELSE [s EXCEPT !.list = FileList(job, a.v)]
    [] a.o = "word" -> ReadNamed(job, s, a.v)
    [] OTHER -> Stop(s, 1)

(* All the lines read, before they are sorted; standard input is read when  *)
(* there is no line yet, whatever was named.                                *)
QsortReads(job) ==
  LET s == Arguments(LAMBDA t, a : QsortArgument(job, t, a),
                     [exit |-> Running, field |-> 0, separator |-> Blank, list |-> NoList,
                      status |-> 0, lines |-> <<>>], job.args)
      listed == FoldLeft(LAMBDA t, n : ReadNamed(job, t, n), s, Names(s.list.text))
  IN IF s.exit # Running THEN [s EXCEPT !.lines = <<>>]
     ELSE IF s.list = NoList /\ s.lines = <<>> /\ s.status = 0
       THEN [ReadFile(s, job.stdin) EXCEPT !.status = 0]
     ELSE listed

(* The order of equal keys is left to the C library. *)
SortedSeq(s, list) ==
  \A i \in 1..(Len(list) - 1) :
    NotAfter(Key(list[i], s.field, s.separator), Key(list[i + 1], s.field, s.separator))

Sortings(s) ==
  {list \in {[i \in DOMAIN s.lines |-> s.lines[p[i]]] :
               p \in {q \in [DOMAIN s.lines -> DOMAIN s.lines] : IsInjective(q)}} : SortedSeq(s, list)}

Qsort(job) ==
  LET s == QsortReads(job)
  IN {[exit |-> IF s.exit = Running THEN s.status ELSE s.exit, out |-> list] : list \in Sortings(s)}

-----------------------------------------------------------------------------
(* count *)
CountChar(t, c) ==
  [chars |-> t.chars + 1,
   lines |-> IF c \in {Newline, LineFeed} THEN t.lines + 1 ELSE t.lines,
   words |-> IF c \notin {Blank, Tab, Newline, LineFeed} /\ ~ t.inWord THEN t.words + 1 ELSE t.words,
   inWord |-> c \notin {Blank, Tab, Newline, LineFeed}]

Groups(lines, n) == (lines + n - 1) \div n

CountSays(s, t) ==
  LET all == [lines |-> t.lines, words |-> t.words, chars |-> t.chars]
  IN CASE s.breakdown -> Result("all", all)
       [] ~ s.breakdown /\ s.what # "lines" -> Result(s.what, all[s.what])
       [] OTHER -> IF s.divisor > 1 THEN Result("groups", Groups(t.lines, s.divisor))
                   ELSE Result("lines", t.lines)

CountOne(job, s, name) ==
  IF name \notin DOMAIN job.disk THEN [s EXCEPT !.status = 1, !.names = @ + 1]
  ELSE LET t == FoldLeft(CountChar, [chars |-> 0, lines |-> 0, words |-> 0, inWord |-> FALSE], job.disk[name])
       IN [s EXCEPT !.names = @ + 1, !.out = @ \o CountSays(s, t)]

CountArgument(job, s, a) ==
  CASE a.o = "-?" -> Stop(s, 0)
    [] a.o = "-l" -> [s EXCEPT !.what = "lines"]
    [] a.o = "-w" -> [s EXCEPT !.what = "words"]
    [] a.o = "-c" -> [s EXCEPT !.what = "chars"]
    [] a.o = "-b" -> [s EXCEPT !.what = "words", !.breakdown = TRUE]
    [] a.o = "-d" -> IF a.n < 1 THEN Stop(s, 1) ELSE [s EXCEPT !.divisor = a.n]
    [] a.o = "-z" -> [s EXCEPT !.list = StdinList(job)]
    [] a.o = "-z=" -> [s EXCEPT !.list = FileList(job, a.v)]
    [] a.o = "word" -> CountOne(job, s, a.v)
    [] OTHER -> Stop(s, 1)

Count(job) ==
  LET s == Arguments(LAMBDA t, a : CountArgument(job, t, a),
                     [exit |-> Running, what |-> "lines", breakdown |-> FALSE, divisor |-> 1,
                      list |-> NoList, names |-> 0, status |-> 0, out |-> <<>>], job.args)
      listed == IF s.list = NoList THEN s
                ELSE FoldLeft(LAMBDA t, n : CountOne(job, t, n), s, Names(s.list.text))
  IN IF s.exit # Running THEN [exit |-> s.exit, out |-> s.out]
     ELSE IF s.list = NoList /\ s.names = 0 THEN [exit |-> 1, out |-> <<>>]
     ELSE [exit |-> listed.status, out |-> listed.out]

-----------------------------------------------------------------------------
(* tr: the character of the second set at the place that the character has  *)
(* in the first one, and its last one where the second set ends.  A place   *)
(* further on is read from "beyond", what memory holds there: any character *)
(* or a zero.                                                               *)
Position(set, c) ==
  IF Contains(set, c) THEN CHOOSE i \in DOMAIN set : set[i] = c /\ \A j \in 1..(i - 1) : set[j] # c
  ELSE Len(set) + 1

CharAt(set, at, beyond) ==
  LET c == IF at <= Len(set) THEN set[at] ELSE IF at = Len(set) + 1 THEN 0 ELSE beyond[at - Len(set) - 1]
  IN IF c # 0 THEN c ELSE Last(set)

Translate(s, text, beyond) ==
  LET matches(c) == Contains(s.set1, c) # ("-c" \in s.opts)
      new(c) == IF "-d" \notin s.opts /\ matches(c) THEN CharAt(s.set2, Position(s.set1, c), beyond) ELSE c
      put(out, c) == IF "-s" \in s.opts /\ "-d" \notin s.opts /\ out # <<>> /\ Last(out) = c /\ Contains(s.set2, c)
                     THEN out ELSE Append(out, c)
  IN FoldLeft(LAMBDA out, c : IF "-d" \in s.opts /\ matches(c) THEN out ELSE put(out, new(c)), <<>>, text)

TrArgument(job, s, a) ==
  CASE a.o = "-?" -> Stop(s, 0)
    [] a.o \in {"-d", "-c", "-s"} -> [s EXCEPT !.opts = @ \cup {a.o}]
    [] a.o = "-v" -> [s EXCEPT !.opts = @ \cup {"-c"}]
    [] a.o = "-z" -> [s EXCEPT !.list = StdinList(job)]
    [] a.o = "-z=" -> IF a.v \notin DOMAIN job.disk THEN Stop(s, 1) ELSE [s EXCEPT !.list = FileList(job, a.v)]
    [] a.o = "word" ->
         CASE s.words = 0 -> [s EXCEPT !.set1 = a.v, !.words = 1]
           [] s.words = 1 /\ "-d" \notin s.opts -> [s EXCEPT !.set2 = a.v, !.words = 2]
           [] s.input = <<>> /\ ~ (s.words = 1 /\ "-d" \notin s.opts) /\ s.words # 0 ->
                IF a.v \in DOMAIN job.disk THEN [s EXCEPT !.input = <<a.v>>] ELSE Stop(s, 1)
           [] s.input # <<>> /\ s.output = <<>> -> [s EXCEPT !.output = <<a.v>>]
           [] OTHER -> Stop(s, 1)
    [] OTHER -> Stop(s, 1)

(* An output that is the input has been emptied before it is read. *)
Tr(job, beyond) ==
  LET s == Arguments(LAMBDA t, a : TrArgument(job, t, a),
                     [exit |-> Running, opts |-> {}, set1 |-> <<>>, set2 |-> <<>>, words |-> 0,
                      input |-> <<>>, output |-> <<>>, list |-> NoList], job.args)
      text(name) == IF name \notin DOMAIN job.disk \/ s.output = <<name>> THEN <<>> ELSE job.disk[name]
      listed == FoldLeft(LAMBDA out, n : out \o Translate(s, text(n), beyond), <<>>, Names(s.list.text))
  IN CASE s.exit # Running -> [exit |-> s.exit, out |-> <<>>]
       [] s.exit = Running /\ (s.words = 0 \/ (s.words = 1 /\ "-d" \notin s.opts)) -> [exit |-> 1, out |-> <<>>]
       [] OTHER ->
            [exit |-> 0,
             out |-> IF s.list # NoList THEN listed
                     ELSE Translate(s, IF s.input = <<>> THEN job.stdin ELSE text(s.input[1]), beyond)]

-----------------------------------------------------------------------------
(* tee: each block goes to standard output, <<>> here, and to every path. *)
TeeBlock(s, block, job) ==
  LET given == [n \in DOMAIN s.given |-> s.given[n] \o block]
  IN [given |-> given,
      status |-> IF \E n \in DOMAIN given : Emitted(Len(given[n]), job.buffer[n]) > job.room[n]
                 THEN 1 ELSE s.status]

TeeArgument(job, s, a) ==
  CASE a.o = "-?" -> Stop(s, 0)
    [] a.o = "word" -> IF Len(s.paths) = 16 \/ a.v \notin DOMAIN job.room THEN Stop(s, 1)
                       ELSE [s EXCEPT !.paths = Append(@, a.v)]
    [] OTHER -> Stop(s, 1)

Tee(job) ==
  LET s == Arguments(LAMBDA t, a : TeeArgument(job, t, a), [exit |-> Running, paths |-> <<>>], job.args)
      start == [given |-> [n \in Range(s.paths) \cup {<<>>} |-> <<>>], status |-> 0]
      all == FoldLeft(LAMBDA t, k : TeeBlock(t, Buffer(job.stdin, BlockMax, k), job), start,
                      Upto(Len(job.stdin) \div BlockMax + 1))
      closed(given, room) == SubSeq(given, 1, Stored(Len(given), room))
  IN IF s.exit # Running THEN [exit |-> s.exit, out |-> <<>>]
     ELSE IF s.paths = <<>> THEN [exit |-> 1, out |-> <<>>]
     ELSE [exit |-> all.status,
           out |-> [n \in DOMAIN all.given |-> closed(all.given[n], job.room[n])]]

-----------------------------------------------------------------------------
(* Mutant of Behind: one star is skipped, not all of them. *)
BehindOne(pattern, p) == p + 1

(* wildmatch() of qid, from position p of the pattern and n of the name on: *)
(* "*" stands for any characters, "?" for one.                              *)
Behind(pattern, p) ==
  CHOOSE q \in p..(Len(pattern) + 1) :
    (\A i \in p..(q - 1) : pattern[i] = Star) /\ (q <= Len(pattern) => pattern[q] # Star)

Wildmatch(pattern, name) ==
  LET match[p \in 1..(Len(pattern) + 1)] ==
        [n \in 1..(Len(name) + 1) |->
           IF p > Len(pattern) THEN n > Len(name)
           ELSE IF pattern[p] = Star
             THEN LET q == Behind(pattern, p)
                  IN q > Len(pattern) \/ \E k \in n..Len(name) : match[q][k]
           ELSE n <= Len(name) /\ pattern[p] \in {Query, name[n]} /\ match[p + 1][n + 1]]
  IN match[1][1]
=============================================================================
