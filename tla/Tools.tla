-------------------------------- MODULE Tools --------------------------------
(***************************************************************************)
(* The commands of Text, Code and Identify, each run once on a command line *)
(* and its files.  The properties compare what comes out with a definition  *)
(* of the right result that does not read piece by piece, block by block or *)
(* byte by byte.                                                            *)
(***************************************************************************)
EXTENDS Text, Code, Identify

CONSTANTS
  Jobs,     \* what is run: records with a field "tool"
  Beyond    \* what tr may find in memory behind its second set

(* An argument: an option, its text and its number; "word" is none.  The    *)
(* numbers of count fit in a long; tee is not given a path twice.           *)
Argument == [o: STRING, v: Seq(Nat), n: Int]
LongMax == 2147483647
Byte == 0..255

(* An argument of fixmod, and a module as far as fixmod is concerned. *)
FixmodOption == [o: STRING, letter: STRING, text: Seq(Nat), name: STRING]
ModuleFile == [good: BOOLEAN, sealed: BOOLEAN, edition: Int]

ASSUME ToolsAssumption ==
  \A j \in Jobs :
    /\ j.tool \in {"cmp", "tee", "count"} => j.args \in Seq(Argument)
    /\ j.tool \in {"cmp", "count"} =>
         \A name \in DOMAIN j.disk :
           /\ j.disk[name] \in Seq(Nat)
           /\ \A i \in DOMAIN j.args : j.args[i].n <= LongMax - Len(j.disk[name])
    /\ j.tool = "tee" =>
         /\ j.stdin \in Seq(Nat) /\ <<>> \in DOMAIN j.room
         /\ \A name \in DOMAIN j.room : j.room[name] \in Nat /\ j.buffer[name] \in Nat \ {0}
         /\ \A i, k \in DOMAIN j.args : j.args[i].v = j.args[k].v => i = k \/ j.args[i].o # "word"
    /\ j.tool = "binex" =>
         /\ j.address \in Nat /\ j.bytes \in Seq(Byte) /\ j.room \in Nat /\ j.buffer \in Nat \ {0}
         /\ (j.address + Len(j.bytes)) \div 65536 < 65536
    /\ j.tool = "attr" =>
         /\ j.args \in Seq(Seq(STRING) \ {<<>>})
         /\ \A path \in DOMAIN j.disk : j.disk[path] \subseteq Attribute
    /\ j.tool = "fixmod" =>
         /\ j.args \in Seq(FixmodOption) /\ j.disk \in [DOMAIN j.disk -> ModuleFile]
         /\ j.faults \in [DOMAIN j.disk -> Fault]
    /\ j.tool = "wildmatch" => j.pattern \in Seq(Nat) /\ j.name \in Seq(Nat)
    /\ j.tool = "identify" => j.file \in File

VARIABLES
  job,      \* what is run
  ran,      \* it has been run
  out       \* what has come of it

vars == <<job, ran, out>>

Init == job \in Jobs /\ ran = FALSE /\ out = <<>>

Does(tool, result) ==
  /\ ~ ran /\ job.tool = tool
  /\ ran' = TRUE /\ out' = result
  /\ UNCHANGED job

RunGrep == Does("grep", Grep(job))
RunCmp == Does("cmp", Cmp(job))
RunQsort == \E result \in IF job.tool = "qsort" THEN Qsort(job) ELSE {} : Does("qsort", result)
RunCount == Does("count", Count(job))
RunTr == \E beyond \in Beyond : Does("tr", Tr(job, beyond))
RunTee == Does("tee", Tee(job))
RunWildmatch == Does("wildmatch", Wildmatch(job.pattern, job.name))
RunBinex == Does("binex", Binex(job))
RunAttr == Does("attr", Attr(job))
RunFixmod == Does("fixmod", Fixmod(job))
RunRepair == Does("repair", RepairModule(job.module))
RunIdentify == Does("identify", [qid |-> Qid(job.file), ident |-> Ident(job.file)])

Next ==
  \/ RunGrep \/ RunCmp \/ RunQsort \/ RunCount \/ RunTr \/ RunTee \/ RunWildmatch
  \/ RunBinex \/ RunAttr \/ RunFixmod \/ RunRepair \/ RunIdentify

Spec == Init /\ [][Next]_vars

Ran(tool) == ran /\ job.tool = tool
Words == LET ws == SelectSeq(job.args, LAMBDA a : a.o = "word") IN [i \in DOMAIN ws |-> ws[i].v]
Given(o) == \E i \in DOMAIN job.args : job.args[i].o = o
ValueOf(o, default) ==
  LET at == {i \in DOMAIN job.args : job.args[i].o = o}
  IN IF at = {} THEN default ELSE job.args[CHOOSE i \in at : \A j \in at : j <= i].n

Only(options) == \A i \in DOMAIN job.args : job.args[i].o \in options
WordsAt == {i \in DOMAIN job.args : job.args[i].o = "word"}

-----------------------------------------------------------------------------
(* Lines by position: one begins behind the end of another, and every       *)
(* LineMax characters a buffer ends one that does not fit.                  *)
BeginsLine(text, k) == k = 1 \/ text[k - 1] = Newline
LineBegins(text) ==
  {k \in DOMAIN text :
     \E j \in 1..k : BeginsLine(text, j) /\ (k - j) % LineMax = 0
                        /\ \A i \in (j + 1)..k : ~ BeginsLine(text, i)}
LineOf(text, k) == Cardinality({j \in LineBegins(text) : j <= k})
Numbers(text) == {LineOf(text, k) : k \in DOMAIN text}
LineAt(text, n) ==
  LET at == {k \in DOMAIN text : LineOf(text, k) = n}
      first == CHOOSE k \in at : \A j \in at : k <= j
  IN SubSeq(text, first, first + Cardinality(at) - 1)

(* grep prints a line when it or one of the -m lines before it matches one  *)
(* of the patterns (or with -v none), whatever was printed before it; of a  *)
(* file -c, -l and -s print the number, the name, or nothing.  Lines and    *)
(* patterns beyond the limits: a long line counts as several, one -e too    *)
(* many is an error.  Options, patterns and one file or standard input in   *)
(* the order of the usage line; of -c and -l on standard input, which do    *)
(* not do what that line says, nothing is asked.                            *)
GrepRight ==
  Ran("grep") /\ job.plain =>
    LET fold(x) == IF Given("-i") THEN [k \in DOMAIN x |-> ToLower(x[k])] ELSE x
        behind == SelectSeq(job.args, LAMBDA x : x.o = "-e")
        patterns == IF behind = <<>> THEN {fold(Words[1])} ELSE {fold(x.v) : x \in Range(behind)}
        paths == IF behind = <<>> THEN Tail(Words) ELSE Words
        text == IF paths = <<>> THEN job.stdin ELSE job.disk[paths[1]]
        hit(n) == (\E a, b \in 0..Len(LineAt(text, n)) :
                     b > a /\ fold(SubSeq(LineAt(text, n), a + 1, b)) \in patterns) # Given("-v")
        near(n) == \E m \in Numbers(text) : m <= n /\ n - m <= ValueOf("-m", 0) /\ hit(m)
        shown == SetToSortSeq({n \in Numbers(text) : near(n)}, <)
        lines == Result("lines", [i \in DOMAIN shown |-> [at |-> shown[i], line |-> LineAt(text, shown[i])]])
        hits == Cardinality({n \in Numbers(text) : hit(n)})
    IN <<>> \notin patterns /\ (Given("-c") \/ Given("-l") => paths # <<>>) =>
         IF Len(behind) > PatternMax THEN out = [exit |-> 1, out |-> <<>>]
         ELSE /\ out.exit = 0
              /\ out.out = CASE Given("-s") -> <<>>
                             [] ~ Given("-s") /\ Given("-c") -> Result("count", hits)
                             [] ~ Given("-s") /\ ~ Given("-c") /\ Given("-l") ->
                                  IF hits > 0 THEN Result("name", paths[1]) ELSE <<>>
                             [] OTHER -> lines

(* qsort prints the lines of the files it was given, each as often as it is *)
(* in them, ordered by the field asked for; status 1 when there were too    *)
(* many, a line longer than the buffer being several.  Not when every file  *)
(* is empty: it reads standard input then.                                  *)
Field(line, n, separator) ==
  SelectSeq([k \in DOMAIN line |->
               IF line[k] \notin {separator, Newline}
                  /\ Cardinality({j \in 1..(k - 1) : line[j] = separator}) = n - 1
               THEN line[k] ELSE 0], LAMBDA c : c # 0)

QsortRight ==
  Ran("qsort") /\ job.plain =>
    LET n == ValueOf("-f", 0)
        key(line) == IF n = 0 THEN line ELSE Field(line, n, Blank)
        text == IF Words = <<>> THEN job.stdin ELSE FlattenSeq([i \in DOMAIN Words |-> job.disk[Words[i]]])
        times(line) == Cardinality({m \in Numbers(text) : LineAt(text, m) = line})
    IN text # <<>> =>
         /\ \A i \in 1..(Len(out.out) - 1) : NotAfter(key(out.out[i]), key(out.out[i + 1]))
         /\ Cardinality(Numbers(text)) <= LinesMax => out.exit = 0 /\ Len(out.out) = Cardinality(Numbers(text))
         /\ Words # <<>> /\ Cardinality(Numbers(text)) > LinesMax => out.exit = 1
         /\ \A line \in Range(out.out) :
              Cardinality({i \in DOMAIN out.out : out.out[i] = line}) <= times(line)

(* tr, where it does not read behind its second set: the sets as long as    *)
(* each other or the first one longer by one.                               *)
TrRight ==
  Ran("tr") /\ job.plain =>
    LET complement == Given("-c") \/ Given("-v")
        set1 == Words[1]
        in(c) == (c \in Range(set1)) # complement
        set2 == Words[2]
        new(c) == IF ~ in(c) THEN c
                  ELSE IF complement \/ c \notin Range(SubSeq(set1, 1, Len(set2))) THEN Last(set2)
                  ELSE set2[CHOOSE i \in DOMAIN set1 : set1[i] = c /\ \A j \in 1..(i - 1) : set1[j] # c]
        mapped == [k \in DOMAIN job.stdin |-> new(job.stdin[k])]
        again(k) == k > 1 /\ mapped[k] = mapped[k - 1] /\ mapped[k] \in Range(set2)
        kept == SetToSortSeq({k \in DOMAIN mapped : ~ (Given("-s") /\ again(k))}, <)
    IN IF Given("-d") THEN out.out = SelectSeq(job.stdin, LAMBDA c : ~ in(c))
       ELSE Len(set1) - Len(set2) \in (IF complement THEN {0} ELSE {0, 1}) =>
              out.out = [i \in DOMAIN kept |-> mapped[kept[i]]]

(* cmp says the same of two files whatever -b is: 0 only for equal files,   *)
(* also with -s, which stops at the first difference, and how many bytes of *)
(* the longer one differ.                                                   *)
CmpRight ==
  Ran("cmp") /\ Only({"-t", "-s", "-b", "word"})
    /\ (\A i \in DOMAIN job.args : job.args[i].o = "-b" => job.args[i].n \in 1..64) =>
    \A i, j \in WordsAt :
      i < j /\ WordsAt = {i, j} /\ {job.args[i].v, job.args[j].v} \subseteq DOMAIN job.disk =>
        LET a == job.disk[job.args[i].v]
            b == job.disk[job.args[j].v]
            all == 1..Longer(a, b)
            different == Cardinality({k \in all : ~ (k \in DOMAIN a \cap DOMAIN b /\ a[k] = b[k])})
            totals == Result("compared", Longer(a, b)) \o Result("different", different)
        IN /\ out.exit = IF a = b THEN 0 ELSE 1
           /\ out.out = IF Given("-s") THEN <<>>
                        ELSE IF Given("-t") THEN totals
                        ELSE IF a = b THEN <<"the same">> ELSE <<"not the same">> \o totals

(* tee: every output gets what it has room for, all of the input when that  *)
(* is enough, whatever becomes of the others.  Status 1 says that something *)
(* is missing, and 0 that no more is missing of any output than its last    *)
(* buffer, which nobody saw fail.                                           *)
TeeRight ==
  Ran("tee") /\ Only({"word"}) /\ Len(job.args) \in 1..16
    /\ (\A i \in DOMAIN job.args : job.args[i].v \in DOMAIN job.room) =>
    LET all == job.stdin
        paths == {job.args[i].v : i \in DOMAIN job.args} \cup {<<>>}
        missing(n) == Len(all) - Len(out.out[n])
    IN /\ out.out = [n \in paths |-> SubSeq(all, 1, Smaller(Len(all), job.room[n]))]
       /\ out.exit \in {0, 1}
       /\ out.exit = 1 => \E n \in paths : missing(n) > 0
       /\ out.exit = 0 => \A n \in paths : missing(n) < job.buffer[n]

(* count: a word is a run of characters between blanks, tabs and ends of    *)
(* lines; with -d groups are lines divided by n, rounded up.                *)
CountRight ==
  Ran("count") /\ job.args # <<>> =>
    LET last == Len(job.args)
        name == job.args[last].v
        text == job.disk[name]
        gap(k) == k = 0 \/ text[k] \in {Blank, Tab, Newline, LineFeed}
        lines == Cardinality({k \in DOMAIN text : text[k] \in {Newline, LineFeed}})
        words == Cardinality({k \in DOMAIN text : ~ gap(k) /\ gap(k - 1)})
        r == out.out[1]
    IN /\ job.args[last].o = "word" /\ name \in DOMAIN job.disk
       /\ \A i \in 1..(last - 1) : /\ job.args[i].o \in {"-l", "-w", "-c", "-b", "-d"}
                                   /\ job.args[i].o = "-d" => job.args[i].n > 0
       => /\ out.exit = 0 /\ Len(out.out) = 1
          /\ r.what = "all" <=> Given("-b")
          /\ CASE r.what = "lines" -> r.of = lines
               [] r.what = "words" -> r.of = words
               [] r.what = "chars" -> r.of = Len(text)
               [] r.what = "all" -> r.of = [lines |-> lines, words |-> words, chars |-> Len(text)]
               [] r.what = "groups" -> (r.of - 1) * ValueOf("-d", 1) < lines /\ lines <= r.of * ValueOf("-d", 1)

(* Files of any length, taken in blocks of any size or by the character:    *)
(* cmp, tee and count say of them what a look at the whole says.            *)
BlocksRight == CmpRight /\ TeeRight /\ CountRight

(* qid finds the modules a pattern asks for: those whose name can be laid   *)
(* along it.  "at" says where in the name each position of the pattern      *)
(* begins; a character takes one like it, "?" any one, "*" any number.      *)
WildRight ==
  Ran("wildmatch") =>
    LET p == job.pattern
        m == job.name
    IN out = \E at \in [1..(Len(p) + 1) -> 1..(Len(m) + 1)] :
               /\ at[1] = 1 /\ at[Len(p) + 1] = Len(m) + 1
               /\ \A k \in DOMAIN p :
                    /\ at[k] <= at[k + 1]
                    /\ p[k] # Star => at[k + 1] = at[k] + 1 /\ p[k] \in {Query, m[at[k]]}

(* Names in a list, of a file or of standard input, and patterns behind -e  *)
(* or in a file are dealt with as those in the command line: job.as is a    *)
(* command line that must do the same.                                      *)
ListsRight ==
  ran /\ job.tool \in {"grep", "qsort", "count"} /\ job.as # <<>> =>
    LET same == [job EXCEPT !.args = job.as]
    IN CASE job.tool = "grep" -> out = Grep(same)
         [] job.tool = "qsort" -> out \in Qsort(same)
         [] job.tool = "count" -> out = Count(same)

TextRight == GrepRight /\ QsortRight /\ TrRight /\ ListsRight

-----------------------------------------------------------------------------
(* A number from its bytes, and as much of a number as ab bytes hold. *)
NumberOf(bytes) == FoldLeft(LAMBDA n, b : 256 * n + b, 0, bytes)
Reach(ab, n) == CASE ab = 2 -> n % 65536 [] ab = 3 -> n % 16777216 [] ab = 4 -> n

(* binex: each record has the sum and the count the format asks for, and    *)
(* the records hold all the bytes of the file, in order, each at its        *)
(* address as far as the address of the record reaches.  Status 0 says that *)
(* they are all there but for the last buffer, and 1 that something is      *)
(* missing.  That the end record has the address size of the others is not  *)
(* true: those of S1 and S2 files have four bytes.                          *)
BinexRight ==
  Ran("binex") =>
    LET ended == out.out # <<>> /\ Last(out.out).type \in 7..9
        data == IF ended THEN Front(out.out) ELSE out.out
        ab == AddressBytes(job.type)
        address(r) == NumberOf(SubSeq(r.bytes, 2, ab + 1))
        content(r) == SubSeq(r.bytes, ab + 2, Len(r.bytes) - 1)
        behind(i) == SumOf([k \in 1..(i - 1) |-> Len(content(data[k]))])
        missing == Letters(out.out) - out.stored
    IN /\ \A r \in Range(out.out) : SumOf(r.bytes) % 256 = 255 /\ Head(r.bytes) = Len(r.bytes) - 1
       /\ \A i \in DOMAIN data :
            /\ data[i].type = job.type /\ address(data[i]) = Reach(ab, job.address + behind(i))
            /\ \A k \in DOMAIN content(data[i]) : content(data[i])[k] = job.bytes[behind(i) + k]
       /\ behind(Len(data) + 1) <= Len(job.bytes)
       /\ ended => behind(Len(data) + 1) = Len(job.bytes)
       /\ out.exit = 0 => ended /\ missing < job.buffer
       /\ out.exit = 1 /\ out.out # <<>> => missing > 0

(* attr: the last mention of an attribute decides, on when the "-" or "n"   *)
(* before it is a "-" or there is none; attributes not mentioned and files  *)
(* that cannot be changed stay as they are, and a text with something       *)
(* unknown in it changes nothing at all.                                    *)
AttrRight ==
  Ran("attr") /\ Len(job.args) = 2 /\ job.args[1][1] # "-" /\ job.args[2] \notin AttrOption =>
    LET path == job.args[1]
        text == job.args[2]
        second(k) == k > 1 /\ text[k - 1] = "p"
        known == \A k \in DOMAIN text :
                   text[k] \in IF second(k) THEN {"e", "w", "r"} ELSE {"-", "n", "p", "d", "s", "e", "w", "r"}
        mentions(x) == {k \in DOMAIN text : x = IF second(k) THEN Public(text[k]) ELSE text[k]}
        on(k) == LET signs == {j \in 1..k : text[j] \in {"-", "n"}}
                 IN signs # {} => text[CHOOSE j \in signs : \A i \in signs : i <= j] = "-"
        new(x) == IF mentions(x) = {} THEN x \in job.disk[path]
                  ELSE on(CHOOSE k \in mentions(x) : \A j \in mentions(x) : j <= k)
    IN IF known /\ Last(text) # "p" /\ ~ job.fails /\ path \in DOMAIN job.disk
       THEN /\ out.exit = 0
            /\ out.disk = [job.disk EXCEPT ![path] = {x \in Attribute : new(x)}]
            /\ out.out = <<out.disk[path]>>
       ELSE out.exit = 1 /\ out.disk = job.disk

(* fixmod changes what it was given and nothing else.  It leaves no module  *)
(* without its checksums unless writing over it in place failed, and says   *)
(* so unless that was in what the C library had still to write; 0 only when *)
(* it could read all modules.                                               *)
FixmodRight ==
  Ran("fixmod") =>
    LET named == {a.name : a \in {b \in Range(job.args) : b.o = "word"}}
        changed == {n \in DOMAIN job.disk : out.disk[n] # job.disk[n]}
        update == \E i, j \in DOMAIN job.args : i < j /\ job.args[i].o = "-u" /\ job.args[j].o = "word"
        broken(faults) == {n \in changed : ~ out.disk[n].sealed /\ job.faults[n].at \notin faults}
    IN /\ changed \subseteq named /\ \A n \in changed : job.disk[n].good
       /\ broken({"write", "flush"}) = {}
       /\ out.exit = 0 /\ ~ (\E a \in Range(job.args) : a.o = "-?") =>
            /\ named # {} /\ \A n \in named : n \in DOMAIN job.disk /\ job.disk[n].good
            /\ broken({"flush"}) = {}
       /\ (\A a \in Range(job.args) : a.o # "-u?") => \A n \in changed : update

(* "-ue[=]edition  change module edition", fixmod.c:13: the number typed is *)
(* the edition of the module named next when fixmod returns 0, nothing      *)
(* having failed.                                                           *)
EditionAsked ==
  Ran("fixmod") /\ out.exit = 0 /\ (\A n \in DOMAIN job.disk : job.faults[n].at = "nothing") =>
    \A i \in 1..(Len(job.args) - 1) :
      job.args[i].o = "-u?" /\ job.args[i].letter = "e" /\ job.args[i].text # <<>>
        /\ job.args[i + 1].o = "word" =>
        out.disk[job.args[i + 1].name].edition
          = Number(SelectSeq(job.args[i].text, LAMBDA c : c # Equals))

(* os9_crc() is the CRC of 24 bits with the polynomial $800063 that the     *)
(* kernel checks: run over a whole repaired module it gives $800FE3; and    *)
(* the words of the header give $FFFF.  Nothing else is touched.            *)
CrcTable ==
  [b \in 0..255 |->
     FoldLeft(LAMBDA reg, k : IF reg >= 8388608 THEN Xor((2 * reg) % 16777216, 8388707) ELSE 2 * reg,
              65536 * b, [k \in 1..8 |-> k])]

Crc24(bytes) ==
  FoldLeft(LAMBDA crc, byte : Xor(256 * (crc % 65536), CrcTable[Xor(crc \div 65536, byte)]),
           16777215, bytes)

RepairRight ==
  Ran("repair") =>
    LET words == [i \in 1..(ParityAt \div 2 + 1) |-> 256 * out[2 * i - 1] + out[2 * i]]
    IN /\ Crc24(out) = 8392675
       /\ FoldLeft(LAMBDA p, x : Xor(p, x), 0, words) = 65535
       /\ Len(out) = Len(job.module)
       /\ \A i \in 1..(Len(out) - 3) \ {ParityAt + 1, ParityAt + 2} : out[i] = job.module[i]

CodeRight == BinexRight /\ AttrRight /\ FixmodRight

(* qid and ident say the same of whole files, as far as they say anything:  *)
(* what one takes for a module, an object or a program the other does not   *)
(* take for something else, and qid knows all that ident knows of them.     *)
(* qid refuses only files too short for the headers it tries; the name it   *)
(* gives is the name, "?" or its first 40 characters.                       *)
FormatsRight == Ran("identify") => Agree(job.file, out.qid, out.ident)
=============================================================================
