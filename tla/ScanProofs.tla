------------------------------ MODULE ScanProofs ------------------------------
(***************************************************************************)
(* Theorems about Directory and Scan, which are one state machine.  First   *)
(* the commands: any number of them at once, with any command lines, in any *)
(* tree, beside a qid or dir that reads it.  Then the readers: qid reports  *)
(* what was there all the time exactly once, in any tree and any blocks,    *)
(* whatever the commands do and whatever comes and goes in memory; and dir  *)
(* lists, in order and without repetition, all that stayed in a directory,  *)
(* and with -r each directory that stayed within its depth, once for each   *)
(* operand it was asked for.                                                *)
(***************************************************************************)
EXTENDS Scan, SequenceTheorems, FiniteSetTheorems, WellFoundedInduction, TLAPS

(* The least number of a set, from the well-foundedness of finite subsets:  *)
(* the theorems of NaturalsInduction take an operator, this one takes a set.*)
LEMMA LeastNatural ==
  ASSUME NEW S, S \subseteq Nat, S # {}
  PROVE  \E m \in S : \A n \in S : m <= n
<1> DEFINE T == {1..n : n \in S}
<1>1. T # {} /\ \A t \in T : t \in FiniteSubsetsOf(Nat)
  <2>1. ASSUME NEW n \in S PROVE 1..n \in FiniteSubsetsOf(Nat)
    <3>1. IsFiniteSet(1..n)
      BY FS_Interval
    <3> QED
      BY <3>1 DEF FiniteSubsetsOf
  <2> QED
    BY <2>1
<1>2. IsWellFoundedOn(StrictSubsetOrdering(Nat), FiniteSubsetsOf(Nat))
  BY FS_StrictSubsetOrderingWellFounded
<1>3. \E t \in T : \A u \in T : ~ (<<u, t>> \in StrictSubsetOrdering(Nat))
  <2> HIDE DEF T
  <2> QED
    BY <1>1, <1>2, WFMin
<1>4. PICK m \in S : \A n \in S : ~ (<<1..n, 1..m>> \in StrictSubsetOrdering(Nat))
  BY <1>3
<1>5. ASSUME NEW n \in S, n < m PROVE FALSE
  <2>1. 1..n \subseteq 1..m /\ 1..n # 1..m /\ 1..n \in SUBSET Nat /\ 1..m \in SUBSET Nat
    BY <1>5
  <2> QED
    BY <1>4, <2>1 DEF StrictSubsetOrdering
<1> QED
  BY <1>5

-----------------------------------------------------------------------------
(* The tree. *)
LEMMA CreatedTree ==
  ASSUME WellFormed(tree), NEW kind \in {"file", "dir"}, NEW p, CanCreate(p), Created(p, kind)
  PROVE  /\ WellFormed(tree)' /\ stable' = stable
         /\ DOMAIN tree' = DOMAIN tree \cup {p} /\ tree'[p].kind = kind
         /\ \A q \in DOMAIN tree : /\ tree'[q].kind = tree[q].kind
                                   /\ tree'[q].slot = tree[q].slot
                                   /\ tree'[q].size >= tree[q].size
<1> DEFINE d == Front(p)
           s == CHOOSE s \in FreeSlots(d) : \A t \in FreeSlots(d) : s <= t
           new == [kind |-> kind, slot |-> s, size |-> IF kind = "dir" THEN 1 ELSE 0]
           there == [q \in DOMAIN tree \cup {p} |->
                      IF q = p THEN new
                      ELSE IF q = d /\ s > tree[d].size THEN [tree[d] EXCEPT !.size = s]
                      ELSE tree[q]]
<1>1. /\ MaxSlots \in Nat \ {0} /\ FreeSlots(d) \subseteq 2..MaxSlots /\ FreeSlots(d) # {}
      /\ p \in Paths /\ p # <<>> /\ p \notin DOMAIN tree
      /\ d \in DOMAIN tree /\ tree[d].kind = "dir"
  BY DirectoryAssumption, EmptySeq DEF CanCreate, IsDir, FreeSlots
<1>2. s \in FreeSlots(d)
  <2>1. \E m \in FreeSlots(d) : \A n \in FreeSlots(d) : m <= n
    <3>1. FreeSlots(d) \subseteq Nat
      BY <1>1
    <3> QED
      BY <1>1, <3>1, LeastNatural
  <2> QED
    BY <2>1
<1>3. tree' = there /\ stable' = stable
  BY DEF Created
<1>4. s \in 2..MaxSlots /\ \A q \in Children(d) : tree[q].slot # s
  BY <1>1, <1>2 DEF FreeSlots
<1>5. \A q \in DOMAIN tree : tree[q] \in Entry
  BY DEF WellFormed
<1> HIDE DEF s, d
<1>6. /\ DOMAIN tree' = DOMAIN tree \cup {p} /\ tree' \in [DOMAIN tree' -> Entry]
      /\ tree'[p] = new
      /\ \A q \in DOMAIN tree : /\ tree'[q].kind = tree[q].kind
                                /\ tree'[q].slot = tree[q].slot
                                /\ tree'[q].size >= tree[q].size
      /\ s <= tree'[d].size
  <2>1. new \in Entry
    BY <1>1, <1>4 DEF Entry
  <2>2. s > tree[d].size => [tree[d] EXCEPT !.size = s] \in Entry
    BY <1>1, <1>4, <1>5 DEF Entry
  <2>3. DOMAIN tree' = DOMAIN tree \cup {p} /\ tree'[p] = new /\ tree' \in [DOMAIN tree' -> Entry]
    BY <1>3, <1>5, <2>1, <2>2
  <2>4. \A q \in DOMAIN tree :
          tree'[q] = IF q = d /\ s > tree[d].size THEN [tree[d] EXCEPT !.size = s] ELSE tree[q]
    BY <1>1, <1>3
  <2>5. \A q \in DOMAIN tree : /\ tree'[q].kind = tree[q].kind
                               /\ tree'[q].slot = tree[q].slot
                               /\ tree'[q].size >= tree[q].size
    BY <1>4, <1>5, <2>4 DEF Entry
  <2>6. s <= tree'[d].size
    BY <1>1, <1>4, <1>5, <2>4 DEF Entry
  <2> QED
    BY <2>3, <2>5, <2>6
<1>7. \A q \in DOMAIN tree' \ {<<>>} :
        /\ Front(q) \in DOMAIN tree' /\ tree'[Front(q)].kind = "dir"
        /\ tree'[q].slot \in 2..tree'[Front(q)].size
  <2>1. ASSUME NEW q \in DOMAIN tree \ {<<>>}
        PROVE  /\ Front(q) \in DOMAIN tree' /\ tree'[Front(q)].kind = "dir"
               /\ tree'[q].slot \in 2..tree'[Front(q)].size
    <3>1. /\ Front(q) \in DOMAIN tree /\ tree[Front(q)].kind = "dir"
          /\ tree[q].slot \in 2..tree[Front(q)].size
      BY DEF WellFormed
    <3>2. tree[Front(q)].size \in Nat /\ tree'[Front(q)].size \in Nat
      BY <3>1, <1>5, <1>6 DEF Entry
    <3> QED
      BY <3>1, <3>2, <1>6
  <2>2. Front(p) \in DOMAIN tree' /\ tree'[Front(p)].kind = "dir"
        /\ tree'[p].slot \in 2..tree'[Front(p)].size
    <3>1. tree'[d].size \in Nat
      BY <1>1, <1>6 DEF Entry
    <3> QED
      BY <3>1, <1>1, <1>4, <1>6 DEF d
  <2> QED
    BY <2>1, <2>2, <1>6
<1>8. \A q, r \in DOMAIN tree' \ {<<>>} :
        Front(q) = Front(r) /\ tree'[q].slot = tree'[r].slot => q = r
  <2>1. \A q, r \in DOMAIN tree \ {<<>>} :
          Front(q) = Front(r) /\ tree'[q].slot = tree'[r].slot => q = r
    BY <1>6 DEF WellFormed
  <2>2. \A q \in DOMAIN tree \ {<<>>} : Front(q) = Front(p) => tree'[q].slot # tree'[p].slot
    BY <1>4, <1>6 DEF Children, d
  <2> QED
    BY <2>1, <2>2, <1>6
<1> QED
  BY <1>1, <1>3, <1>6, <1>7, <1>8 DEF WellFormed

(* What is deleted holds nothing: a file, or an empty directory. *)
LEMMA RemovedTree ==
  ASSUME WellFormed(tree), stable \subseteq DOMAIN tree, NEW p, Removed(p),
         IsFile(p) \/ Children(p) = {}
  PROVE  /\ WellFormed(tree)' /\ stable' = stable \ {p}
         /\ DOMAIN tree' = DOMAIN tree \ {p}
         /\ \A q \in DOMAIN tree' : tree'[q] = tree[q]
<1>1. /\ tree' = [q \in DOMAIN tree \ {p} |-> tree[q]] /\ stable' = stable \ {p}
      /\ DOMAIN tree' = DOMAIN tree \ {p}
      /\ \A q \in DOMAIN tree' : tree'[q] = tree[q]
  BY DEF Removed
<1>2. tree' \in [DOMAIN tree' -> Entry] /\ DOMAIN tree' \subseteq Paths
  BY <1>1 DEF WellFormed
<1>3. \A q \in DOMAIN tree' \ {<<>>} : Front(q) # p
  BY <1>1 DEF IsFile, Children, WellFormed
<1>4. \A q \in DOMAIN tree' \ {<<>>} : Front(q) \in DOMAIN tree'
  BY <1>1, <1>3 DEF WellFormed
<1> QED
  BY <1>1, <1>2, <1>4 DEF WellFormed

-----------------------------------------------------------------------------
(* The variables of the commands. *)
Steps == {"argument", "answer", "stat", "make", "delete", "open", "create", "done"}

CommandsTyped ==
  /\ job \in [Writer -> Job] /\ pc \in [Writer -> Steps]
  /\ left \in [Writer -> Seq(Argument)]
  /\ opts \in [Writer -> SUBSET {"-p", "-c", "-q"}]
  /\ from \in [Writer -> {"none", "stdin", "file"}]
  /\ stdin \in [Writer -> Seq(Line)] /\ file \in [Writer -> Seq(Line)]
  /\ todo \in [Writer -> Seq(Paths \cup {NoPath})]
  /\ named \in [Writer -> BOOLEAN] /\ status \in [Writer -> {0, 1}]
  /\ asked \in [Writer -> Nat]

(* Where a command is says which command it is, and that it has a name.     *)
InStep(w) ==
  /\ pc[w] \notin {"argument", "done"} => todo[w] # <<>>
  /\ pc[w] = "answer" => Is(w, "del") /\ "-p" \in opts[w]
  /\ pc[w] = "delete" => Is(w, "del") \/ Is(w, "deldir")
  /\ pc[w] \in {"stat", "make"} => Is(w, "makdir")
  /\ pc[w] \in {"open", "create"} => Is(w, "touch")
  /\ ~ Is(w, "makdir") => Len(todo[w]) <= 1
  /\ Len(stdin[w]) <= Len(job[w].stdin)

CommandsOK == CommandsTyped /\ \A w \in Writer : InStep(w)

TreeOK == WellFormed(tree) /\ stable \subseteq DOMAIN tree

LEMMA PathSeq == \A p \in Paths : p \in Seq(Name) /\ Len(p) <= MaxDepth
  BY DirectoryAssumption DEF Paths

LEMMA TailSeq ==
  ASSUME NEW S, NEW s \in Seq(S), s # <<>>
  PROVE  /\ Head(s) \in S /\ Tail(s) \in Seq(S) /\ Len(Tail(s)) = Len(s) - 1
         /\ Len(s) \in Nat \ {0}
         /\ Len(s) > 1 <=> Tail(s) # <<>>
         /\ \A i \in 1..(Len(s) - 1) : Tail(s)[i] = s[i + 1]
         /\ s[1] = Head(s)
<1>1. /\ Head(s) \in S /\ Tail(s) \in Seq(S) /\ Len(Tail(s)) = Len(s) - 1
      /\ Len(s) \in Nat \ {0}
      /\ \A i \in 1..(Len(s) - 1) : Tail(s)[i] = s[i + 1]
  BY HeadTailProperties, LenProperties, EmptySeq
<1>2. Len(Tail(s)) = 0 <=> Tail(s) = <<>>
  BY <1>1, EmptySeq
<1> QED
  BY <1>1, <1>2

LEMMA FirstAlone ==
  ASSUME NEW S, NEW s \in Seq(S), s # <<>>
  PROVE  SubSeq(s, 1, 1) = <<s[1]>>
<1>1. Len(s) \in Nat \ {0} /\ s[1] \in S
  BY TailSeq
<1>2. /\ SubSeq(s, 1, 1) \in Seq(S) /\ Len(SubSeq(s, 1, 1)) = 1
      /\ SubSeq(s, 1, 1)[1] = s[1]
  BY <1>1, SubSeqProperties
<1>3. <<s[1]>> \in Seq(S) /\ Len(<<s[1]>>) = 1 /\ <<s[1]>>[1] = s[1]
  BY <1>1
<1> DEFINE a == SubSeq(s, 1, 1)
           b == <<s[1]>>
<1>4. a \in Seq(S) /\ b \in Seq(S) /\ Len(a) = 1 /\ Len(b) = 1 /\ a[1] = b[1]
  BY <1>2, <1>3
<1> HIDE DEF a, b
<1>5. \A i \in 1..Len(a) : a[i] = b[i]
  BY <1>4
<1>6. a = b
  BY <1>4, <1>5, SeqEqual
<1> QED
  BY <1>6 DEF a, b

LEMMA ComponentsPaths ==
  ASSUME NEW p \in Paths, p # <<>>
  PROVE  /\ Components(p) \in Seq(Paths) /\ Len(Components(p)) = Len(p) /\ Len(p) \in Nat \ {0}
         /\ Components(p)[Len(p)] = p
<1>1. p \in Seq(Name) /\ Len(p) <= MaxDepth /\ Len(p) \in Nat \ {0} /\ MaxDepth \in Nat
  BY PathSeq, EmptySeq, DirectoryAssumption
<1>2. ASSUME NEW k \in 1..Len(p) PROVE SubSeq(p, 1, k) \in [1..k -> Name]
  <2>1. SubSeq(p, 1, k) \in Seq(Name) /\ Len(SubSeq(p, 1, k)) = k
    BY <1>1, SubSeqProperties, LenProperties
  <2> QED
    BY <2>1, LenProperties
<1>3. \A k \in 1..Len(p) : SubSeq(p, 1, k) \in Paths
  BY <1>1, <1>2 DEF Paths
<1>4. SubSeq(p, 1, Len(p)) = p
  BY <1>1, SubSeqFull
<1>5. Components(p) \in [1..Len(p) -> Paths]
  BY <1>3 DEF Components
<1>6. Components(p) \in Seq(Paths)
  BY <1>1, <1>5, IsASeq
<1> QED
  BY <1>1, <1>4, <1>5, <1>6 DEF Components

(* What a command begins with, and what it goes on with. *)
LEMMA Begins ==
  ASSUME CommandsOK, NEW w \in Writer, NEW p \in Paths \cup {NoPath}, Begin(w, p)
  PROVE  /\ todo' \in [Writer -> Seq(Paths \cup {NoPath})] /\ todo'[w] # <<>>
         /\ todo'[w][Len(todo'[w])] = p
         /\ pc' \in [Writer -> Steps] /\ named' \in [Writer -> BOOLEAN]
         /\ \A v \in Writer \ {w} : todo'[v] = todo[v] /\ pc'[v] = pc[v]
         /\ pc'[w] = CASE Is(w, "makdir") -> "stat"
                       [] Is(w, "touch") -> "open"
                       [] Is(w, "del") /\ "-p" \in opts[w] -> "answer"
                       [] OTHER -> "delete"
         /\ ~ Is(w, "makdir") => todo'[w] = <<p>>
<1> DEFINE down == Is(w, "makdir") /\ "-p" \in opts[w] /\ p \notin {NoPath, <<>>}
           list == IF down THEN Components(p) ELSE <<p>>
           place == CASE Is(w, "makdir") -> "stat"
                       [] Is(w, "touch") -> "open"
                       [] Is(w, "del") /\ "-p" \in opts[w] -> "answer"
                       [] OTHER -> "delete"
<1>1. list \in Seq(Paths \cup {NoPath}) /\ list # <<>> /\ list[Len(list)] = p
  <2>1. CASE down
    <3>1. /\ Components(p) \in Seq(Paths) /\ Len(Components(p)) \in Nat \ {0}
          /\ Components(p)[Len(Components(p))] = p
      BY <2>1, ComponentsPaths
    <3>2. Components(p) \in Seq(Paths \cup {NoPath})
      BY <3>1, SeqMonotonic
    <3> QED
      BY <2>1, <3>1, <3>2, EmptySeq
  <2>2. CASE ~ down
    <3>1. list = <<p>>
      BY <2>2
    <3> HIDE DEF list
    <3> QED
      BY <3>1
  <2> QED
    BY <2>1, <2>2
<1>2. place \in Steps
  BY DEF Steps
<1>3. todo' = [todo EXCEPT ![w] = list] /\ pc' = [pc EXCEPT ![w] = place]
      /\ named' = [named EXCEPT ![w] = TRUE]
  BY DEF Begin
<1>4. ~ Is(w, "makdir") => list = <<p>>
  OBVIOUS
<1>5. named' \in [Writer -> BOOLEAN]
  BY <1>3, Zenon DEF CommandsOK, CommandsTyped
<1> HIDE DEF list, place
<1>6. /\ todo' \in [Writer -> Seq(Paths \cup {NoPath})] /\ todo'[w] = list
      /\ pc' \in [Writer -> Steps] /\ pc'[w] = place
      /\ \A v \in Writer \ {w} : todo'[v] = todo[v] /\ pc'[v] = pc[v]
  BY <1>1, <1>2, <1>3 DEF CommandsOK, CommandsTyped
<1> QED
  BY <1>1, <1>4, <1>5, <1>6 DEF place

LEMMA GoesOn ==
  ASSUME CommandsOK, NEW w \in Writer, NEW s \in {0, 1}, Done(w, s), todo[w] # <<>>
  PROVE  /\ todo' \in [Writer -> Seq(Paths \cup {NoPath})] /\ todo'[w] = Tail(todo[w])
         /\ pc' \in [Writer -> Steps] /\ pc'[w] \in {"stat", "argument", "done"}
         /\ pc'[w] = "stat" <=> todo'[w] # <<>>
         /\ pc'[w] = "done" => Is(w, "touch")
         /\ status' \in [Writer -> {0, 1}] /\ status'[w] = IF s = 0 THEN status[w] ELSE 1
         /\ \A v \in Writer \ {w} : todo'[v] = todo[v] /\ pc'[v] = pc[v] /\ status'[v] = status[v]
<1>1. todo[w] \in Seq(Paths \cup {NoPath}) /\ status[w] \in {0, 1}
  BY DEF CommandsOK, CommandsTyped
<1>2. /\ Tail(todo[w]) \in Seq(Paths \cup {NoPath})
      /\ Len(todo[w]) > 1 <=> Tail(todo[w]) # <<>>
  BY <1>1, TailSeq
<1> DEFINE place == IF Len(todo[w]) > 1 THEN "stat"
                    ELSE IF Is(w, "touch") /\ s = 1 /\ "-q" \notin opts[w] THEN "done"
                    ELSE "argument"
<1>3. /\ place \in {"stat", "argument", "done"}
      /\ place = "stat" <=> Len(todo[w]) > 1
      /\ place = "done" => Is(w, "touch")
  OBVIOUS
<1>4. /\ todo' = [todo EXCEPT ![w] = Tail(todo[w])]
      /\ status' = [status EXCEPT ![w] = IF s = 0 THEN status[w] ELSE 1]
      /\ pc' = [pc EXCEPT ![w] = place]
  BY DEF Done
<1> HIDE DEF place
<1> QED
  BY <1>1, <1>2, <1>3, <1>4 DEF CommandsOK, CommandsTyped, Steps

LEMMA ListedTaken ==
  ASSUME CommandsOK, NEW w \in Writer, TakeLine(w)
  PROVE  /\ stdin' \in [Writer -> Seq(Line)] /\ file' \in [Writer -> Seq(Line)]
         /\ Head(Listed(w)).path \in Paths \cup {NoPath}
         /\ \/ /\ from[w] = "stdin" /\ stdin[w] # <<>> /\ Listed(w) = stdin[w]
               /\ stdin' = [stdin EXCEPT ![w] = Tail(stdin[w])] /\ file' = file
            \/ /\ from[w] = "file" /\ file[w] # <<>> /\ Listed(w) = file[w]
               /\ file' = [file EXCEPT ![w] = Tail(file[w])] /\ stdin' = stdin
<1>1. stdin[w] \in Seq(Line) /\ file[w] \in Seq(Line) /\ from[w] \in {"none", "stdin", "file"}
  BY DEF CommandsOK, CommandsTyped
<1>2. from[w] # "none"
  BY DEF TakeLine, Listed
<1>3. Listed(w) \in Seq(Line) /\ Listed(w) # <<>>
  BY <1>1 DEF TakeLine, Listed
<1>4. Head(Listed(w)) \in Line /\ Tail(Listed(w)) \in Seq(Line)
  BY <1>3, HeadTailProperties
<1> QED
  BY <1>1, <1>2, <1>3, <1>4 DEF TakeLine, Listed, Line, CommandsOK, CommandsTyped

LEMMA RestTyped ==
  ASSUME NEW lines \in Seq(Line), lines # <<>>
  PROVE  /\ Rest(lines) \in Seq(Line)
         /\ Len(Rest(lines)) \in {Len(lines), Len(lines) - 1}
         /\ Len(Head(lines).chunks) <= 1 => Rest(lines) = Tail(lines)
         /\ Len(Head(lines).chunks) > 1 =>
              /\ Len(Rest(lines)) = Len(lines)
              /\ Rest(lines)[1] = [path |-> NoPath, chunks |-> Tail(Head(lines).chunks)]
              /\ \A j \in 2..Len(lines) : Rest(lines)[j] = lines[j]
<1>1. /\ Tail(lines) \in Seq(Line) /\ Len(Tail(lines)) = Len(lines) - 1 /\ Len(lines) \in Nat
      /\ Head(lines) \in Line /\ Len(lines) # 0
      /\ \A j \in 1..(Len(lines) - 1) : Tail(lines)[j] = lines[j + 1]
  BY HeadTailProperties, LenProperties, EmptySeq
<1>2. Head(lines).chunks \in Seq({"y", "n"}) /\ Len(Head(lines).chunks) \in Nat
  BY <1>1, LenProperties DEF Line
<1>3. CASE Len(Head(lines).chunks) <= 1
  <2>1. Rest(lines) = Tail(lines)
    BY <1>3 DEF Rest
  <2>2. ~ (Len(Head(lines).chunks) > 1)
    BY <1>2, <1>3
  <2> QED
    BY <1>1, <2>1, <2>2
<1>4. CASE Len(Head(lines).chunks) > 1
  <2> DEFINE rest == [path |-> NoPath, chunks |-> Tail(Head(lines).chunks)]
  <2>1. rest \in Line
    <3>1. Tail(Head(lines).chunks) \in Seq({"y", "n"})
      BY <1>2, <1>4, HeadTailProperties, EmptySeq
    <3> QED
      BY <3>1 DEF Line
  <2>2. Rest(lines) = <<rest>> \o Tail(lines)
    BY <1>2, <1>4 DEF Rest
  <2> HIDE DEF rest
  <2>3. <<rest>> \in Seq(Line) /\ Len(<<rest>>) = 1 /\ <<rest>>[1] = rest
    BY <2>1
  <2>4. /\ Rest(lines) \in Seq(Line) /\ Len(Rest(lines)) = Len(lines)
        /\ \A j \in 1..Len(lines) :
             Rest(lines)[j] = IF j <= 1 THEN <<rest>>[j] ELSE Tail(lines)[j - 1]
    BY <1>1, <2>2, <2>3, ConcatProperties
  <2>5. \A j \in 2..Len(lines) : Rest(lines)[j] = lines[j]
    BY <1>1, <2>4
  <2>6. Rest(lines)[1] = rest
    BY <1>1, <2>3, <2>4
  <2> QED
    BY <1>2, <1>4, <2>4, <2>5, <2>6 DEF rest
<1>5. Len(Head(lines).chunks) <= 1 \/ Len(Head(lines).chunks) > 1
  BY <1>2
<1> QED
  BY <1>3, <1>4, <1>5, Zenon

(* A step of a command leaves the others where they are. *)
LEMMA OthersInStep ==
  ASSUME CommandsOK, NEW w \in Writer, job' = job,
         \A v \in Writer \ {w} : /\ pc'[v] = pc[v] /\ todo'[v] = todo[v]
                                 /\ opts'[v] = opts[v] /\ stdin'[v] = stdin[v],
         CommandsTyped', InStep(w)'
  PROVE  CommandsOK'
<1>1. ASSUME NEW v \in Writer, v # w PROVE InStep(v)'
  BY <1>1 DEF CommandsOK, InStep, Is
<1> QED
  BY <1>1 DEF CommandsOK

LEMMA OptionStep ==
  ASSUME CommandsOK, NEW w \in Writer, Option(w)
  PROVE  /\ CommandsOK' /\ todo'[w] = todo[w] /\ pc'[w] \in {"argument", "done"}
         /\ status'[w] = status[w] \/ status'[w] = 1 \/ Head(left[w]).option = "-?"
         /\ from'[w] = from[w] \/ from'[w] = "stdin" \/ from'[w] = "file" \/ from'[w] = "none"
<1>1. /\ left[w] \in Seq(Argument) /\ left[w] # <<>> /\ Tail(left[w]) \in Seq(Argument)
      /\ job' = job /\ todo' = todo /\ stdin' = stdin /\ file' = file /\ named' = named
      /\ asked' = asked /\ left' = [left EXCEPT ![w] = Tail(left[w])] /\ pc[w] = "argument"
  BY TailSeq DEF Option, input, CommandsOK, CommandsTyped
<1> DEFINE o == Head(left[w]).option
<1>2. o \in Known(job[w].program) \ {"-z", "-z="} => o \in {"-p", "-c", "-q"}
  BY DEF Known, CommandsOK, CommandsTyped, Job
<1>3. /\ opts' \in [Writer -> SUBSET {"-p", "-c", "-q"}]
      /\ from' \in [Writer -> {"none", "stdin", "file"}]
      /\ pc' \in [Writer -> Steps] /\ status' \in [Writer -> {0, 1}]
      /\ pc'[w] \in {"argument", "done"}
      /\ status'[w] = status[w] \/ status'[w] = 1 \/ o = "-?"
      /\ \A v \in Writer \ {w} : pc'[v] = pc[v] /\ opts'[v] = opts[v]
  <2>1. CASE /\ o \in Known(job[w].program) \ {"-z", "-z="}
             /\ opts' = [opts EXCEPT ![w] = @ \cup {o}] /\ UNCHANGED <<from, pc, status>>
    BY <1>1, <1>2, <2>1 DEF CommandsOK, CommandsTyped
  <2>2. CASE /\ from' = [from EXCEPT ![w] = IF o = "-z" THEN "stdin"
                                            ELSE IF job[w].hasFile THEN "file" ELSE "none"]
             /\ UNCHANGED <<opts, pc, status>>
    BY <1>1, <2>2 DEF CommandsOK, CommandsTyped
  <2>3. CASE Exit(w, 1) /\ UNCHANGED <<opts, from>>
    BY <1>1, <2>3 DEF CommandsOK, CommandsTyped, Exit, Steps
  <2>4. CASE o = "-?" /\ Exit(w, 0) /\ UNCHANGED <<opts, from>>
    BY <1>1, <2>4 DEF CommandsOK, CommandsTyped, Exit, Steps
  <2> QED
    BY <2>1, <2>2, <2>3, <2>4 DEF Option
<1>4. CommandsTyped'
  BY <1>1, <1>3 DEF CommandsOK, CommandsTyped
<1>5. InStep(w)'
  BY <1>1, <1>3 DEF CommandsOK, InStep, Is
<1>6. CommandsOK'
  BY <1>1, <1>3, <1>4, <1>5, OthersInStep
<1> QED
  BY <1>1, <1>3, <1>6 DEF CommandsOK, CommandsTyped

LEMMA NameStep ==
  ASSUME CommandsOK, NEW w \in Writer, TakeName(w)
  PROVE  CommandsOK' /\ Head(left[w]).path \in Paths
<1>1. /\ left[w] \in Seq(Argument) /\ left[w] # <<>> /\ Tail(left[w]) \in Seq(Argument)
      /\ Head(left[w]) \in Argument
      /\ job' = job /\ opts' = opts /\ from' = from /\ stdin' = stdin /\ file' = file
      /\ status' = status /\ asked' = asked /\ left' = [left EXCEPT ![w] = Tail(left[w])]
  BY TailSeq DEF TakeName, input, CommandsOK, CommandsTyped
<1> DEFINE p == Head(left[w]).path
<1>2. p \in Paths /\ Begin(w, p)
  BY <1>1 DEF Argument, TakeName
<1>3. /\ todo' \in [Writer -> Seq(Paths \cup {NoPath})] /\ todo'[w] # <<>>
      /\ pc' \in [Writer -> Steps] /\ named' \in [Writer -> BOOLEAN]
      /\ \A v \in Writer \ {w} : todo'[v] = todo[v] /\ pc'[v] = pc[v]
      /\ pc'[w] = CASE Is(w, "makdir") -> "stat"
                    [] Is(w, "touch") -> "open"
                    [] Is(w, "del") /\ "-p" \in opts[w] -> "answer"
                    [] OTHER -> "delete"
      /\ ~ Is(w, "makdir") => todo'[w] = <<p>>
  BY <1>2, Begins
<1>4. CommandsTyped'
  BY <1>1, <1>3 DEF CommandsOK, CommandsTyped
<1>5. InStep(w)'
  <2>1. ~ Is(w, "makdir") => Len(todo'[w]) <= 1
    <3>1. Len(<<p>>) <= 1
      OBVIOUS
    <3> QED
      BY <1>3, <3>1, Zenon
  <2>2. job[w].program \in {"makdir", "del", "deldir", "touch"}
    BY DEF CommandsOK, CommandsTyped, Job
  <2> QED
    BY <1>1, <1>3, <2>1, <2>2 DEF CommandsOK, InStep, Is
<1> QED
  BY <1>1, <1>2, <1>3, <1>4, <1>5, OthersInStep

LEMMA LineStep ==
  ASSUME CommandsOK, NEW w \in Writer, TakeLine(w)
  PROVE  CommandsOK'
<1>1. /\ job' = job /\ left' = left /\ opts' = opts /\ from' = from
      /\ status' = status /\ asked' = asked
  BY DEF TakeLine
<1> DEFINE p == Head(Listed(w)).path
<1>2. /\ stdin' \in [Writer -> Seq(Line)] /\ file' \in [Writer -> Seq(Line)]
      /\ p \in Paths \cup {NoPath}
      /\ \A v \in Writer \ {w} : stdin'[v] = stdin[v]
      /\ Len(stdin'[w]) <= Len(job'[w].stdin)
  <2>1. /\ stdin' \in [Writer -> Seq(Line)] /\ file' \in [Writer -> Seq(Line)]
        /\ p \in Paths \cup {NoPath}
        /\ \/ stdin[w] # <<>> /\ stdin' = [stdin EXCEPT ![w] = Tail(stdin[w])]
           \/ stdin' = stdin
    BY ListedTaken
  <2>2. /\ stdin[w] \in Seq(Line) /\ Len(stdin[w]) <= Len(job[w].stdin)
        /\ Len(job[w].stdin) \in Nat
    BY LenProperties DEF CommandsOK, CommandsTyped, InStep, Job
  <2>3. stdin[w] # <<>> => Len(Tail(stdin[w])) <= Len(job[w].stdin)
    BY <2>2, TailSeq
  <2> QED
    BY <1>1, <2>1, <2>2, <2>3 DEF CommandsOK, CommandsTyped
<1>3. CASE p = <<>>
  <2>1. todo' = todo /\ pc' = pc /\ named' = named /\ pc[w] = "argument"
    BY <1>3 DEF TakeLine
  <2>2. CommandsTyped' /\ InStep(w)'
    BY <1>1, <1>2, <2>1 DEF CommandsOK, CommandsTyped, InStep, Is
  <2> QED
    BY <1>1, <1>2, <2>1, <2>2, OthersInStep
<1>4. CASE p # <<>>
  <2>1. /\ todo' \in [Writer -> Seq(Paths \cup {NoPath})] /\ todo'[w] # <<>>
        /\ pc' \in [Writer -> Steps] /\ named' \in [Writer -> BOOLEAN]
        /\ \A v \in Writer \ {w} : todo'[v] = todo[v] /\ pc'[v] = pc[v]
        /\ pc'[w] = CASE Is(w, "makdir") -> "stat"
                      [] Is(w, "touch") -> "open"
                      [] Is(w, "del") /\ "-p" \in opts[w] -> "answer"
                      [] OTHER -> "delete"
        /\ ~ Is(w, "makdir") => todo'[w] = <<p>>
    BY <1>2, <1>4, Begins DEF TakeLine
  <2>2. CommandsTyped'
    BY <1>1, <1>2, <2>1 DEF CommandsOK, CommandsTyped
  <2>3. InStep(w)'
    <3>1. ~ Is(w, "makdir") => Len(todo'[w]) <= 1
      <4>1. Len(<<p>>) <= 1
        OBVIOUS
      <4> QED
        BY <2>1, <4>1, Zenon
    <3>2. job[w].program \in {"makdir", "del", "deldir", "touch"}
      BY DEF CommandsOK, CommandsTyped, Job
    <3> QED
      BY <1>1, <1>2, <2>1, <3>1, <3>2 DEF CommandsOK, InStep, Is
  <2> QED
    BY <1>1, <1>2, <2>1, <2>2, <2>3, OthersInStep
<1> QED
  BY <1>3, <1>4

LEMMA FinishStep ==
  ASSUME CommandsOK, NEW w \in Writer, Finish(w)
  PROVE  CommandsOK'
<1>1. /\ job' = job /\ left' = left /\ opts' = opts /\ from' = from /\ stdin' = stdin
      /\ file' = file /\ todo' = todo /\ named' = named /\ asked' = asked
      /\ pc' = [pc EXCEPT ![w] = "done"]
      /\ \E s \in {0, 1} : status' = [status EXCEPT ![w] = s]
  BY DEF Finish, Exit, input, CommandsOK, CommandsTyped
<1>2. CommandsTyped' /\ pc'[w] = "done" /\ \A v \in Writer \ {w} : pc'[v] = pc[v]
  BY <1>1 DEF CommandsOK, CommandsTyped, Steps
<1>3. InStep(w)'
  BY <1>1, <1>2 DEF CommandsOK, InStep, Is
<1> QED
  BY <1>1, <1>2, <1>3, OthersInStep

(* A command that is done with a path, or goes to its next step with it. *)
LEMMA DoneStep ==
  ASSUME CommandsOK, NEW w \in Writer, NEW s \in {0, 1}, Done(w, s), todo[w] # <<>>,
         job' = job, left' = left, opts' = opts, from' = from, file' = file, named' = named,
         asked' \in [Writer -> Nat], stdin' \in [Writer -> Seq(Line)],
         \A v \in Writer \ {w} : stdin'[v] = stdin[v],
         Len(stdin'[w]) <= Len(job[w].stdin)
  PROVE  CommandsOK'
<1>1. /\ todo' \in [Writer -> Seq(Paths \cup {NoPath})] /\ todo'[w] = Tail(todo[w])
      /\ pc' \in [Writer -> Steps] /\ pc'[w] \in {"stat", "argument", "done"}
      /\ pc'[w] = "stat" <=> todo'[w] # <<>>
      /\ status' \in [Writer -> {0, 1}]
      /\ \A v \in Writer \ {w} : todo'[v] = todo[v] /\ pc'[v] = pc[v]
  BY GoesOn
<1>2. CommandsTyped'
  BY <1>1 DEF CommandsOK, CommandsTyped
<1>3. ~ Is(w, "makdir") => todo'[w] = <<>>
  <2>1. todo[w] \in Seq(Paths \cup {NoPath})
    BY DEF CommandsOK, CommandsTyped
  <2>2. ~ Is(w, "makdir") => ~ (Len(todo[w]) > 1)
    BY <2>1, LenProperties DEF CommandsOK, InStep
  <2> QED
    BY <1>1, <2>1, <2>2, TailSeq
<1>4. InStep(w)'
  BY <1>1, <1>3, EmptySeq DEF CommandsOK, InStep, Is
<1> QED
  BY <1>1, <1>2, <1>4, OthersInStep

LEMMA GotoStep ==
  ASSUME CommandsOK, NEW w \in Writer, NEW where \in {"delete", "make", "create"},
         Goto(w, where), todo[w] # <<>>,
         where = "delete" => Is(w, "del"), where = "make" => Is(w, "makdir"),
         where = "create" => Is(w, "touch"),
         job' = job, left' = left, opts' = opts, from' = from, file' = file, named' = named,
         asked' \in [Writer -> Nat], stdin' \in [Writer -> Seq(Line)],
         \A v \in Writer \ {w} : stdin'[v] = stdin[v],
         Len(stdin'[w]) <= Len(job[w].stdin)
  PROVE  CommandsOK'
<1>1. /\ todo' = todo /\ status' = status /\ pc' \in [Writer -> Steps] /\ pc'[w] = where
      /\ \A v \in Writer \ {w} : pc'[v] = pc[v]
  BY DEF Goto, CommandsOK, CommandsTyped, Steps
<1>2. CommandsTyped'
  BY <1>1 DEF CommandsOK, CommandsTyped
<1>3. InStep(w)'
  BY <1>1 DEF CommandsOK, InStep, Is
<1> QED
  BY <1>1, <1>2, <1>3, OthersInStep

-----------------------------------------------------------------------------
(* Every step keeps the tree and the commands in order. *)
LEMMA AnswerStep ==
  ASSUME CommandsOK, NEW w \in Writer, Answer(w)
  PROVE  CommandsOK'
<1>1. /\ Is(w, "del") /\ todo[w] # <<>> /\ stdin[w] \in Seq(Line)
      /\ Len(stdin[w]) <= Len(job[w].stdin)
      /\ Len(stdin[w]) \in Nat /\ Len(job[w].stdin) \in Nat
  BY LenProperties DEF Answer, CommandsOK, CommandsTyped, InStep, Job
<1>2. asked' \in [Writer -> Nat]
  <2> DEFINE n == Len(job[w].stdin) - Len(stdin[w]) + 1
  <2>1. n \in Nat
    BY <1>1
  <2>2. asked' = [asked EXCEPT ![w] = n]
    BY DEF Answer
  <2> HIDE DEF n
  <2> QED
    BY <2>1, <2>2 DEF CommandsOK, CommandsTyped
<1> DEFINE rest == IF stdin[w] = <<>> THEN stdin[w] ELSE Rest(stdin[w])
<1>3. rest \in Seq(Line) /\ Len(rest) <= Len(job[w].stdin)
  <2>1. CASE stdin[w] = <<>>
    BY <1>1, <2>1
  <2>2. CASE stdin[w] # <<>>
    <3>1. /\ Rest(stdin[w]) \in Seq(Line)
          /\ Len(Rest(stdin[w])) \in {Len(stdin[w]), Len(stdin[w]) - 1}
      BY <1>1, <2>2, RestTyped
    <3> QED
      BY <1>1, <2>2, <3>1
  <2> QED
    BY <2>1, <2>2
<1>4. /\ stdin' \in [Writer -> Seq(Line)] /\ stdin'[w] = rest
      /\ \A v \in Writer \ {w} : stdin'[v] = stdin[v]
  <2>1. stdin' = [stdin EXCEPT ![w] = rest]
    BY DEF Answer
  <2> HIDE DEF rest
  <2> QED
    BY <1>3, <2>1 DEF CommandsOK, CommandsTyped
<1> HIDE DEF rest
<1>5. Len(stdin'[w]) <= Len(job[w].stdin)
  BY <1>3, <1>4
<1>6. /\ job' = job /\ left' = left /\ opts' = opts /\ from' = from /\ file' = file
      /\ named' = named
      /\ Goto(w, "delete") \/ Done(w, 0)
  BY DEF Answer
<1>7. CASE Goto(w, "delete")
  BY <1>1, <1>2, <1>4, <1>5, <1>6, <1>7, GotoStep
<1>8. CASE Done(w, 0)
  BY <1>1, <1>2, <1>4, <1>5, <1>6, <1>8, DoneStep
<1> QED
  BY <1>6, <1>7, <1>8

(* The calls: what they do to the tree, and where the command goes then. *)
LEMMA CallStep ==
  ASSUME CommandsOK, TreeOK, NEW w \in Writer,
         Delete(w) \/ Stat(w) \/ Make(w) \/ Open(w) \/ Create(w)
  PROVE  CommandsOK' /\ TreeOK'
<1>1. /\ job' = job /\ left' = left /\ opts' = opts /\ from' = from /\ stdin' = stdin
      /\ file' = file /\ named' = named /\ asked' = asked
  BY DEF Delete, Stat, Make, Open, Create, input
<1>2. /\ todo[w] # <<>> /\ asked' \in [Writer -> Nat] /\ stdin' \in [Writer -> Seq(Line)]
      /\ Len(stdin'[w]) <= Len(job[w].stdin)
      /\ \A v \in Writer \ {w} : stdin'[v] = stdin[v]
  BY <1>1 DEF Delete, Stat, Make, Open, Create, CommandsOK, CommandsTyped, InStep
<1>3. \/ \E s \in {0, 1} : Done(w, s)
      \/ Goto(w, "make") /\ Is(w, "makdir")
      \/ Goto(w, "create") /\ Is(w, "touch")
  BY DEF Delete, Stat, Make, Open, Create, CommandsOK, InStep
<1>4. CommandsOK'
  <2>1. ASSUME NEW s \in {0, 1}, Done(w, s) PROVE CommandsOK'
    BY <1>1, <1>2, <2>1, DoneStep
  <2>2. CASE Goto(w, "make") /\ Is(w, "makdir")
    BY <1>1, <1>2, <2>2, GotoStep
  <2>3. CASE Goto(w, "create") /\ Is(w, "touch")
    BY <1>1, <1>2, <2>3, GotoStep
  <2> QED
    BY <1>3, <2>1, <2>2, <2>3
<1>5. \/ UNCHANGED files
      \/ \E kind \in {"file", "dir"} : CanCreate(Now(w)) /\ Created(Now(w), kind)
      \/ Removed(Now(w)) /\ (IsFile(Now(w)) \/ Children(Now(w)) = {})
  BY DEF Delete, Stat, Make, Open, Create
<1>6. TreeOK'
  <2>1. CASE UNCHANGED files
    BY <2>1 DEF TreeOK, files, WellFormed
  <2>2. ASSUME NEW kind \in {"file", "dir"}, CanCreate(Now(w)), Created(Now(w), kind)
        PROVE  TreeOK'
    <3>1. WellFormed(tree)' /\ stable' = stable /\ DOMAIN tree' = DOMAIN tree \cup {Now(w)}
      BY <2>2, CreatedTree DEF TreeOK
    <3> QED
      BY <3>1 DEF TreeOK
  <2>3. CASE Removed(Now(w)) /\ (IsFile(Now(w)) \/ Children(Now(w)) = {})
    <3>1. /\ WellFormed(tree)' /\ stable' = stable \ {Now(w)}
          /\ DOMAIN tree' = DOMAIN tree \ {Now(w)}
      BY <2>3, RemovedTree DEF TreeOK
    <3> QED
      BY <3>1 DEF TreeOK
  <2> QED
    BY <1>5, <2>1, <2>2, <2>3
<1> QED
  BY <1>4, <1>6

LEMMA WriterStep ==
  ASSUME CommandsOK, TreeOK, NEW w \in Writer, Write(w)
  PROVE  CommandsOK' /\ TreeOK'
<1>1. CASE Delete(w) \/ Stat(w) \/ Make(w) \/ Open(w) \/ Create(w)
  BY <1>1, CallStep
<1>2. CASE Option(w) \/ TakeName(w) \/ TakeLine(w) \/ Finish(w) \/ Answer(w)
  <2>1. TreeOK'
    BY <1>2 DEF Option, TakeName, TakeLine, Finish, Answer, files, TreeOK, WellFormed
  <2>2. CommandsOK'
    BY <1>2, OptionStep, NameStep, LineStep, FinishStep, AnswerStep
  <2> QED
    BY <2>1, <2>2
<1> QED
  BY <1>1, <1>2 DEF Write

(* The readers and the modules in memory leave all that alone. *)
LEMMA WhoWrites ==
  ASSUME [Next]_vars
  PROVE  UNCHANGED directoryVars \/ \E w \in Writer : Write(w)
<1>1. CASE Read
  BY <1>1 DEF Read, OpenDir, ReadBlock, NextBlock, EndOfDirectory, QidEntry, Snapshot, Header,
              Match, HeaderAgain, NameAgain, Show, ReadHeader, DirEntry, PrintNames, Descend, Ascend
<1>2. CASE Fail \/ Swap
  BY <1>2 DEF Fail, ReadFails, ModulesFail, NoMemory, Swap
<1>3. CASE \E w \in Writer : WriteStep(w)
  BY <1>3 DEF WriteStep
<1>4. CASE UNCHANGED vars
  BY <1>4 DEF vars
<1> QED
  BY <1>1, <1>2, <1>3, <1>4 DEF Next

LEMMA DirectoryAtStart ==
  ASSUME Init
  PROVE  CommandsOK /\ TreeOK
<1>1. PICK s \in Situations : DirectoryInit(s.tree, s.jobs)
  BY DEF Init
<1>2. WellFormed(s.tree) /\ s.jobs \in [Writer -> Job]
  BY ScanAssumption
<1>3. /\ tree = s.tree /\ stable = DOMAIN tree /\ job = s.jobs
      /\ pc = [w \in Writer |-> "argument"] /\ left = [w \in Writer |-> job[w].args]
      /\ opts = [w \in Writer |-> {}] /\ from = [w \in Writer |-> "none"]
      /\ stdin = [w \in Writer |-> job[w].stdin] /\ file = [w \in Writer |-> job[w].file]
      /\ todo = [w \in Writer |-> <<>>] /\ named = [w \in Writer |-> FALSE]
      /\ status = [w \in Writer |-> 0] /\ asked = [w \in Writer |-> 0]
  BY <1>1 DEF DirectoryInit
<1>4. TreeOK
  BY <1>2, <1>3 DEF TreeOK
<1>5. \A w \in Writer : /\ job[w].args \in Seq(Argument) /\ job[w].stdin \in Seq(Line)
                        /\ job[w].file \in Seq(Line)
  BY <1>2, <1>3 DEF Job
<1>6. CommandsTyped
  <2>1. <<>> \in Seq(Paths \cup {NoPath})
    BY EmptySeq
  <2>2. named \in [Writer -> BOOLEAN]
    BY <1>3
  <2> QED
    BY <1>2, <1>3, <1>5, <2>1, <2>2 DEF CommandsTyped, Steps
<1>7. ASSUME NEW w \in Writer PROVE InStep(w)
  <2>1. Len(<<>>) <= 1 /\ Len(job[w].stdin) \in Nat
    BY <1>5, LenProperties, EmptySeq
  <2>2. pc[w] = "argument" /\ todo[w] = <<>> /\ stdin[w] = job[w].stdin
    BY <1>3
  <2>3. Len(todo[w]) <= 1
    BY <2>1, <2>2
  <2>4. Len(stdin[w]) <= Len(job[w].stdin)
    BY <2>1, <2>2
  <2> QED
    BY <2>2, <2>3, <2>4 DEF InStep
<1> QED
  BY <1>4, <1>6, <1>7 DEF CommandsOK

LEMMA DirectoryStep ==
  ASSUME CommandsOK, TreeOK, [Next]_vars
  PROVE  CommandsOK' /\ TreeOK'
<1>1. CASE UNCHANGED directoryVars
  BY <1>1 DEF directoryVars, files, command, CommandsOK, CommandsTyped, InStep, Is, TreeOK,
              WellFormed
<1>2. CASE \E w \in Writer : Write(w)
  BY <1>2, WriterStep
<1> QED
  BY <1>1, <1>2, WhoWrites

LEMMA DirectoryInvariant == Spec => [](CommandsOK /\ TreeOK)
<1>1. Init => CommandsOK /\ TreeOK
  BY DirectoryAtStart
<1>2. CommandsOK /\ TreeOK /\ [Next]_vars => (CommandsOK /\ TreeOK)'
  BY DirectoryStep
<1> QED
  BY <1>1, <1>2, PTL DEF Spec

(* What the tree and the commands are at any time: whatever makdir, touch,  *)
(* del and deldir do at once, every path is in a directory, behind its dot, *)
(* in a slot of its own: what the file manager promises those who read.     *)
THEOREM DirectoryTypes == Spec => []DirectoryTypeOK
<1>1. CommandsOK /\ TreeOK => DirectoryTypeOK
  <2>1. ASSUME CommandsOK, TreeOK, NEW w \in Writer
        PROVE  /\ pc[w] \in Steps
               /\ opts[w] \subseteq {"-p", "-c", "-q"} /\ from[w] \in {"none", "stdin", "file"}
               /\ Range(todo[w]) \subseteq Paths \cup {NoPath}
               /\ status[w] \in {0, 1} /\ asked[w] \in Nat
    BY <2>1 DEF CommandsOK, CommandsTyped, Range
  <2>2. ASSUME CommandsOK, NEW w \in Writer PROVE named[w] \in BOOLEAN
    BY <2>2, Zenon DEF CommandsOK, CommandsTyped
  <2> QED
    BY <2>1, <2>2 DEF DirectoryTypeOK, TreeOK, Steps
<1> QED
  BY <1>1, DirectoryInvariant, PTL

-----------------------------------------------------------------------------
(* What is still to come of the arguments, or of a list, are the last ones. *)
Behind(rest, all) ==
  /\ Len(rest) <= Len(all)
  /\ \A j \in 1..Len(rest) : rest[j] = all[Len(all) - Len(rest) + j]

Taken(rest, all) == {all[i] : i \in 1..(Len(all) - Len(rest))}

LEMMA NextTaken ==
  ASSUME NEW S, NEW rest \in Seq(S), NEW all \in Seq(S), Behind(rest, all), rest # <<>>
  PROVE  /\ Behind(Tail(rest), all) /\ Head(rest) \in Range(all)
         /\ Taken(Tail(rest), all) \subseteq Taken(rest, all) \cup {Head(rest)}
<1> DEFINE n == Len(all)
           k == Len(rest)
<1>1. /\ n \in Nat /\ k \in Nat \ {0} /\ k <= n /\ rest[1] = Head(rest)
      /\ \A j \in 1..k : rest[j] = all[n - k + j]
      /\ Len(Tail(rest)) = k - 1 /\ \A j \in 1..(k - 1) : Tail(rest)[j] = rest[j + 1]
  BY LenProperties, TailSeq DEF Behind
<1>2. DOMAIN all = 1..n /\ Head(rest) = all[n - k + 1] /\ n - k + 1 \in 1..n
  BY <1>1
<1> HIDE DEF n, k
<1>3. \A j \in 1..(k - 1) : Tail(rest)[j] = all[n - (k - 1) + j]
  <2>1. ASSUME NEW j \in 1..(k - 1) PROVE Tail(rest)[j] = all[n - (k - 1) + j]
    <3>1. j + 1 \in 1..k /\ n - k + (j + 1) = n - (k - 1) + j
      BY <1>1
    <3>2. rest[j + 1] = all[n - k + (j + 1)]
      BY <1>1, <3>1
    <3> QED
      BY <1>1, <3>1, <3>2
  <2> QED
    BY <2>1
<1>4. Behind(Tail(rest), all)
  <2>1. k - 1 <= n
    BY <1>1
  <2> QED
    BY <1>1, <1>3, <2>1 DEF Behind, n
<1>5. Head(rest) \in Range(all)
  BY <1>2 DEF Range
<1>6. Taken(Tail(rest), all) \subseteq Taken(rest, all) \cup {Head(rest)}
  <2>1. ASSUME NEW i \in 1..(n - (k - 1)) PROVE all[i] \in Taken(rest, all) \cup {Head(rest)}
    <3>1. CASE i \in 1..(n - k)
      BY <3>1 DEF Taken, n, k
    <3>2. CASE i \notin 1..(n - k)
      <4>1. i = n - k + 1
        BY <1>1, <3>2
      <4> QED
        BY <1>2, <4>1
    <3> QED
      BY <3>1, <3>2
  <2> QED
    BY <1>1, <2>1 DEF Taken, n
<1> QED
  BY <1>4, <1>5, <1>6

LEMMA AllTaken ==
  ASSUME NEW S, NEW all \in Seq(S)
  PROVE  /\ Behind(all, all) /\ Taken(all, all) = {}
         /\ Taken(<<>>, all) = Range(all)
<1>1. Len(all) \in Nat /\ DOMAIN all = 1..Len(all) /\ Len(<<>>) = 0
  BY LenProperties, EmptySeq
<1> DEFINE n == Len(all)
<1>2. \A j \in 1..n : n - n + j = j
  BY <1>1
<1>3. Behind(all, all)
  BY <1>1, <1>2 DEF Behind
<1>4. 1..(n - n) = {} /\ n - 0 = n
  BY <1>1
<1>5. Taken(all, all) = {}
  BY <1>4 DEF Taken
<1>6. Taken(<<>>, all) = Range(all)
  BY <1>1, <1>4 DEF Taken, Range
<1> QED
  BY <1>3, <1>5, <1>6

(* The standard input of del -p: its next line may be what fgets() left of  *)
(* an answer, which comes from behind the seventh character.                *)
LeftOver(line, typed) ==
  /\ line.path = NoPath
  /\ \A c \in DOMAIN line.chunks :
       \E d \in DOMAIN typed.chunks : d > 1 /\ line.chunks[c] = typed.chunks[d]

Remains(lines, typed) ==
  /\ Len(lines) <= Len(typed)
  /\ \A j \in 1..Len(lines) :
       \/ lines[j] = typed[Len(typed) - Len(lines) + j]
       \/ j = 1 /\ LeftOver(lines[1], typed[Len(typed) - Len(lines) + 1])

LEMMA RemainsTail ==
  ASSUME NEW lines \in Seq(Line), NEW typed \in Seq(Line), Remains(lines, typed), lines # <<>>
  PROVE  Remains(Tail(lines), typed)
<1> DEFINE n == Len(typed)
           k == Len(lines)
<1>1. /\ n \in Nat /\ k \in Nat \ {0} /\ k <= n
      /\ \A j \in 1..k : j # 1 => lines[j] = typed[n - k + j]
      /\ Len(Tail(lines)) = k - 1 /\ \A j \in 1..(k - 1) : Tail(lines)[j] = lines[j + 1]
  BY LenProperties, TailSeq DEF Remains
<1> HIDE DEF n, k
<1>2. ASSUME NEW j \in 1..(k - 1) PROVE Tail(lines)[j] = typed[n - (k - 1) + j]
  <2>1. j + 1 \in 1..k /\ j + 1 # 1 /\ n - k + (j + 1) = n - (k - 1) + j
    BY <1>1
  <2>2. lines[j + 1] = typed[n - k + (j + 1)]
    BY <1>1, <2>1
  <2> QED
    BY <1>1, <2>1, <2>2
<1>3. k - 1 <= n
  BY <1>1
<1> QED
  BY <1>1, <1>2, <1>3 DEF Remains, n

LEMMA RemainsRest ==
  ASSUME NEW lines \in Seq(Line), NEW typed \in Seq(Line), Remains(lines, typed), lines # <<>>
  PROVE  Remains(Rest(lines), typed)
<1> DEFINE rest == [path |-> NoPath, chunks |-> Tail(Head(lines).chunks)]
<1>1. Head(lines) \in Line /\ lines[1] = Head(lines)
  BY TailSeq
<1>2. Head(lines).chunks \in Seq({"y", "n"}) /\ Len(Head(lines).chunks) \in Nat
  BY <1>1, LenProperties DEF Line
<1>3. CASE Len(Head(lines).chunks) <= 1
  BY <1>3, RestTyped, RemainsTail
<1>4. CASE Len(Head(lines).chunks) > 1
  <2> DEFINE n == Len(typed)
             k == Len(lines)
             head == typed[n - k + 1]
  <2>1. /\ Len(Rest(lines)) = k /\ Rest(lines)[1] = rest
        /\ \A j \in 2..k : Rest(lines)[j] = lines[j]
    BY <1>4, RestTyped
  <2>2. /\ n \in Nat /\ k \in Nat \ {0} /\ k <= n
        /\ \A j \in 1..k : j # 1 => lines[j] = typed[n - k + j]
        /\ lines[1] = head \/ LeftOver(lines[1], head)
    BY LenProperties, TailSeq DEF Remains
  <2> DEFINE chunks == Head(lines).chunks
  <2>3. /\ Tail(chunks) \in Seq({"y", "n"}) /\ DOMAIN Tail(chunks) = 1..(Len(chunks) - 1)
        /\ \A c \in 1..(Len(chunks) - 1) : Tail(chunks)[c] = chunks[c + 1]
        /\ DOMAIN chunks = 1..Len(chunks) /\ Len(chunks) \in Nat
    <3>1. chunks # <<>>
      BY <1>4, EmptySeq
    <3> QED
      BY <1>2, <3>1, TailSeq, LenProperties
  <2>4. ASSUME NEW c \in DOMAIN Tail(chunks)
        PROVE  \E d \in DOMAIN head.chunks : d > 1 /\ Tail(chunks)[c] = head.chunks[d]
    <3>1. c + 1 \in DOMAIN chunks /\ c + 1 > 1 /\ Tail(chunks)[c] = chunks[c + 1]
      BY <2>3, <2>4
    <3>2. CASE lines[1] = head
      <4>1. chunks = head.chunks
        BY <1>1, <3>2
      <4> HIDE DEF chunks, head
      <4> QED
        BY <3>1, <4>1
    <3>3. CASE LeftOver(lines[1], head)
      BY <1>1, <3>1, <3>3 DEF LeftOver
    <3> QED
      BY <2>2, <3>2, <3>3
  <2>5. LeftOver(rest, head)
    BY <2>4 DEF LeftOver
  <2>6. LeftOver(Rest(lines)[1], head)
    BY <2>1, <2>5
  <2>7. ASSUME NEW j \in 1..k, j # 1 PROVE Rest(lines)[j] = typed[n - k + j]
    <3>1. j \in 2..k
      BY <2>2, <2>7
    <3> QED
      BY <2>1, <2>2, <2>7, <3>1
  <2> QED
    BY <2>1, <2>2, <2>6, <2>7 DEF Remains
<1>5. Len(Head(lines).chunks) <= 1 \/ Len(Head(lines).chunks) > 1
  BY <1>2
<1> QED
  BY <1>3, <1>4, <1>5

(* Where the next line comes from, as a name and as an answer. *)
LEMMA RemainsHead ==
  ASSUME NEW lines \in Seq(Line), NEW typed \in Seq(Line), Remains(lines, typed), lines # <<>>,
         NEW i, i = Len(typed) - Len(lines) + 1
  PROVE  /\ i \in DOMAIN typed
         /\ Head(lines).path \in {NoPath, typed[i].path}
         /\ Yes(lines) => \/ \E c \in DOMAIN typed[i].chunks : c > 1 /\ typed[i].chunks[c] = "y"
                          \/ IsPrefix(<<"y">>, typed[i].chunks)
<1>1. /\ Len(typed) \in Nat /\ Len(lines) \in Nat \ {0} /\ Len(lines) <= Len(typed)
      /\ DOMAIN typed = 1..Len(typed)
      /\ lines[1] = Head(lines) /\ Head(lines) \in Line
  BY LenProperties, TailSeq DEF Remains
<1>2. i \in DOMAIN typed
  BY <1>1
<1>3. Head(lines) = typed[i] \/ LeftOver(Head(lines), typed[i])
  <2>1. 1 \in 1..Len(lines)
    BY <1>1
  <2> QED
    BY <1>1, <2>1 DEF Remains
<1>4. Head(lines).path \in {NoPath, typed[i].path}
  BY <1>3 DEF LeftOver
<1>5. ASSUME Yes(lines)
      PROVE  \/ \E c \in DOMAIN typed[i].chunks : c > 1 /\ typed[i].chunks[c] = "y"
             \/ IsPrefix(<<"y">>, typed[i].chunks)
  <2> DEFINE chunks == Head(lines).chunks
  <2>1. /\ chunks \in Seq({"y", "n"}) /\ chunks # <<>> /\ chunks[1] = "y"
        /\ Len(chunks) \in Nat \ {0} /\ 1 \in DOMAIN chunks
    <3>1. chunks \in Seq({"y", "n"}) /\ chunks # <<>> /\ Head(chunks) = "y"
      BY <1>1, <1>5 DEF Line, Yes
    <3> HIDE DEF chunks
    <3>2. chunks[1] = Head(chunks) /\ Len(chunks) \in Nat \ {0} /\ DOMAIN chunks = 1..Len(chunks)
      BY <3>1, TailSeq, LenProperties
    <3> QED
      BY <3>1, <3>2
  <2>2. CASE Head(lines) = typed[i]
    <3>1. SubSeq(chunks, 1, 1) = SubSeq(<<"y">>, 1, 1)
      <4> HIDE DEF chunks
      <4>1. SubSeq(chunks, 1, 1) = <<chunks[1]>>
        BY <2>1, FirstAlone
      <4>2. <<"y">> \in Seq({"y"}) /\ <<"y">> # <<>> /\ <<"y">>[1] = "y"
        OBVIOUS
      <4>3. SubSeq(<<"y">>, 1, 1) = <<"y">>
        BY <4>2, FirstAlone
      <4> QED
        BY <2>1, <4>1, <4>3
    <3>2. Len(<<"y">>) = 1
      OBVIOUS
    <3>3. IsPrefix(<<"y">>, chunks)
      BY <2>1, <3>1, <3>2 DEF IsPrefix
    <3> QED
      BY <2>2, <3>3
  <2>3. CASE LeftOver(Head(lines), typed[i])
    BY <2>1, <2>3 DEF LeftOver
  <2> QED
    BY <1>3, <2>2, <2>3
<1> QED
  BY <1>2, <1>4, <1>5

-----------------------------------------------------------------------------
(* del -p.  At its question it has taken the name before the next line of   *)
(* its input, or has it from elsewhere; once it deletes, it has its answer. *)
NameAt(w, i) ==
  \/ Now(w) \in Argued(w) \/ from[w] = "file" \/ Now(w) = NoPath
  \/ i \in DOMAIN job[w].stdin /\ job[w].stdin[i].path = Now(w)

Consented(w) ==
  /\ asked[w] \in DOMAIN job[w].stdin
  /\ LateYes(w) \/ IsPrefix(<<"y">>, job[w].stdin[asked[w]].chunks)
  /\ NameAt(w, asked[w] - 1)

Asking(w) ==
  /\ Behind(left[w], job[w].args) /\ Remains(stdin[w], job[w].stdin)
  /\ pc[w] = "answer" => NameAt(w, Len(job[w].stdin) - Len(stdin[w]))
  /\ pc[w] = "delete" /\ Is(w, "del") /\ "-p" \in opts[w] => Consented(w)

LEMMA AskingKept ==
  ASSUME NEW w \in Writer, Asking(w), job' = job,
         pc'[w] = pc[w], todo'[w] = todo[w], opts'[w] = opts[w], from'[w] = from[w],
         left'[w] = left[w], stdin'[w] = stdin[w], asked'[w] = asked[w]
  PROVE  Asking(w)'
<1>1. Argued(w)' = Argued(w) /\ LateYes(w)' = LateYes(w) /\ Now(w)' = Now(w)
  BY DEF Argued, LateYes, Now
<1>2. ASSUME NEW i, NameAt(w, i) PROVE NameAt(w, i)'
  BY <1>1, <1>2 DEF NameAt
<1>3. Consented(w) => Consented(w)'
  <2>1. NameAt(w, asked[w] - 1) => NameAt(w, asked[w] - 1)'
    BY <1>2
  <2> QED
    BY <1>1, <2>1 DEF Consented
<1> DEFINE k == Len(job[w].stdin) - Len(stdin[w])
<1>4. NameAt(w, k) => NameAt(w, k)'
  BY <1>2
<1> QED
  BY <1>3, <1>4 DEF Asking, Is

(* One command asks on, the others are where they were. *)
LEMMA AskingName ==
  ASSUME CommandsOK, NEW w \in Writer, Asking(w), TakeName(w)
  PROVE  Asking(w)'
<1>1. /\ left[w] \in Seq(Argument) /\ left[w] # <<>> /\ job[w].args \in Seq(Argument)
      /\ Head(left[w]).path \in Paths /\ Head(left[w]).option = "name"
      /\ job' = job /\ opts' = opts /\ from' = from /\ stdin' = stdin /\ asked' = asked
      /\ left'[w] = Tail(left[w]) /\ Begin(w, Head(left[w]).path)
  BY NameStep DEF TakeName, input, CommandsOK, CommandsTyped, Job
<1> DEFINE p == Head(left[w]).path
<1>2. Behind(left[w]', job[w]'.args) /\ Head(left[w]) \in Range(job[w].args)
  BY <1>1, NextTaken DEF Asking
<1>3. p \in Argued(w)
  BY <1>1, <1>2 DEF Argued
<1>4. /\ ~ Is(w, "makdir") => todo'[w] = <<p>>
      /\ pc'[w] = CASE Is(w, "makdir") -> "stat"
                    [] Is(w, "touch") -> "open"
                    [] Is(w, "del") /\ "-p" \in opts[w] -> "answer"
                    [] OTHER -> "delete"
  BY <1>1, Begins
<1>5. pc'[w] \in {"answer", "delete"} => ~ Is(w, "makdir")
  BY <1>4 DEF Is
<1>6. pc'[w] = "answer" => NameAt(w, Len(job[w].stdin) - Len(stdin[w]))'
  <2>1. pc'[w] = "answer" => Now(w)' = p
    BY <1>4, <1>5 DEF Now
  <2>2. Argued(w)' = Argued(w)
    BY <1>1 DEF Argued
  <2> QED
    BY <1>3, <2>1, <2>2 DEF NameAt
<1>7. ~ (pc'[w] = "delete" /\ Is(w, "del") /\ "-p" \in opts[w])
  BY <1>4 DEF Is
<1> QED
  BY <1>1, <1>2, <1>6, <1>7 DEF Asking, Is

LEMMA AskingLine ==
  ASSUME CommandsOK, NEW w \in Writer, Asking(w), TakeLine(w)
  PROVE  Asking(w)'
<1> DEFINE p == Head(Listed(w)).path
           typed == job[w].stdin
<1>1. /\ job' = job /\ left' = left /\ opts' = opts /\ from' = from /\ asked' = asked
      /\ stdin[w] \in Seq(Line) /\ typed \in Seq(Line) /\ pc[w] = "argument"
      /\ p \in Paths \cup {NoPath} /\ Remains(stdin[w], typed)
  BY ListedTaken DEF TakeLine, CommandsOK, CommandsTyped, Job, Asking
<1>2. \/ /\ from[w] = "stdin" /\ stdin[w] # <<>> /\ Listed(w) = stdin[w]
         /\ stdin'[w] = Tail(stdin[w])
      \/ from[w] = "file" /\ stdin'[w] = stdin[w]
  BY ListedTaken DEF CommandsOK, CommandsTyped
<1>3. Remains(stdin'[w], typed)
  BY <1>1, <1>2, RemainsTail
<1>4. CASE p = <<>>
  <2>1. pc' = pc
    BY <1>4 DEF TakeLine
  <2> QED
    BY <1>1, <1>3, <2>1 DEF Asking
<1>5. CASE p # <<>>
  <2>1. /\ ~ Is(w, "makdir") => todo'[w] = <<p>>
        /\ pc'[w] = CASE Is(w, "makdir") -> "stat"
                      [] Is(w, "touch") -> "open"
                      [] Is(w, "del") /\ "-p" \in opts[w] -> "answer"
                      [] OTHER -> "delete"
    BY <1>1, <1>5, Begins DEF TakeLine
  <2>2. ~ (pc'[w] = "delete" /\ Is(w, "del") /\ "-p" \in opts[w])
    BY <2>1 DEF Is
  <2>3. pc'[w] = "answer" => Now(w)' = p
    BY <2>1 DEF Is, Now
  <2>0. PICK i \in Int : i = Len(typed) - Len(stdin'[w])
    <3>1. stdin'[w] \in Seq(Line)
      BY <1>1, <1>2, TailSeq
    <3>2. Len(typed) \in Nat /\ Len(stdin'[w]) \in Nat
      BY <1>1, <3>1, LenProperties
    <3>3. Len(typed) - Len(stdin'[w]) \in Int
      BY <3>2
    <3> QED
      BY <3>3
  <2>4. from[w] = "file" \/ p = NoPath \/ (i \in DOMAIN typed /\ typed[i].path = p)
    <3>1. CASE /\ from[w] = "stdin" /\ stdin[w] # <<>> /\ Listed(w) = stdin[w]
               /\ stdin'[w] = Tail(stdin[w])
      <4>1. /\ Len(stdin'[w]) = Len(stdin[w]) - 1 /\ Len(typed) \in Nat /\ Len(stdin[w]) \in Nat
        BY <1>1, <3>1, TailSeq, LenProperties
      <4>2. i = Len(typed) - Len(stdin[w]) + 1
        BY <2>0, <4>1
      <4> HIDE DEF typed
      <4>3. i \in DOMAIN typed /\ Head(stdin[w]).path \in {NoPath, typed[i].path}
        BY <1>1, <3>1, <4>2, RemainsHead
      <4> QED
        BY <3>1, <4>3
    <3> QED
      BY <1>2, <3>1
  <2>5. pc'[w] = "answer" => NameAt(w, i)'
    BY <1>1, <2>3, <2>4 DEF NameAt
  <2>6. pc'[w] = "answer" => NameAt(w, Len(job[w].stdin) - Len(stdin[w]))'
    BY <1>1, <2>0, <2>5 DEF NameAt
  <2> QED
    BY <1>1, <1>3, <2>2, <2>6 DEF Asking, Is
<1> QED
  BY <1>4, <1>5

LEMMA AskingAnswer ==
  ASSUME CommandsOK, NEW w \in Writer, Asking(w), Answer(w)
  PROVE  Asking(w)'
<1> DEFINE typed == job[w].stdin
           lines == stdin[w]
<1>1. /\ job' = job /\ left' = left /\ opts' = opts /\ from' = from /\ pc[w] = "answer"
      /\ lines \in Seq(Line) /\ typed \in Seq(Line) /\ Remains(lines, typed)
      /\ todo[w] # <<>>
  BY DEF Answer, CommandsOK, CommandsTyped, InStep, Job, Asking
<1>2. stdin'[w] = IF lines = <<>> THEN lines ELSE Rest(lines)
  BY DEF Answer, CommandsOK, CommandsTyped
<1>3. Remains(stdin'[w], typed)
  <2> HIDE DEF lines, typed
  <2> QED
    BY <1>1, <1>2, RemainsRest
<1>4. PICK i \in Int : i = Len(typed) - Len(lines) + 1 /\ asked'[w] = i
  <2>1. Len(typed) \in Nat /\ Len(lines) \in Nat
    BY <1>1, LenProperties
  <2>2. Len(typed) - Len(lines) + 1 \in Int
    BY <2>1
  <2>3. asked'[w] = Len(typed) - Len(lines) + 1
    BY DEF Answer, CommandsOK, CommandsTyped
  <2> QED
    BY <2>2, <2>3
<1>5. CASE ~ Yes(lines)
  <2>1. Done(w, 0)
    BY <1>5 DEF Answer
  <2>2. pc'[w] \in {"stat", "argument", "done"}
    BY <1>1, <2>1, GoesOn
  <2> QED
    BY <1>1, <1>3, <2>2 DEF Asking
<1>6. CASE Yes(lines)
  <2>1. lines # <<>> /\ todo' = todo /\ pc'[w] = "delete"
    BY <1>6 DEF Yes, Answer, Goto, CommandsOK, CommandsTyped
  <2>2. /\ i \in DOMAIN typed
        /\ \/ \E c \in DOMAIN typed[i].chunks : c > 1 /\ typed[i].chunks[c] = "y"
           \/ IsPrefix(<<"y">>, typed[i].chunks)
    <3> HIDE DEF lines, typed
    <3> QED
      BY <1>1, <1>4, <1>6, <2>1, RemainsHead
  <2>3. LateYes(w)' \/ IsPrefix(<<"y">>, typed[i].chunks)
    <3>1. job'[w] = job[w]
      BY <1>1
    <3> QED
      BY <2>2, <3>1 DEF LateYes
  <2>4. NameAt(w, i - 1)'
    <3>1. i - 1 = Len(typed) - Len(lines)
      BY <1>1, <1>4, LenProperties
    <3>2. NameAt(w, i - 1)
      BY <1>1, <3>1 DEF Asking
    <3>3. Now(w)' = Now(w) /\ Argued(w)' = Argued(w)
      BY <1>1, <2>1 DEF Now, Argued
    <3> QED
      BY <1>1, <3>2, <3>3 DEF NameAt
  <2>5. Consented(w)'
    <3>1. asked'[w] = i
      BY <1>4
    <3>2. job'[w].stdin = typed
      BY <1>1
    <3>3. NameAt(w, asked[w] - 1)'
      BY <2>4, <3>1 DEF NameAt
    <3> HIDE DEF typed
    <3> QED
      BY <2>2, <2>3, <3>1, <3>2, <3>3 DEF Consented
  <2> QED
    BY <1>1, <1>3, <2>1, <2>5 DEF Asking
<1> QED
  BY <1>5, <1>6

(* Elsewhere a command does not come to its question or to a delete.        *)
LEMMA AskingElsewhere ==
  ASSUME CommandsOK, NEW w \in Writer, Asking(w),
         Option(w) \/ Finish(w) \/ Delete(w) \/ Stat(w) \/ Make(w) \/ Open(w) \/ Create(w)
  PROVE  Asking(w)'
<1>1. /\ job' = job /\ stdin' = stdin /\ todo[w] \in Seq(Paths \cup {NoPath})
      /\ left[w] \in Seq(Argument) /\ job[w].args \in Seq(Argument)
  BY DEF Option, Finish, Delete, Stat, Make, Open, Create, input, CommandsOK, CommandsTyped, Job
<1>2. Behind(left'[w], job[w].args)
  <2>1. left'[w] = left[w] \/ (left[w] # <<>> /\ left'[w] = Tail(left[w]))
    BY DEF Option, Finish, Delete, Stat, Make, Open, Create, CommandsOK, CommandsTyped
  <2> QED
    BY <1>1, <2>1, NextTaken DEF Asking
<1>3. pc'[w] \notin {"answer", "delete"}
  <2>1. CASE Option(w)
    BY <2>1, OptionStep
  <2>2. CASE Finish(w)
    BY <2>2 DEF Finish, Exit, CommandsOK, CommandsTyped
  <2>3. CASE Delete(w) \/ Stat(w) \/ Make(w) \/ Open(w) \/ Create(w)
    <3>1. todo[w] # <<>>
      BY <2>3 DEF Delete, Stat, Make, Open, Create, CommandsOK, InStep
    <3>2. ASSUME NEW s \in {0, 1}, Done(w, s) PROVE pc'[w] \in {"stat", "argument", "done"}
      BY <3>1, <3>2, GoesOn
    <3>3. ASSUME NEW where \in {"make", "create"}, Goto(w, where) PROVE pc'[w] = where
      BY <3>3 DEF Goto, CommandsOK, CommandsTyped
    <3>4. (\E s \in {0, 1} : Done(w, s)) \/ (\E where \in {"make", "create"} : Goto(w, where))
      BY <2>3 DEF Delete, Stat, Make, Open, Create
    <3> QED
      BY <3>2, <3>3, <3>4
  <2> QED
    BY <2>1, <2>2, <2>3
<1> QED
  BY <1>1, <1>2, <1>3 DEF Asking

(* What a step of one command leaves as it is of another. *)
LEMMA OthersKept ==
  ASSUME CommandsOK, NEW w \in Writer, Write(w), NEW v \in Writer, v # w
  PROVE  /\ job' = job /\ pc'[v] = pc[v] /\ left'[v] = left[v] /\ opts'[v] = opts[v]
         /\ from'[v] = from[v] /\ stdin'[v] = stdin[v] /\ file'[v] = file[v]
         /\ todo'[v] = todo[v] /\ status'[v] = status[v] /\ asked'[v] = asked[v]
<1>1. CASE Option(w) \/ Finish(w)
  BY <1>1 DEF Option, Finish, Exit, input, CommandsOK, CommandsTyped
<1>2. CASE TakeName(w) \/ TakeLine(w)
  BY <1>2 DEF TakeName, TakeLine, Begin, input, CommandsOK, CommandsTyped
<1>3. CASE Answer(w)
  BY <1>3 DEF Answer, Done, Goto, CommandsOK, CommandsTyped
<1>4. CASE Delete(w) \/ Stat(w) \/ Make(w) \/ Open(w) \/ Create(w)
  <2>1. /\ job' = job /\ left' = left /\ opts' = opts /\ from' = from /\ stdin' = stdin
        /\ file' = file /\ asked' = asked
    BY <1>4 DEF Delete, Stat, Make, Open, Create, input
  <2>2. (\E s \in {0, 1} : Done(w, s)) \/ (\E where \in {"make", "create"} : Goto(w, where))
    BY <1>4 DEF Delete, Stat, Make, Open, Create
  <2>3. pc'[v] = pc[v] /\ todo'[v] = todo[v] /\ status'[v] = status[v]
    BY <2>2 DEF Done, Goto, CommandsOK, CommandsTyped
  <2> QED
    BY <2>1, <2>3
<1> QED
  BY <1>1, <1>2, <1>3, <1>4 DEF Write

LEMMA AskingStep ==
  ASSUME CommandsOK, \A w \in Writer : Asking(w), [Next]_vars
  PROVE  \A w \in Writer : Asking(w)'
<1>1. CASE UNCHANGED directoryVars
  BY <1>1, AskingKept DEF directoryVars, command
<1>2. ASSUME NEW w \in Writer, Write(w), NEW v \in Writer PROVE Asking(v)'
  <2>1. CASE v # w
    BY <1>2, <2>1, OthersKept, AskingKept
  <2>2. CASE v = w
    BY <1>2, <2>2, AskingName, AskingLine, AskingAnswer, AskingElsewhere DEF Write
  <2> QED
    BY <2>1, <2>2
<1> QED
  BY <1>1, <1>2, WhoWrites

LEMMA AskingAtStart ==
  ASSUME Init
  PROVE  \A w \in Writer : Asking(w)
<1>1. CommandsOK
  BY DirectoryAtStart
<1>2. ASSUME NEW w \in Writer PROVE Asking(w)
  <2>1. /\ left[w] = job[w].args /\ stdin[w] = job[w].stdin /\ pc[w] = "argument"
        /\ job[w].args \in Seq(Argument) /\ job[w].stdin \in Seq(Line)
    BY <1>1 DEF Init, DirectoryInit, CommandsOK, CommandsTyped, Job
  <2>2. Behind(left[w], job[w].args) /\ Behind(stdin[w], job[w].stdin)
    BY <2>1, AllTaken
  <2>3. Remains(stdin[w], job[w].stdin)
    BY <2>2 DEF Remains, Behind
  <2> QED
    BY <2>1, <2>2, <2>3 DEF Asking
<1> QED
  BY <1>2

(* With -p, del deletes nothing without a yes, and the yes it takes is the  *)
(* answer to the name it deletes, wherever names and answers come from.     *)
THEOREM DeletesOnlyOnYes == Spec => DeletedOnlyOnYes
<1> DEFINE A == \A w \in Writer :
       /\ Is(w, "del") /\ "-p" \in opts[w] /\ pc[w] = "delete" /\ pc'[w] # pc[w]
       /\ DOMAIN tree' # DOMAIN tree
       => LET typed == job[w].stdin
          IN /\ asked[w] \in DOMAIN typed
             /\ LateYes(w) \/ IsPrefix(<<"y">>, typed[asked[w]].chunks)
             /\ \/ Now(w) \in Argued(w) \/ from[w] = "file"
                \/ asked[w] > 1 /\ typed[asked[w] - 1].path = Now(w)
<1>1. CommandsOK /\ TreeOK /\ (\A w \in Writer : Asking(w)) /\ [Next]_vars => [A]_directoryVars
  <2>1. ASSUME CommandsOK, TreeOK, \A w \in Writer : Asking(w), [Next]_vars,
               NEW w \in Writer, Is(w, "del"), "-p" \in opts[w], pc[w] = "delete",
               pc'[w] # pc[w], DOMAIN tree' # DOMAIN tree
        PROVE  /\ asked[w] \in DOMAIN job[w].stdin
               /\ LateYes(w) \/ IsPrefix(<<"y">>, job[w].stdin[asked[w]].chunks)
               /\ \/ Now(w) \in Argued(w) \/ from[w] = "file"
                  \/ asked[w] > 1 /\ job[w].stdin[asked[w] - 1].path = Now(w)
    <3>1. Write(w)
      <4>1. ~ UNCHANGED directoryVars
        BY <2>1 DEF directoryVars, command
      <4>2. PICK v \in Writer : Write(v)
        BY <2>1, <4>1, WhoWrites
      <4>3. v = w
        BY <2>1, <4>2, OthersKept
      <4> QED
        BY <4>2, <4>3
    <3>2. Delete(w)
      BY <2>1, <3>1 DEF Write, Option, TakeName, TakeLine, Finish, Answer, Stat, Make, Open, Create
    <3>3. Now(w) \in DOMAIN tree
      BY <2>1, <3>2 DEF Delete, files, IsFile
    <3>4. Now(w) # NoPath
      <4>1. Now(w) \in Seq(Name)
        BY <2>1, <3>3, PathSeq DEF TreeOK, WellFormed
      <4>2. NoPath \notin Seq(Name)
        <5>1. Len(NoPath) = 1 /\ NoPath[1] = Free
          BY DEF NoPath
        <5>2. Free \notin Name
          BY DirectoryAssumption
        <5> QED
          BY <5>1, <5>2, ElementOfSeq
      <4> QED
        BY <4>1, <4>2
    <3>5. Consented(w)
      BY <2>1 DEF Asking
    <3>6. asked[w] - 1 \in DOMAIN job[w].stdin => asked[w] > 1
      <4>1. DOMAIN job[w].stdin = 1..Len(job[w].stdin) /\ asked[w] \in Nat
        BY <2>1, LenProperties DEF CommandsOK, CommandsTyped, Job
      <4> QED
        BY <4>1
    <3> QED
      BY <3>4, <3>5, <3>6 DEF Consented, NameAt
  <2> QED
    BY <2>1
<1>2. Init => \A w \in Writer : Asking(w)
  BY AskingAtStart
<1>3. CommandsOK /\ (\A w \in Writer : Asking(w)) /\ [Next]_vars => (\A w \in Writer : Asking(w))'
  BY AskingStep
<1> QED
  BY <1>1, <1>2, <1>3, DirectoryInvariant, PTL DEF Spec, DeletedOnlyOnYes, A

-----------------------------------------------------------------------------
(* makdir, while nobody deletes. *)
Builders == \A w \in Writer : ~ Is(w, "del") /\ ~ Is(w, "deldir")

NamesTaken(w) == {a.path : a \in {b \in Taken(left[w], job[w].args) : b.option = "name"}}
TypedTaken(w) == {l.path : l \in {m \in Taken(stdin[w], job[w].stdin) : m.path # <<>>}}
FiledTaken(w) == {l.path : l \in {m \in Taken(file[w], job[w].file) : m.path # <<>>}}
TakenPaths(w) == NamesTaken(w) \cup TypedTaken(w) \cup FiledTaken(w)

Made(w, p) == IsDir(p) \/ (pc[w] \in {"stat", "make"} /\ Last(todo[w]) = p)

(* As long as it has not failed, makdir has made what it has taken, but for *)
(* the name it is at.                                                       *)
Building(w) ==
  /\ Behind(left[w], job[w].args) /\ Behind(stdin[w], job[w].stdin)
  /\ Behind(file[w], job[w].file)
  /\ status[w] = 0 /\ ~ Asks(w, "-?") =>
       /\ \A p \in TakenPaths(w) : Made(w, p)
       /\ pc[w] = "done" => left[w] = <<>> /\ Listed(w) = <<>>

Honest == Builders => \A w \in Writer : Is(w, "makdir") => Building(w)

LEMMA DirsStay ==
  ASSUME CommandsOK, TreeOK, Builders, NEW w \in Writer, Write(w), NEW p, IsDir(p)
  PROVE  IsDir(p)'
<1>1. CASE UNCHANGED files
  BY <1>1 DEF files, IsDir
<1>2. ASSUME NEW kind \in {"file", "dir"}, CanCreate(Now(w)), Created(Now(w), kind)
      PROVE  IsDir(p)'
  <2>1. /\ DOMAIN tree' = DOMAIN tree \cup {Now(w)}
        /\ \A q \in DOMAIN tree : tree'[q].kind = tree[q].kind
    BY <1>2, CreatedTree DEF TreeOK
  <2> QED
    BY <2>1 DEF IsDir
<1>3. pc[w] # "delete"
  BY DEF CommandsOK, InStep, Builders
<1>4. UNCHANGED files \/ \E kind \in {"file", "dir"} : CanCreate(Now(w)) /\ Created(Now(w), kind)
  BY <1>3 DEF Write, Option, TakeName, TakeLine, Finish, Answer, Delete, Stat, Make, Open, Create,
              files
<1> QED
  BY <1>1, <1>2, <1>4

LEMMA BuildingKept ==
  ASSUME CommandsOK, TreeOK, Builders, NEW w \in Writer, Write(w),
         NEW v \in Writer, v # w, Building(v)
  PROVE  Building(v)'
<1>1. /\ job' = job /\ pc'[v] = pc[v] /\ left'[v] = left[v] /\ opts'[v] = opts[v]
      /\ from'[v] = from[v] /\ stdin'[v] = stdin[v] /\ file'[v] = file[v]
      /\ todo'[v] = todo[v] /\ status'[v] = status[v]
  BY OthersKept
<1>2. TakenPaths(v)' = TakenPaths(v)
  BY <1>1 DEF TakenPaths, NamesTaken, TypedTaken, FiledTaken
<1>3. ASSUME NEW p, Made(v, p) PROVE Made(v, p)'
  BY <1>1, <1>3, DirsStay DEF Made
<1>4. Listed(v)' = Listed(v) /\ Asks(v, "-?")' = Asks(v, "-?")
  BY <1>1 DEF Listed, Asks
<1> QED
  BY <1>1, <1>2, <1>3, <1>4 DEF Building

(* The calls of makdir: a path that is dealt with is a directory, or makdir *)
(* has failed; the last of its paths is the name.                           *)
LEMMA BuildsOn ==
  ASSUME CommandsOK, NEW w \in Writer, Done(w, 0), todo[w] # <<>>,
         NEW p, Last(todo[w]) = p, NEW q, q = Now(w), IsDir(q)'
  PROVE  Made(w, p)'
<1>1. /\ todo'[w] = Tail(todo[w])
      /\ pc'[w] = "stat" <=> todo'[w] # <<>>
      /\ todo[w] \in Seq(Paths \cup {NoPath})
  BY GoesOn DEF CommandsOK, CommandsTyped
<1> DEFINE t == todo[w]
<1>2. /\ t[1] = Head(t) /\ Len(Tail(t)) = Len(t) - 1 /\ Len(t) \in Nat \ {0}
      /\ Len(t) > 1 <=> Tail(t) # <<>> /\ \A i \in 1..(Len(t) - 1) : Tail(t)[i] = t[i + 1]
  BY <1>1, TailSeq
<1>3. CASE Len(t) > 1
  <2>1. Tail(t)[Len(t) - 1] = t[Len(t)]
    <3> HIDE DEF t
    <3>1. Len(t) - 1 \in 1..(Len(t) - 1) /\ Len(t) - 1 + 1 = Len(t)
      BY <1>2, <1>3
    <3> QED
      BY <1>2, <3>1
  <2>2. Last(Tail(t)) = Last(t)
    BY <1>2, <2>1 DEF Last
  <2>3. Tail(t) # <<>>
    BY <1>2, <1>3
  <2>4. pc'[w] = "stat" /\ Last(todo'[w]) = p
    BY <1>1, <2>2, <2>3
  <2> QED
    BY <2>4 DEF Made
<1>4. CASE ~ (Len(t) > 1)
  <2>1. Len(t) = 1
    <3> HIDE DEF t
    <3> QED
      BY <1>2, <1>4
  <2>2. Last(t) = Head(t)
    BY <1>2, <2>1 DEF Last
  <2>3. p = q
    BY <2>2 DEF Now
  <2> QED
    BY <2>3 DEF Made
<1> QED
  BY <1>3, <1>4

(* What is taken by a step of makdir. *)
LEMMA NothingTaken ==
  ASSUME NEW w \in Writer, job' = job, left'[w] = left[w], stdin'[w] = stdin[w],
         file'[w] = file[w]
  PROVE  TakenPaths(w)' = TakenPaths(w)
BY DEF TakenPaths, NamesTaken, TypedTaken, FiledTaken

LEMMA ArgumentTaken ==
  ASSUME CommandsOK, NEW w \in Writer, Behind(left[w], job[w].args), left[w] # <<>>,
         job' = job, left'[w] = Tail(left[w]), stdin'[w] = stdin[w], file'[w] = file[w]
  PROVE  /\ Behind(left[w], job[w].args)'
         /\ \E i \in DOMAIN job[w].args : job[w].args[i] = Head(left[w])
         /\ TakenPaths(w)' \subseteq
              TakenPaths(w) \cup IF Head(left[w]).option = "name" THEN {Head(left[w]).path} ELSE {}
<1>1. left[w] \in Seq(Argument) /\ job[w].args \in Seq(Argument)
  BY DEF CommandsOK, CommandsTyped, Job
<1>2. /\ Behind(Tail(left[w]), job[w].args) /\ Head(left[w]) \in Range(job[w].args)
      /\ Taken(Tail(left[w]), job[w].args) \subseteq
           Taken(left[w], job[w].args) \cup {Head(left[w])}
  BY <1>1, NextTaken
<1>3. /\ NamesTaken(w)' = {a.path : a \in {b \in Taken(Tail(left[w]), job[w].args) : b.option = "name"}}
      /\ TypedTaken(w)' = TypedTaken(w) /\ FiledTaken(w)' = FiledTaken(w)
  BY DEF NamesTaken, TypedTaken, FiledTaken
<1>4. NamesTaken(w)' \subseteq
        NamesTaken(w) \cup IF Head(left[w]).option = "name" THEN {Head(left[w]).path} ELSE {}
  BY <1>2, <1>3 DEF NamesTaken
<1> QED
  BY <1>2, <1>3, <1>4 DEF TakenPaths, Range

LEMMA LineTaken ==
  ASSUME CommandsOK, NEW w \in Writer, TakeLine(w), NEW l, l = Head(Listed(w)),
         Behind(stdin[w], job[w].stdin), Behind(file[w], job[w].file)
  PROVE  /\ Behind(stdin[w], job[w].stdin)' /\ Behind(file[w], job[w].file)'
         /\ TakenPaths(w)' \subseteq TakenPaths(w) \cup IF l.path = <<>> THEN {} ELSE {l.path}
<1>1. /\ stdin[w] \in Seq(Line) /\ job[w].stdin \in Seq(Line)
      /\ file[w] \in Seq(Line) /\ job[w].file \in Seq(Line) /\ job' = job /\ left' = left
  BY DEF TakeLine, CommandsOK, CommandsTyped, Job
<1>2. \/ /\ stdin[w] # <<>> /\ l = Head(stdin[w])
         /\ stdin'[w] = Tail(stdin[w]) /\ file'[w] = file[w]
      \/ /\ file[w] # <<>> /\ l = Head(file[w])
         /\ file'[w] = Tail(file[w]) /\ stdin'[w] = stdin[w]
  BY ListedTaken DEF CommandsOK, CommandsTyped
<1>3. CASE /\ stdin[w] # <<>> /\ l = Head(stdin[w])
           /\ stdin'[w] = Tail(stdin[w]) /\ file'[w] = file[w]
  <2>1. /\ Behind(Tail(stdin[w]), job[w].stdin)
        /\ Taken(Tail(stdin[w]), job[w].stdin) \subseteq Taken(stdin[w], job[w].stdin) \cup {l}
    BY <1>1, <1>3, NextTaken
  <2>2. /\ TypedTaken(w)' = {m.path : m \in {k \in Taken(Tail(stdin[w]), job[w].stdin) : k.path # <<>>}}
        /\ NamesTaken(w)' = NamesTaken(w) /\ FiledTaken(w)' = FiledTaken(w)
    BY <1>1, <1>3 DEF NamesTaken, TypedTaken, FiledTaken
  <2>3. TypedTaken(w)' \subseteq TypedTaken(w) \cup IF l.path = <<>> THEN {} ELSE {l.path}
    BY <2>1, <2>2 DEF TypedTaken
  <2> QED
    BY <1>1, <1>3, <2>1, <2>2, <2>3 DEF TakenPaths
<1>4. CASE /\ file[w] # <<>> /\ l = Head(file[w])
           /\ file'[w] = Tail(file[w]) /\ stdin'[w] = stdin[w]
  <2>1. /\ Behind(Tail(file[w]), job[w].file)
        /\ Taken(Tail(file[w]), job[w].file) \subseteq Taken(file[w], job[w].file) \cup {l}
    BY <1>1, <1>4, NextTaken
  <2>2. /\ FiledTaken(w)' = {m.path : m \in {k \in Taken(Tail(file[w]), job[w].file) : k.path # <<>>}}
        /\ NamesTaken(w)' = NamesTaken(w) /\ TypedTaken(w)' = TypedTaken(w)
    BY <1>1, <1>4 DEF NamesTaken, TypedTaken, FiledTaken
  <2>3. FiledTaken(w)' \subseteq FiledTaken(w) \cup IF l.path = <<>> THEN {} ELSE {l.path}
    BY <2>1, <2>2 DEF FiledTaken
  <2> QED
    BY <1>1, <1>4, <2>1, <2>2, <2>3 DEF TakenPaths
<1> QED
  BY <1>2, <1>3, <1>4

(* makdir begins with a name it has taken; it has dealt with the others. *)
LEMMA BuildingBegins ==
  ASSUME CommandsOK, TreeOK, Builders, NEW w \in Writer, Write(w), Is(w, "makdir"),
         NEW p \in Paths \cup {NoPath}, Begin(w, p), pc[w] = "argument", job' = job,
         status'[w] = status[w], Building(w), TakenPaths(w)' \subseteq TakenPaths(w) \cup {p}
  PROVE  status'[w] = 0 /\ ~ Asks(w, "-?")' =>
           /\ \A q \in TakenPaths(w)' : Made(w, q)'
           /\ pc'[w] # "done"
<1>1. todo'[w][Len(todo'[w])] = p /\ pc'[w] = "stat"
  BY Begins DEF Is
<1>2. Made(w, p)'
  BY <1>1 DEF Made, Last
<1>3. ASSUME status'[w] = 0, ~ Asks(w, "-?")', NEW q \in TakenPaths(w)' PROVE Made(w, q)'
  <2>1. CASE q = p
    BY <1>2, <2>1
  <2>2. CASE q \in TakenPaths(w)
    <3>1. IsDir(q)
      BY <1>3, <2>2 DEF Building, Made, Asks
    <3>2. IsDir(q)'
      BY <3>1, DirsStay
    <3> QED
      BY <3>2 DEF Made
  <2> QED
    BY <1>3, <2>1, <2>2
<1> QED
  BY <1>1, <1>3

LEMMA BuildingOption ==
  ASSUME CommandsOK, TreeOK, Builders, NEW w \in Writer, Is(w, "makdir"), Building(w), Option(w)
  PROVE  Building(w)'
<1>1. /\ job' = job /\ stdin' = stdin /\ file' = file /\ UNCHANGED files
      /\ left'[w] = Tail(left[w]) /\ left[w] # <<>> /\ Head(left[w]).option # "name"
      /\ pc[w] = "argument" /\ TreeOK
  BY DEF Option, input, CommandsOK, CommandsTyped
<1>2. /\ Behind(left[w], job[w].args)'
      /\ \E i \in DOMAIN job[w].args : job[w].args[i] = Head(left[w])
      /\ TakenPaths(w)' \subseteq TakenPaths(w)
  BY <1>1, ArgumentTaken DEF Building
<1>3. \/ pc'[w] = "argument" /\ status'[w] = status[w]
      \/ status'[w] = 1
      \/ Asks(w, "-?")'
  <2>1. \/ pc' = pc /\ status' = status
        \/ Exit(w, 1) \/ Head(left[w]).option = "-?"
    BY DEF Option
  <2>2. Head(left[w]).option = "-?" => Asks(w, "-?")'
    BY <1>1, <1>2 DEF Asks
  <2>3. Exit(w, 1) => status'[w] = 1
    BY DEF Exit, CommandsOK, CommandsTyped
  <2> QED
    BY <1>1, <2>1, <2>2, <2>3
<1>4. ASSUME status'[w] = 0, ~ Asks(w, "-?")'
      PROVE  pc'[w] = "argument" /\ \A p \in TakenPaths(w)' : Made(w, p)'
  <2>1. pc'[w] = "argument" /\ status[w] = 0 /\ ~ Asks(w, "-?")
    BY <1>1, <1>3, <1>4 DEF Asks
  <2>2. \A p \in TakenPaths(w) : IsDir(p)
    BY <1>1, <2>1 DEF Building, Made
  <2>3. \A p \in TakenPaths(w)' : IsDir(p)
    BY <1>2, <2>2
  <2>4. ASSUME NEW p, IsDir(p) PROVE IsDir(p)'
    BY <1>1, <2>4 DEF IsDir, files
  <2> QED
    BY <2>1, <2>3, <2>4 DEF Made
<1> QED
  BY <1>1, <1>2, <1>4 DEF Building

LEMMA BuildingFinish ==
  ASSUME CommandsOK, NEW w \in Writer, Is(w, "makdir"), Building(w), Finish(w)
  PROVE  Building(w)'
<1>1. /\ job' = job /\ left' = left /\ stdin' = stdin /\ file' = file /\ from' = from
      /\ UNCHANGED files /\ left[w] = <<>> /\ Listed(w) = <<>> /\ pc[w] = "argument"
      /\ status'[w] \in {1, status[w]}
  BY DEF Finish, Exit, input, CommandsOK, CommandsTyped
<1>2. TakenPaths(w)' = TakenPaths(w) /\ Listed(w)' = Listed(w) /\ Asks(w, "-?")' = Asks(w, "-?")
  BY <1>1, NothingTaken DEF Listed, Asks
<1>3. ASSUME status'[w] = 0, ~ Asks(w, "-?")', NEW p \in TakenPaths(w)' PROVE Made(w, p)'
  <2>1. status[w] = 0 /\ ~ Asks(w, "-?") /\ p \in TakenPaths(w)
    BY <1>1, <1>2, <1>3
  <2>2. IsDir(p)
    BY <1>1, <2>1 DEF Building, Made
  <2> QED
    BY <1>1, <2>2 DEF IsDir, files, Made
<1> QED
  BY <1>1, <1>2, <1>3 DEF Building

LEMMA BuildingTakes ==
  ASSUME CommandsOK, TreeOK, Builders, NEW w \in Writer, Is(w, "makdir"), Building(w),
         TakeName(w) \/ TakeLine(w)
  PROVE  Building(w)'
<1>1. CASE TakeName(w)
  <2> DEFINE p == Head(left[w]).path
  <2>1. /\ job' = job /\ stdin' = stdin /\ file' = file /\ status' = status
        /\ left'[w] = Tail(left[w]) /\ left[w] # <<>> /\ Head(left[w]).option = "name"
        /\ pc[w] = "argument" /\ Begin(w, p) /\ p \in Paths
    BY <1>1, NameStep DEF TakeName, input, CommandsOK, CommandsTyped
  <2>2. Behind(left[w], job[w].args)' /\ TakenPaths(w)' \subseteq TakenPaths(w) \cup {p}
    BY <2>1, ArgumentTaken DEF Building
  <2>3. PICK q \in Paths : q = p
    BY <2>1
  <2>4. Write(w)
    BY <1>1 DEF Write
  <2> HIDE DEF p
  <2>5. status'[w] = 0 /\ ~ Asks(w, "-?")' =>
          (\A r \in TakenPaths(w)' : Made(w, r)') /\ pc'[w] # "done"
    BY <2>1, <2>2, <2>3, <2>4, BuildingBegins
  <2> QED
    BY <2>1, <2>2, <2>5 DEF Building
<1>2. CASE TakeLine(w)
  <2>1. PICK l : l = Head(Listed(w))
    OBVIOUS
  <2>2. /\ Behind(stdin[w], job[w].stdin)' /\ Behind(file[w], job[w].file)'
        /\ TakenPaths(w)' \subseteq TakenPaths(w) \cup IF l.path = <<>> THEN {} ELSE {l.path}
    BY <1>2, <2>1, LineTaken DEF Building
  <2>3. /\ job' = job /\ left' = left /\ status' = status /\ UNCHANGED files
        /\ pc[w] = "argument" /\ l.path \in Paths \cup {NoPath} /\ Write(w)
    BY <1>2, <2>1, ListedTaken DEF TakeLine, Write
  <2>4. status'[w] = 0 /\ ~ Asks(w, "-?")' =>
          (\A r \in TakenPaths(w)' : Made(w, r)') /\ pc'[w] # "done"
    <3>1. CASE l.path = <<>>
      <4>1. pc' = pc /\ todo' = todo
        BY <1>2, <2>1, <3>1 DEF TakeLine
      <4>2. ASSUME status'[w] = 0, ~ Asks(w, "-?")', NEW r \in TakenPaths(w)' PROVE Made(w, r)'
        <5>1. IsDir(r)
          BY <2>2, <2>3, <3>1, <4>2 DEF Building, Made, Asks
        <5> QED
          BY <2>3, <5>1 DEF IsDir, files, Made
      <4> QED
        BY <2>3, <4>1, <4>2
    <3>2. CASE l.path # <<>>
      <4>1. Begin(w, l.path)
        BY <1>2, <2>1, <3>2 DEF TakeLine
      <4>2. TakenPaths(w)' \subseteq TakenPaths(w) \cup {l.path}
        BY <2>2, <3>2
      <4> QED
        BY <2>3, <4>1, <4>2, BuildingBegins
    <3> QED
      BY <3>1, <3>2
  <2> QED
    BY <2>2, <2>3, <2>4 DEF Building
<1> QED
  BY <1>1, <1>2

LEMMA BuildingCalls ==
  ASSUME CommandsOK, TreeOK, Builders, NEW w \in Writer, Is(w, "makdir"), Building(w),
         Stat(w) \/ Make(w)
  PROVE  Building(w)'
<1>1. /\ job' = job /\ left' = left /\ stdin' = stdin /\ file' = file /\ from' = from
      /\ pc[w] \in {"stat", "make"} /\ todo[w] # <<>> /\ Write(w)
  BY DEF Stat, Make, input, Write, CommandsOK, InStep
<1>2. TakenPaths(w)' = TakenPaths(w) /\ Asks(w, "-?")' = Asks(w, "-?")
  BY <1>1, NothingTaken DEF Asks
<1>3. PICK q : q = Now(w)
  OBVIOUS
<1>4. \/ Done(w, 1)
      \/ Goto(w, "make")
      \/ Done(w, 0) /\ IsDir(q)'
  <2>1. CASE Stat(w)
    BY <1>3, <2>1 DEF Stat, files, IsDir
  <2>2. CASE Make(w) /\ CanCreate(Now(w))
    <3>1. Created(q, "dir") /\ CanCreate(q) /\ Done(w, 0)
      BY <1>3, <2>2 DEF Make
    <3>2. DOMAIN tree' = DOMAIN tree \cup {q} /\ tree'[q].kind = "dir"
      BY <3>1, CreatedTree DEF TreeOK
    <3> QED
      BY <3>1, <3>2 DEF IsDir
  <2>3. CASE Make(w) /\ ~ CanCreate(Now(w))
    BY <2>3 DEF Make
  <2> QED
    BY <2>1, <2>2, <2>3
<1>5. ASSUME status'[w] = 0, ~ Asks(w, "-?")'
      PROVE  (\A p \in TakenPaths(w)' : Made(w, p)') /\ pc'[w] # "done"
  <2>1. ~ Done(w, 1)
    <3>1. Done(w, 1) => status'[w] = 1
      BY DEF Done, CommandsOK, CommandsTyped
    <3> QED
      BY <1>5, <3>1
  <2>2. status[w] = 0 /\ ~ Asks(w, "-?")
    <3>1. Goto(w, "make") \/ Done(w, 0) => status'[w] = status[w]
      BY DEF Goto, Done, CommandsOK, CommandsTyped
    <3> QED
      BY <1>2, <1>4, <1>5, <2>1, <3>1
  <2>3. pc'[w] # "done"
    <3>1. Goto(w, "make") => pc'[w] = "make"
      BY DEF Goto, CommandsOK, CommandsTyped
    <3>2. Done(w, 0) => pc'[w] # "done"
      BY <1>1, GoesOn DEF Is
    <3> QED
      BY <1>4, <2>1, <3>1, <3>2
  <2>4. ASSUME NEW p \in TakenPaths(w)' PROVE Made(w, p)'
    <3>1. IsDir(p) \/ Last(todo[w]) = p
      BY <1>2, <2>2, <2>4 DEF Building, Made
    <3>2. CASE IsDir(p)
      BY <1>1, <3>2, DirsStay DEF Made
    <3>3. CASE Last(todo[w]) = p /\ Goto(w, "make")
      BY <3>3 DEF Goto, Made, CommandsOK, CommandsTyped
    <3>4. CASE Last(todo[w]) = p /\ Done(w, 0) /\ IsDir(q)'
      BY <1>1, <1>3, <3>4, BuildsOn
    <3> QED
      BY <1>4, <2>1, <3>1, <3>2, <3>3, <3>4
  <2> QED
    BY <2>3, <2>4
<1> QED
  BY <1>1, <1>5 DEF Building

LEMMA HonestStep ==
  ASSUME CommandsOK, TreeOK, Honest, [Next]_vars
  PROVE  Honest'
<1>1. CASE UNCHANGED directoryVars
  <2>1. Builders' = Builders /\ \A w \in Writer : Is(w, "makdir")' = Is(w, "makdir")
    BY <1>1 DEF directoryVars, command, Builders, Is
  <2>2. ASSUME NEW w \in Writer, Building(w) PROVE Building(w)'
    <3>1. TakenPaths(w)' = TakenPaths(w)
      BY <1>1, NothingTaken DEF directoryVars, command, input
    <3>2. Listed(w)' = Listed(w) /\ Asks(w, "-?")' = Asks(w, "-?")
      BY <1>1 DEF directoryVars, command, input, Listed, Asks
    <3>3. ASSUME NEW p, Made(w, p) PROVE Made(w, p)'
      BY <1>1, <3>3 DEF directoryVars, files, command, Made, IsDir
    <3> QED
      BY <1>1, <2>2, <3>1, <3>2, <3>3 DEF directoryVars, command, input, Building
  <2> QED
    BY <2>1, <2>2 DEF Honest
<1>2. ASSUME NEW w \in Writer, Write(w) PROVE Honest'
  <2>1. job' = job
    BY <1>2 DEF Write, Option, TakeName, TakeLine, Finish, Answer, Delete, Stat, Make, Open, Create
  <2>2. Builders' = Builders /\ \A v \in Writer : Is(v, "makdir")' = Is(v, "makdir")
    BY <2>1 DEF Builders, Is
  <2>3. ASSUME Builders, NEW v \in Writer, Is(v, "makdir") PROVE Building(v)'
    <3>1. Building(v)
      BY <2>3 DEF Honest
    <3>2. CASE v # w
      BY <1>2, <2>3, <3>1, <3>2, BuildingKept
    <3>3. CASE v = w
      <4>1. ~ Answer(w) /\ ~ Delete(w) /\ ~ Open(w) /\ ~ Create(w)
        BY <2>3, <3>3 DEF Answer, Delete, Open, Create, CommandsOK, InStep, Is
      <4> QED
        BY <1>2, <2>3, <3>1, <3>3, <4>1, BuildingOption, BuildingFinish, BuildingTakes,
           BuildingCalls DEF Write
    <3> QED
      BY <3>2, <3>3
  <2> QED
    BY <2>2, <2>3 DEF Honest
<1> QED
  BY <1>1, <1>2, WhoWrites

LEMMA HonestAtStart ==
  ASSUME Init
  PROVE  Honest
<1>1. CommandsOK
  BY DirectoryAtStart
<1>2. ASSUME NEW w \in Writer PROVE Building(w)
  <2>1. /\ left[w] = job[w].args /\ stdin[w] = job[w].stdin /\ file[w] = job[w].file
        /\ pc[w] = "argument"
        /\ job[w].args \in Seq(Argument) /\ job[w].stdin \in Seq(Line) /\ job[w].file \in Seq(Line)
    BY <1>1 DEF Init, DirectoryInit, CommandsOK, CommandsTyped, Job
  <2>2. /\ Behind(left[w], job[w].args) /\ Taken(left[w], job[w].args) = {}
        /\ Behind(stdin[w], job[w].stdin) /\ Taken(stdin[w], job[w].stdin) = {}
        /\ Behind(file[w], job[w].file) /\ Taken(file[w], job[w].file) = {}
    BY <2>1, AllTaken
  <2>3. TakenPaths(w) = {}
    BY <2>2 DEF TakenPaths, NamesTaken, TypedTaken, FiledTaken
  <2> QED
    BY <2>1, <2>2, <2>3 DEF Building
<1> QED
  BY <1>2 DEF Honest

(* makdir that returns 0 has made every directory it was given, or somebody *)
(* had: with any number of makdir and touch at once, racing for the same    *)
(* names or putting files where directories are to be.                      *)
THEOREM MakdirIsHonest == Spec => []MakdirHonest
<1>1. ASSUME CommandsOK, Honest PROVE MakdirHonest
  <2>1. ASSUME Builders, NEW w \in Writer, Is(w, "makdir"), pc[w] = "done", status[w] = 0,
               ~ Asks(w, "-?"), NEW p \in Given(w)
        PROVE  IsDir(p)
    <3>1. Building(w) /\ left[w] = <<>> /\ Listed(w) = <<>>
      BY <1>1, <2>1 DEF Honest, Building
    <3>2. /\ job[w].args \in Seq(Argument) /\ job[w].stdin \in Seq(Line)
          /\ job[w].file \in Seq(Line)
      BY <1>1 DEF CommandsOK, CommandsTyped, Job
    <3>3. /\ Taken(<<>>, job[w].args) = Range(job[w].args)
          /\ Taken(<<>>, job[w].stdin) = Range(job[w].stdin)
          /\ Taken(<<>>, job[w].file) = Range(job[w].file)
      BY <3>2, AllTaken
    <3>4. p \in TakenPaths(w)
      <4>1. CASE p \in Argued(w)
        BY <3>1, <3>3, <4>1 DEF Argued, TakenPaths, NamesTaken
      <4>2. CASE from[w] = "stdin" /\ p \in {l.path : l \in {m \in Range(job[w].stdin) : m.path # <<>>}}
        BY <3>1, <3>3, <4>2 DEF Listed, TakenPaths, TypedTaken
      <4>3. CASE from[w] = "file" /\ p \in {l.path : l \in {m \in Range(job[w].file) : m.path # <<>>}}
        BY <3>1, <3>3, <4>3 DEF Listed, TakenPaths, FiledTaken
      <4> QED
        BY <2>1, <4>1, <4>2, <4>3 DEF Given
    <3> QED
      BY <2>1, <3>1, <3>4 DEF Building, Made
  <2> QED
    BY <2>1 DEF MakdirHonest, Builders
<1>2. Init => Honest
  BY HonestAtStart
<1>3. CommandsOK /\ TreeOK /\ Honest /\ [Next]_vars => Honest'
  BY HonestStep
<1> QED
  BY <1>1, <1>2, <1>3, DirectoryInvariant, PTL DEF Spec

-----------------------------------------------------------------------------
(* The places a reader looks through: for qid each kind once, for dir its   *)
(* operands.                                                                *)
LEMMA TwoPlaces ==
  ASSUME NEW s \in Seq(Place), NEW t \in Seq(Place)
  PROVE  /\ s \o t \in Seq(Place) /\ Len(s \o t) = Len(s) + Len(t)
         /\ \A i \in 1..(Len(s) + Len(t)) :
              (s \o t)[i] = IF i <= Len(s) THEN s[i] ELSE t[i - Len(s)]
BY ConcatProperties

LEMMA Places ==
  ASSUME NEW r \in ReadJob
  PROVE  /\ PlacesOf(r) \in Seq(Place)
         /\ r.program = "dir" => \A i \in DOMAIN PlacesOf(r) : PlacesOf(r)[i].where = "path"
         /\ r.program = "qid" =>
              /\ \A i \in DOMAIN PlacesOf(r) : PlacesOf(r)[i].where \in {"disk", "exec", "mem"}
              /\ \A i, j \in DOMAIN PlacesOf(r) :
                   PlacesOf(r)[i].where = PlacesOf(r)[j].where => i = j
<1> DEFINE disk == <<At("disk", DataDir)>>
           exec == <<At("exec", ExecDir)>>
           mem == <<At("mem", DataDir)>>
<1>1. /\ disk \in Seq(Place) /\ exec \in Seq(Place) /\ mem \in Seq(Place)
      /\ Len(disk) = 1 /\ Len(exec) = 1 /\ Len(mem) = 1
      /\ disk[1].where = "disk" /\ exec[1].where = "exec" /\ mem[1].where = "mem"
  BY ScanAssumption DEF At, Place
<1>2. CASE r.program = "dir"
  <2>1. CASE r.operands = <<>>
    <3>1. PlacesOf(r) = <<At("path", DataDir)>>
      BY <1>2, <2>1 DEF PlacesOf
    <3>2. /\ <<At("path", DataDir)>> \in Seq(Place)
          /\ \A i \in DOMAIN <<At("path", DataDir)>> : <<At("path", DataDir)>>[i].where = "path"
      BY ScanAssumption DEF At, Place
    <3> QED
      BY <1>2, <3>1, <3>2
  <2>2. CASE r.operands # <<>>
    <3>1. PlacesOf(r) = [i \in DOMAIN r.operands |-> At("path", r.operands[i])]
      BY <1>2, <2>2 DEF PlacesOf
    <3>2. r.operands \in Seq(Paths)
      BY DEF ReadJob
    <3>3. /\ DOMAIN r.operands = 1..Len(r.operands) /\ Len(r.operands) \in Nat
          /\ \A i \in 1..Len(r.operands) : r.operands[i] \in Paths
      BY <3>2, LenProperties, ElementOfSeq
    <3>4. \A i \in 1..Len(r.operands) : At("path", r.operands[i]) \in Place
      BY <3>3 DEF At, Place
    <3>5. PlacesOf(r) \in [1..Len(r.operands) -> Place]
      BY <3>1, <3>3, <3>4
    <3>6. PlacesOf(r) \in Seq(Place)
      BY <3>3, <3>5
    <3> QED
      BY <1>2, <3>1, <3>6 DEF At
  <2> QED
    BY <2>1, <2>2
<1>3. CASE r.program = "qid"
  <2> DEFINE front == IF "a" \in r.opts THEN disk \o exec
                      ELSE IF r.opts \cap {"x", "m"} = {} THEN disk
                      ELSE IF "x" \in r.opts THEN exec ELSE <<>>
             back == IF "a" \in r.opts \/ "m" \in r.opts THEN mem ELSE <<>>
  <2>1. PlacesOf(r) = front \o back
    <3>1. CASE "a" \in r.opts
      BY <1>3, <3>1 DEF PlacesOf
    <3>2. CASE "a" \notin r.opts /\ r.opts \cap {"x", "m"} = {}
      <4>1. PlacesOf(r) = disk /\ front = disk /\ back = <<>>
        BY <1>3, <3>2 DEF PlacesOf
      <4> HIDE DEF disk, front, back
      <4> QED
        BY <1>1, <4>1, ConcatEmptySeq
    <3>3. CASE "a" \notin r.opts /\ r.opts \cap {"x", "m"} # {}
      BY <1>3, <3>3 DEF PlacesOf
    <3> QED
      BY <3>1, <3>2, <3>3
  <2> HIDE DEF disk, exec, mem
  <2>2. /\ front \in Seq(Place) /\ Len(front) \in 0..2
        /\ \A i \in 1..Len(front) : front[i].where \in {"disk", "exec"}
        /\ \A i, j \in 1..Len(front) : front[i].where = front[j].where => i = j
    <3>1. /\ disk \o exec \in Seq(Place) /\ Len(disk \o exec) = 2
          /\ (disk \o exec)[1] = disk[1] /\ (disk \o exec)[2] = exec[1]
      BY <1>1, TwoPlaces
    <3>2. <<>> \in Seq(Place) /\ Len(<<>>) = 0
      BY EmptySeq
    <3>3. front \in {disk \o exec, disk, exec, <<>>}
      OBVIOUS
    <3> HIDE DEF front
    <3>4. CASE front = disk \o exec
      BY <1>1, <3>1, <3>4
    <3>5. CASE front \in {disk, exec}
      BY <1>1, <3>5
    <3>6. CASE front = <<>>
      BY <3>2, <3>6
    <3> QED
      BY <3>3, <3>4, <3>5, <3>6
  <2>3. back \in Seq(Place) /\ Len(back) \in 0..1 /\ \A i \in 1..Len(back) : back[i].where = "mem"
    <3>1. <<>> \in Seq(Place) /\ Len(<<>>) = 0
      BY EmptySeq
    <3>2. back \in {mem, <<>>}
      OBVIOUS
    <3> HIDE DEF back
    <3>3. CASE back = mem
      <4>1. back \in Seq(Place) /\ Len(back) = 1 /\ back[1].where = "mem"
        BY <1>1, <3>3
      <4>2. Len(back) \in 0..1 /\ \A i \in 1..Len(back) : i = 1
        BY <4>1
      <4> QED
        BY <4>1, <4>2
    <3>4. CASE back = <<>>
      BY <3>1, <3>4
    <3> QED
      BY <3>2, <3>3, <3>4
  <2> HIDE DEF front, back
  <2> DEFINE all == front \o back
             n == Len(front)
             m == Len(back)
  <2>4. /\ all \in Seq(Place) /\ Len(all) = n + m /\ n \in Nat /\ m \in 0..1
        /\ \A i \in 1..(n + m) : all[i] = IF i <= n THEN front[i] ELSE back[i - n]
    BY <2>2, <2>3, TwoPlaces
  <2>5. DOMAIN all = 1..(n + m)
    BY <2>4, LenProperties
  <2> HIDE DEF all, n, m
  <2>6. \A i \in 1..(n + m) : /\ i <= n => all[i] = front[i] /\ i \in 1..n
                              /\ ~ (i <= n) => /\ all[i] = back[i - n] /\ i - n \in 1..m
                                               /\ i = n + m
    BY <2>4
  <2>7. \A i \in 1..(n + m) : /\ i <= n => all[i].where \in {"disk", "exec"}
                              /\ ~ (i <= n) => all[i].where = "mem"
    BY <2>2, <2>3, <2>6 DEF n, m
  <2>8. ASSUME NEW i \in 1..(n + m), NEW j \in 1..(n + m), all[i].where = all[j].where
        PROVE  i = j
    <3>1. CASE i <= n /\ j <= n
      BY <2>2, <2>6, <2>8, <3>1 DEF n
    <3>2. CASE ~ (i <= n) /\ ~ (j <= n)
      BY <2>6, <3>2
    <3>3. CASE (i <= n /\ ~ (j <= n)) \/ (~ (i <= n) /\ j <= n)
      BY <2>7, <2>8, <3>3
    <3> QED
      BY <3>1, <3>2, <3>3
  <2>9. \A i \in 1..(n + m) : all[i].where \in {"disk", "exec", "mem"}
    BY <2>7
  <2>10. PlacesOf(r) = all
    BY <2>1 DEF all
  <2> QED
    BY <1>3, <2>4, <2>5, <2>8, <2>9, <2>10
<1> QED
  BY <1>2, <1>3 DEF ReadJob

-----------------------------------------------------------------------------
(* The variables of the reader. *)
Entries == Name \cup {Free, Dot}
Frame == [dir: Paths, names: Seq(Name \cup {Dot})]
OnDisk == {"open", "read", "entry"}
InModules == {"module", "report", "match", "again", "name", "show"}
Inside == {"report", "match", "again", "name", "show"}
OnlyDir == {"print", "descend"}

ReaderTyped ==
  /\ read \in ReadJob /\ at \in OnDisk \cup InModules \cup OnlyDir \cup {"done"}
  /\ places \in Seq(Place) /\ dir \in Paths
  /\ pos \in Nat \ {0} /\ block \in Seq(Entries) /\ Len(block) <= BlockSize /\ ended \in BOOLEAN
  /\ names \in Seq(Name \cup {Dot}) /\ stack \in Seq(Frame) /\ Len(stack) <= read.depth
  /\ listings \in Seq(Frame) /\ result \in {0, 1}
  /\ memory \in [Address -> Name \cup {Free}] /\ Residents(memory) \subseteq ever
  /\ snapshot \subseteq Address

(* Where the reader is says which one it is, and in what place. *)
InPlace ==
  /\ Behind(places, PlacesOf(read))
  /\ at = "done" <=> places = <<>>
  /\ at # "entry" => block = <<>>
  /\ at \in Inside => snapshot # {}
  /\ Qids => /\ at \notin OnlyDir /\ dir = DirAt(places) /\ stack = <<>>
             /\ at \in OnDisk => Head(places).where # "mem"
             /\ at \in InModules => Head(places).where = "mem"
  /\ ~ Qids => at \notin InModules

ReaderOK == ReaderTyped /\ InPlace

(* The next place, and the ones the reader has not come to yet. *)
LEMMA GoesToNext ==
  ASSUME ReaderOK, at # "done", NextPlace, read' = read
  PROVE  /\ places' \in Seq(Place) /\ Behind(places', PlacesOf(read))
         /\ at' \in {"open", "module", "done"} /\ dir' \in Paths /\ dir' = DirAt(places')
         /\ at' = "done" <=> places' = <<>>
         /\ at' = "open" => Head(places').where # "mem"
         /\ at' = "module" => Head(places').where = "mem"
         /\ ~ Qids => at' # "module"
         /\ Len(places') = Len(places) - 1
<1>1. /\ places # <<>> /\ places \in Seq(Place) /\ PlacesOf(read) \in Seq(Place)
      /\ Behind(places, PlacesOf(read)) /\ read \in ReadJob
  BY Places DEF ReaderOK, ReaderTyped, InPlace
<1>2. /\ places' = Tail(places) /\ places' \in Seq(Place) /\ Behind(places', PlacesOf(read))
      /\ Len(places') = Len(places) - 1
  BY <1>1, NextTaken, TailSeq DEF NextPlace
<1>3. at' = OpensAt(places') /\ dir' = DirAt(places')
  BY <1>2 DEF NextPlace
<1>4. CASE places' = <<>>
  BY <1>2, <1>3, <1>4, ScanAssumption DEF OpensAt, DirAt
<1>5. CASE places' # <<>>
  <2>1. Head(places') \in Place /\ Head(places') \in Range(PlacesOf(read))
    BY <1>1, <1>2, <1>5, NextTaken, TailSeq
  <2>2. ~ Qids => Head(places').where = "path"
    BY <1>1, <2>1, Places DEF Qids, Range, ReadJob
  <2>3. dir' = Head(places').dir /\ at' = IF Head(places').where = "mem" THEN "module" ELSE "open"
    BY <1>3, <1>5 DEF OpensAt, DirAt
  <2>4. dir' \in Paths
    BY <2>1, <2>3 DEF Place
  <2> QED
    BY <1>2, <1>3, <1>5, <2>2, <2>3, <2>4
<1> QED
  BY <1>4, <1>5

LEMMA ReaderAtStart ==
  ASSUME Init
  PROVE  ReaderOK
<1>1. PICK s \in Situations : DirectoryInit(s.tree, s.jobs) /\ read = s.read /\ memory = s.memory
  BY DEF Init
<1>2. read \in ReadJob /\ memory \in [Address -> Name \cup {Free}]
  BY <1>1, ScanAssumption
<1>3. /\ places = PlacesOf(read) /\ at = OpensAt(places) /\ dir = DirAt(places)
      /\ pos = 1 /\ block = <<>> /\ ended = FALSE /\ names = <<>> /\ stack = <<>>
      /\ reports = <<>> /\ listings = <<>> /\ result = 0 /\ ever = Residents(memory)
      /\ snapshot = {}
  BY DEF Init
<1>4. places \in Seq(Place) /\ Behind(places, PlacesOf(read))
  BY <1>2, <1>3, Places, AllTaken
<1>5. /\ at \in {"open", "module", "done"} /\ dir \in Paths
      /\ at = "done" <=> places = <<>>
      /\ at = "open" => Head(places).where # "mem"
      /\ at = "module" => Head(places).where = "mem"
      /\ ~ Qids => at # "module"
  <2>1. CASE places = <<>>
    BY <1>3, <2>1, ScanAssumption DEF OpensAt, DirAt
  <2>2. CASE places # <<>>
    <3>1. Head(places) \in Place /\ Head(places) = places[1] /\ 1 \in DOMAIN places
      BY <1>4, <2>2, TailSeq, LenProperties
    <3>2. ~ Qids => Head(places).where = "path"
      BY <1>2, <1>3, <3>1, Places DEF Qids, ReadJob
    <3>3. dir = Head(places).dir /\ at = IF Head(places).where = "mem" THEN "module" ELSE "open"
      BY <1>3, <2>2 DEF OpensAt, DirAt
    <3>4. dir \in Paths
      BY <3>1, <3>3 DEF Place
    <3> QED
      BY <2>2, <3>2, <3>3, <3>4
  <2> QED
    BY <2>1, <2>2
<1>6. <<>> \in Seq(Entries) /\ <<>> \in Seq(Name \cup {Dot}) /\ <<>> \in Seq(Frame) /\ Len(<<>>) = 0
  BY EmptySeq
<1>7. read.depth \in Nat /\ BlockSize \in Nat
  BY <1>2, ScanAssumption DEF ReadJob
<1>8. Len(block) <= BlockSize /\ Len(stack) <= read.depth
  BY <1>3, <1>6, <1>7
<1>9. ReaderTyped
  <2>1. /\ at \in OnDisk \cup InModules \cup OnlyDir \cup {"done"}
        /\ ended \in BOOLEAN /\ snapshot \subseteq Address /\ Residents(memory) \subseteq ever
    BY <1>3, <1>5 DEF OnDisk, InModules, Inside, OnlyDir
  <2>2. pos \in Nat \ {0} /\ result \in {0, 1}
    BY <1>3
  <2>3. /\ block \in Seq(Entries) /\ names \in Seq(Name \cup {Dot}) /\ stack \in Seq(Frame)
        /\ listings \in Seq(Frame)
    BY <1>3, <1>6
  <2> QED
    BY <1>2, <1>4, <1>5, <1>8, <2>1, <2>2, <2>3 DEF ReaderTyped
<1>10. InPlace
  BY <1>3, <1>4, <1>5 DEF InPlace, OnDisk, InModules, Inside, OnlyDir
<1> QED
  BY <1>9, <1>10 DEF ReaderOK

-----------------------------------------------------------------------------
(* What a directory holds at a slot. *)
LEMMA EntryTyped ==
  ASSUME WellFormed(tree), NEW d, NEW s
  PROVE  EntryAt(d, s) \in Entries
<1>1. CASE s # 1 /\ \E p \in Children(d) : tree[p].slot = s
  <2>1. PICK p \in Children(d) : EntryAt(d, s) = Last(p)
    BY <1>1 DEF EntryAt
  <2>2. p \in Paths /\ p # <<>>
    BY <2>1 DEF Children, WellFormed
  <2>3. p \in Seq(Name)
    BY <2>2, PathSeq
  <2>4. Len(p) \in 1..Len(p)
    BY <2>2, <2>3, EmptySeq
  <2>5. Last(p) \in Name
    BY <2>3, <2>4, ElementOfSeq DEF Last
  <2> QED
    BY <2>1, <2>5 DEF Entries
<1>2. CASE ~ (s # 1 /\ \E p \in Children(d) : tree[p].slot = s)
  BY <1>2 DEF EntryAt, Entries
<1> QED
  BY <1>1, <1>2

(* add_name(): where a name goes. *)
LEMMA BeforeIs ==
  ASSUME NEW list \in Seq(Name \cup {Dot}), NEW n \in Name \cup {Dot}
  PROVE  /\ Before(list, n) \in 0..Len(list)
         /\ \A j \in 1..Before(list, n) : list[j] < n
         /\ Before(list, n) = Len(list) \/ ~ (list[Before(list, n) + 1] < n)
<1> DEFINE S == {i \in 0..Len(list) : i = Len(list) \/ ~ (list[i + 1] < n)}
<1>1. Len(list) \in Nat
  BY LenProperties
<1>2. S \subseteq Nat /\ Len(list) \in S
  BY <1>1
<1>3. PICK i \in S : \A j \in S : i <= j
  <2> HIDE DEF S
  <2> QED
    BY <1>2, LeastNatural
<1>4. ASSUME NEW j \in 1..i PROVE list[j] < n
  <2>1. j - 1 \in 0..Len(list) /\ j - 1 < i /\ j - 1 # Len(list) /\ j - 1 + 1 = j
    BY <1>1, <1>3
  <2>2. j - 1 \notin S
    <3> HIDE DEF S
    <3> QED
      BY <1>2, <1>3, <2>1
  <2> QED
    BY <2>1, <2>2
<1>5. \E k \in 0..Len(list) : /\ \A j \in 1..k : list[j] < n
                              /\ k = Len(list) \/ ~ list[k + 1] < n
  BY <1>3, <1>4
<1> QED
  BY <1>5 DEF Before

LEMMA NameAdded ==
  ASSUME NEW list \in Seq(Name \cup {Dot}), NEW n \in Name \cup {Dot}
  PROVE  /\ AddName(list, n) \in Seq(Name \cup {Dot}) /\ Len(AddName(list, n)) = Len(list) + 1
         /\ \E i \in 0..Len(list) :
              /\ \A j \in 1..i : AddName(list, n)[j] = list[j]
              /\ AddName(list, n)[i + 1] = n
              /\ \A j \in (i + 2)..(Len(list) + 1) : AddName(list, n)[j] = list[j - 1]
              /\ "s" \notin read.opts => /\ \A j \in 1..i : list[j] < n
                                         /\ i = Len(list) \/ ~ (list[i + 1] < n)
<1> DEFINE S == Name \cup {Dot}
<1>1. Len(list) \in Nat /\ \A j \in 1..Len(list) : list[j] \in S
  BY LenProperties, ElementOfSeq
<1>2. PICK i \in 0..Len(list) :
        /\ AddName(list, n) = SubSeq(list, 1, i) \o <<n>> \o SubSeq(list, i + 1, Len(list))
        /\ "s" \notin read.opts => /\ \A j \in 1..i : list[j] < n
                                   /\ i = Len(list) \/ ~ (list[i + 1] < n)
  <2>1. CASE "s" \in read.opts
    <3>1. AddName(list, n) = SubSeq(list, 1, 0) \o <<n>> \o SubSeq(list, 0 + 1, Len(list))
      BY <2>1 DEF AddName
    <3>2. 0 \in 0..Len(list)
      BY <1>1
    <3> QED
      BY <2>1, <3>1, <3>2
  <2>2. CASE "s" \notin read.opts
    <3>1. AddName(list, n) = SubSeq(list, 1, Before(list, n)) \o <<n>>
                               \o SubSeq(list, Before(list, n) + 1, Len(list))
      BY <2>2 DEF AddName
    <3> QED
      BY <2>2, <3>1, BeforeIs
  <2> QED
    BY <2>1, <2>2
<1> DEFINE a == SubSeq(list, 1, i)
           b == SubSeq(list, i + 1, Len(list))
           all == (a \o <<n>>) \o b
<1>3. /\ a \in Seq(S) /\ Len(a) = i /\ \A j \in 1..i : a[j] = list[j]
  BY <1>1, SubSeqProperties
<1>4. /\ b \in Seq(S) /\ Len(b) = Len(list) - i
      /\ \A j \in 1..(Len(list) - i) : b[j] = list[i + j]
  <2>1. i + 1 \in Int /\ Len(list) \in Int /\ \A j \in (i + 1)..Len(list) : list[j] \in S
    BY <1>1
  <2>2. /\ b \in Seq(S) /\ Len(b) = IF i + 1 <= Len(list) THEN Len(list) - (i + 1) + 1 ELSE 0
        /\ \A j \in 1..(Len(list) - (i + 1) + 1) : b[j] = list[i + 1 + j - 1]
    BY <2>1, SubSeqProperties
  <2>3. \A j \in 1..(Len(list) - i) : i + 1 + j - 1 = i + j
    BY <1>1
  <2>4. Len(list) - (i + 1) + 1 = Len(list) - i
    BY <1>1
  <2>5. Len(b) = Len(list) - i
    BY <1>1, <2>2
  <2> HIDE DEF b
  <2> QED
    BY <1>1, <2>2, <2>3, <2>4, <2>5
<1> HIDE DEF a, b
<1>5. <<n>> \in Seq(S) /\ Len(<<n>>) = 1 /\ <<n>>[1] = n
  OBVIOUS
<1>6. /\ a \o <<n>> \in Seq(S) /\ Len(a \o <<n>>) = i + 1
      /\ \A j \in 1..(i + 1) : (a \o <<n>>)[j] = IF j <= i THEN a[j] ELSE <<n>>[j - i]
  BY <1>3, <1>5, ConcatProperties
<1> DEFINE c == a \o <<n>>
<1>7. /\ c \in Seq(S) /\ Len(c) = i + 1 /\ \A j \in 1..i : c[j] = list[j]
      /\ c[i + 1] = n
  BY <1>3, <1>5, <1>6
<1> HIDE DEF c
<1>8. /\ c \o b \in Seq(S) /\ Len(c \o b) = i + 1 + (Len(list) - i)
      /\ \A j \in 1..(i + 1 + (Len(list) - i)) :
           (c \o b)[j] = IF j <= i + 1 THEN c[j] ELSE b[j - (i + 1)]
  <2>1. /\ c \o b \in Seq(S) /\ Len(c \o b) = Len(c) + Len(b)
        /\ \A j \in 1..(Len(c) + Len(b)) :
             (c \o b)[j] = IF j <= Len(c) THEN c[j] ELSE b[j - Len(c)]
    BY <1>4, <1>7, ConcatProperties
  <2> QED
    BY <1>4, <1>7, <2>1
<1>9. i + 1 + (Len(list) - i) = Len(list) + 1
  BY <1>1
<1>10. \A j \in 1..i : (c \o b)[j] = list[j]
  BY <1>1, <1>7, <1>8
<1>11. (c \o b)[i + 1] = n
  BY <1>1, <1>7, <1>8
<1>12. ASSUME NEW j \in (i + 2)..(Len(list) + 1) PROVE (c \o b)[j] = list[j - 1]
  <2>1. /\ j \in 1..(i + 1 + (Len(list) - i)) /\ ~ (j <= i + 1)
        /\ j - (i + 1) \in 1..(Len(list) - i) /\ i + (j - (i + 1)) = j - 1
    BY <1>1
  <2> QED
    BY <1>4, <1>8, <2>1
<1>13. AddName(list, n) = c \o b
  BY <1>2 DEF a, b, c
<1> QED
  BY <1>2, <1>8, <1>9, <1>10, <1>11, <1>12, <1>13

-----------------------------------------------------------------------------
(* Every step of a reader keeps that in order. *)
LEMMA Pushed ==
  ASSUME NEW S, NEW f \in S, NEW s \in Seq(S)
  PROVE  /\ <<f>> \o s \in Seq(S) /\ Len(<<f>> \o s) = Len(s) + 1
         /\ (<<f>> \o s)[1] = f
         /\ \A j \in 1..Len(s) : (<<f>> \o s)[j + 1] = s[j]
<1>1. <<f>> \in Seq(S) /\ Len(<<f>>) = 1 /\ <<f>>[1] = f
  OBVIOUS
<1> DEFINE h == <<f>>
<1>2. Len(s) \in Nat /\ h \in Seq(S) /\ Len(h) = 1 /\ h[1] = f
  BY <1>1, LenProperties
<1> HIDE DEF h
<1>3. /\ h \o s \in Seq(S) /\ Len(h \o s) = Len(h) + Len(s)
      /\ \A j \in 1..(Len(h) + Len(s)) : (h \o s)[j] = IF j <= Len(h) THEN h[j] ELSE s[j - Len(h)]
  BY <1>2, ConcatProperties
<1>4. /\ h \o s \in Seq(S) /\ Len(h \o s) = Len(s) + 1 /\ (h \o s)[1] = f
      /\ \A j \in 1..Len(s) : (h \o s)[j + 1] = s[j]
  BY <1>2, <1>3
<1> QED
  BY <1>4 DEF h

LEMMA OpenStep ==
  ASSUME ReaderOK, TreeOK, OpenDir
  PROVE  ReaderOK'
<1>1. /\ UNCHANGED <<read, block, stack, reports, listings, memory, ever, snapshot>>
      /\ at = "open" /\ block = <<>>
  BY DEF OpenDir, residents, inspection, ReaderOK, InPlace
<1>2. CASE IsDir(dir)
  <2>1. /\ at' = "read" /\ pos' = 1 /\ ended' = FALSE /\ names' = <<>>
        /\ UNCHANGED <<places, dir, result>>
    BY <1>2 DEF OpenDir
  <2>2. /\ <<>> \in Seq(Name \cup {Dot})
        /\ ended' \in BOOLEAN
        /\ pos' \in Nat \ {0}
    <3>1. <<>> \in Seq(Name \cup {Dot})
      BY EmptySeq
    <3>2. ended' \in BOOLEAN
      BY <2>1, Zenon
    <3>3. 1 \in Nat \ {0}
      OBVIOUS
    <3> QED
      BY <2>1, <3>1, <3>2, <3>3, Zenon
  <2>3. ReaderTyped'
    BY <1>1, <2>1, <2>2 DEF ReaderOK, ReaderTyped, OnDisk, InModules, Inside, OnlyDir, Residents
  <2>4. InPlace'
    BY <1>1, <2>1 DEF ReaderOK, InPlace, OnDisk, InModules, Inside, OnlyDir, Qids
  <2> QED
    BY <2>3, <2>4 DEF ReaderOK
<1>3. CASE ~ IsDir(dir) /\ Qids
  <2>1. NextPlace /\ UNCHANGED <<pos, ended, names>> /\ result' = 1
    BY <1>3 DEF OpenDir
  <2>2. /\ places' \in Seq(Place) /\ Behind(places', PlacesOf(read))
        /\ at' \in {"open", "module", "done"} /\ dir' \in Paths /\ dir' = DirAt(places')
        /\ at' = "done" <=> places' = <<>>
        /\ at' = "open" => Head(places').where # "mem"
        /\ at' = "module" => Head(places').where = "mem"
    BY <1>1, <2>1, GoesToNext
  <2>3. ReaderTyped'
    BY <1>1, <2>1, <2>2 DEF ReaderOK, ReaderTyped, OnDisk, InModules, Inside, OnlyDir, Residents
  <2>4. InPlace'
    BY <1>1, <1>3, <2>1, <2>2 DEF ReaderOK, InPlace, OnDisk, InModules, Inside, OnlyDir, Qids
  <2> QED
    BY <2>3, <2>4 DEF ReaderOK
<1>4. CASE ~ IsDir(dir) /\ ~ Qids
  <2>1. at' = "descend" /\ UNCHANGED <<places, dir, pos, ended, names>> /\ result' \in {1, result}
    BY <1>4 DEF OpenDir
  <2>2. ReaderTyped'
    BY <1>1, <2>1 DEF ReaderOK, ReaderTyped, OnDisk, InModules, Inside, OnlyDir, Residents
  <2>3. InPlace'
    BY <1>1, <1>4, <2>1 DEF ReaderOK, InPlace, OnDisk, InModules, Inside, OnlyDir, Qids
  <2> QED
    BY <2>2, <2>3 DEF ReaderOK
<1> QED
  BY <1>2, <1>3, <1>4

(* What a block holds: as many entries as there are left, from pos on. *)
LEMMA BlockRead ==
  ASSUME ReaderOK, TreeOK, ReadBlock
  PROVE  \E n \in 0..BlockSize :
           /\ block' \in Seq(Entries) /\ Len(block') = n
           /\ \A j \in 1..n : block'[j] = EntryAt(dir, pos + j - 1)
           /\ ended' = (n < BlockSize)
           /\ n < BlockSize => \A s \in Nat : s <= SlotsNow => s < pos + n
<1> DEFINE n == IF pos > SlotsNow THEN 0 ELSE Least(BlockSize, SlotsNow - pos + 1)
<1>1. SlotsNow \in Nat /\ pos \in Nat \ {0} /\ BlockSize \in Nat \ {0}
  <2>1. IsDir(dir) => tree[dir] \in Entry
    BY DEF TreeOK, WellFormed, IsDir
  <2>2. IsDir(dir) => tree[dir].size \in Nat
    BY <2>1, DirectoryAssumption DEF Entry
  <2> QED
    BY <2>2, ScanAssumption DEF SlotsNow, ReaderOK, ReaderTyped
<1>2. n \in 0..BlockSize /\ (n < BlockSize => \A s \in Nat : s <= SlotsNow => s < pos + n)
  BY <1>1 DEF Least
<1>3. block' = [i \in 1..n |-> EntryAt(dir, pos + i - 1)] /\ ended' = (n < BlockSize)
  BY DEF ReadBlock
<1> HIDE DEF n
<1>4. \A i \in 1..n : EntryAt(dir, pos + i - 1) \in Entries
  BY EntryTyped DEF TreeOK
<1>5. block' \in [1..n -> Entries]
  BY <1>3, <1>4
<1>6. block' \in Seq(Entries) /\ Len(block') = n
  BY <1>2, <1>5
<1> QED
  BY <1>2, <1>3, <1>6

LEMMA BlockStep ==
  ASSUME ReaderOK, TreeOK, ReadBlock \/ ReadFails \/ NextBlock
  PROVE  ReaderOK'
<1>1. /\ UNCHANGED <<read, places, dir, names, stack, reports, listings, result, memory, ever, snapshot>>
      /\ at \in {"read", "entry"} /\ at' \in {"read", "entry"}
      /\ at' # "entry" => block' = <<>>
  BY DEF ReadBlock, ReadFails, NextBlock, output, residents, inspection, ReaderOK, InPlace
<1>2. block' \in Seq(Entries) /\ Len(block') <= BlockSize
  <2>1. CASE ReadBlock
    BY <2>1, BlockRead, ScanAssumption
  <2>2. CASE ReadFails \/ NextBlock
    BY <2>2 DEF ReadFails, NextBlock, ReaderOK, ReaderTyped
  <2> QED
    BY <2>1, <2>2
<1>3. pos' \in Nat \ {0}
  BY ScanAssumption DEF ReadBlock, ReadFails, NextBlock, ReaderOK, ReaderTyped
<1>4. ended' \in BOOLEAN
  <2>1. ASSUME ReadBlock PROVE ended' \in BOOLEAN
    <3>1. PICK n \in 0..BlockSize : ended' = (n < BlockSize)
      BY <2>1, BlockRead
    <3>2. ended' = TRUE \/ ended' = FALSE
      BY <3>1, SMT
    <3> QED
      BY <3>2, Zenon
  <2>2. ASSUME ReadFails PROVE ended' \in BOOLEAN
    BY <2>2, Zenon DEF ReadFails
  <2>3. ASSUME NextBlock PROVE ended' \in BOOLEAN
    BY <2>3, Zenon DEF NextBlock, ReaderOK, ReaderTyped
  <2> QED
    BY <2>1, <2>2, <2>3, Zenon
<1>5. ReaderTyped'
  BY <1>1, <1>2, <1>3, <1>4 DEF ReaderOK, ReaderTyped, OnDisk, InModules, Inside, OnlyDir, Residents
<1>6. InPlace'
  BY <1>1 DEF ReaderOK, InPlace, OnDisk, InModules, Inside, OnlyDir, Qids
<1> QED
  BY <1>5, <1>6 DEF ReaderOK

LEMMA EndStep ==
  ASSUME ReaderOK, TreeOK, EndOfDirectory
  PROVE  ReaderOK'
<1>1. /\ UNCHANGED <<read, pos, block, ended, names, stack, reports, listings, result, memory, ever, snapshot>>
      /\ at = "read" /\ block = <<>>
  BY DEF EndOfDirectory, output, residents, inspection, ReaderOK, InPlace
<1>2. CASE Qids
  <2>1. NextPlace
    BY <1>2 DEF EndOfDirectory
  <2>2. /\ places' \in Seq(Place) /\ Behind(places', PlacesOf(read))
        /\ at' \in {"open", "module", "done"} /\ dir' \in Paths /\ dir' = DirAt(places')
        /\ at' = "done" <=> places' = <<>>
        /\ at' = "open" => Head(places').where # "mem"
        /\ at' = "module" => Head(places').where = "mem"
    BY <1>1, <2>1, GoesToNext
  <2>3. ReaderTyped'
    BY <1>1, <2>1, <2>2 DEF ReaderOK, ReaderTyped, OnDisk, InModules, Inside, OnlyDir, Residents
  <2>4. InPlace'
    BY <1>1, <1>2, <2>1, <2>2 DEF ReaderOK, InPlace, OnDisk, InModules, Inside, OnlyDir, Qids
  <2> QED
    BY <2>3, <2>4 DEF ReaderOK
<1>3. CASE ~ Qids
  <2>1. at' = "print" /\ UNCHANGED <<places, dir>>
    BY <1>3 DEF EndOfDirectory
  <2>2. ReaderTyped'
    BY <1>1, <2>1 DEF ReaderOK, ReaderTyped, OnDisk, InModules, Inside, OnlyDir, Residents
  <2>3. InPlace'
    BY <1>1, <1>3, <2>1 DEF ReaderOK, InPlace, OnDisk, InModules, Inside, OnlyDir, Qids
  <2> QED
    BY <2>2, <2>3 DEF ReaderOK
<1> QED
  BY <1>2, <1>3

LEMMA EntryStep ==
  ASSUME ReaderOK, TreeOK, QidEntry \/ DirEntry \/ NoMemory
  PROVE  ReaderOK'
<1>1. /\ UNCHANGED <<read, at, places, dir, pos, ended, stack, listings, memory, ever, snapshot>>
      /\ at = "entry" /\ block # <<>> /\ block' = Tail(block)
      /\ block \in Seq(Entries) /\ Len(block) <= BlockSize
  BY DEF QidEntry, DirEntry, NoMemory, Report, output, residents, inspection, ReaderOK, ReaderTyped
<1>2. /\ block' \in Seq(Entries) /\ Head(block) \in Entries
      /\ Len(block') <= BlockSize
  <2>1. /\ Tail(block) \in Seq(Entries) /\ Head(block) \in Entries
        /\ Len(Tail(block)) = Len(block) - 1 /\ Len(block) \in Nat
    BY <1>1, TailSeq
  <2>2. Len(Tail(block)) <= BlockSize
    BY <1>1, <2>1, ScanAssumption
  <2> QED
    BY <1>1, <2>1, <2>2
<1>3. names' \in Seq(Name \cup {Dot}) /\ result' \in {0, 1}
  <2>1. CASE QidEntry
    BY <2>1 DEF QidEntry, Report, output, ReaderOK, ReaderTyped
  <2>2. CASE DirEntry
    <3>1. Head(block) # Free => Head(block) \in Name \cup {Dot}
      BY <1>2 DEF Entries
    <3>2. names' = names \/ (Head(block) # Free /\ names' = AddName(names, Head(block)))
      BY <2>2 DEF DirEntry, Shown
    <3>3. names \in Seq(Name \cup {Dot})
      BY DEF ReaderOK, ReaderTyped
    <3>4. Head(block) # Free => AddName(names, Head(block)) \in Seq(Name \cup {Dot})
      BY <3>1, <3>3, NameAdded
    <3>5. names' \in Seq(Name \cup {Dot})
      BY <3>2, <3>3, <3>4
    <3> QED
      BY <2>2, <3>5 DEF DirEntry, output, ReaderOK, ReaderTyped
  <2>3. CASE NoMemory
    BY <2>3 DEF NoMemory, output, ReaderOK, ReaderTyped
  <2> QED
    BY <2>1, <2>2, <2>3
<1>4. ReaderTyped'
  BY <1>1, <1>2, <1>3 DEF ReaderOK, ReaderTyped, Residents
<1>5. InPlace'
  BY <1>1 DEF ReaderOK, InPlace, Qids, Inside
<1> QED
  BY <1>4, <1>5 DEF ReaderOK

LEMMA PresentIs ==
  ASSUME ReaderOK, snapshot # {}
  PROVE  Present \in snapshot /\ Present \in Address
<1>1. snapshot \subseteq Address /\ snapshot \subseteq Nat
  BY ScanAssumption DEF ReaderOK, ReaderTyped
<1>2. \E m \in snapshot : \A n \in snapshot : m <= n
  BY <1>1, LeastNatural
<1> QED
  BY <1>1, <1>2 DEF Present, Min

(* A read of memory leaves everything else alone. *)
MemoryRead ==
  Snapshot \/ ModulesFail \/ Header \/ Match \/ HeaderAgain \/ NameAgain \/ Show

LEMMA MemoryFrame ==
  ASSUME ReaderOK, MemoryRead
  PROVE  /\ UNCHANGED <<read, pos, block, ended, names, stack, listings, memory, ever, broken>>
         /\ at \in InModules /\ block = <<>> /\ Qids /\ Where = "mem"
         /\ snapshot' \subseteq Address
         /\ \/ NextPlace
            \/ at' \in Inside /\ snapshot' # {} /\ UNCHANGED <<places, dir>>
<1>1. /\ at \in InModules => block = <<>> /\ Qids /\ Where = "mem"
      /\ at \in Inside => snapshot # {}
      /\ snapshot \subseteq Address
  BY DEF ReaderOK, ReaderTyped, InPlace, InModules, Where
<1>2. CASE Snapshot \/ ModulesFail
  BY <1>1, <1>2 DEF Snapshot, ModulesFail, output, residents, InModules, Inside
<1>3. CASE Header \/ HeaderAgain
  BY <1>1, <1>3 DEF Header, HeaderAgain, ReadHeader, NextModule, Report, output, residents,
                    InModules, Inside
<1>4. CASE Match \/ NameAgain \/ Show
  BY <1>1, <1>4 DEF Match, NameAgain, Show, NextModule, Report, output, residents, InModules,
                    Inside
<1> QED
  BY <1>2, <1>3, <1>4 DEF MemoryRead

LEMMA MemoryResult ==
  ASSUME ReaderOK, MemoryRead
  PROVE  result' \in {0, 1} /\ (result' = 0 => result = 0)
BY DEF MemoryRead, Snapshot, ModulesFail, Header, Match, HeaderAgain, NameAgain, Show, Report, output,
       ReaderOK, ReaderTyped

LEMMA ModuleStep ==
  ASSUME ReaderOK, TreeOK, MemoryRead
  PROVE  ReaderOK'
<1>1. /\ UNCHANGED <<read, pos, block, ended, names, stack, listings, memory, ever>>
      /\ at \in InModules /\ block = <<>> /\ Qids
      /\ snapshot' \subseteq Address /\ result' \in {0, 1}
  BY MemoryFrame, MemoryResult
<1>2. CASE NextPlace
  <2>1. /\ places' \in Seq(Place) /\ Behind(places', PlacesOf(read))
        /\ at' \in {"open", "module", "done"} /\ dir' \in Paths /\ dir' = DirAt(places')
        /\ at' = "done" <=> places' = <<>>
        /\ at' = "open" => Head(places').where # "mem"
        /\ at' = "module" => Head(places').where = "mem"
    BY <1>1, <1>2, GoesToNext DEF InModules
  <2>2. ReaderTyped'
    BY <1>1, <2>1 DEF ReaderOK, ReaderTyped, OnDisk, InModules, Inside, OnlyDir, Residents
  <2>3. InPlace'
    BY <1>1, <2>1 DEF ReaderOK, InPlace, OnDisk, InModules, Inside, OnlyDir, Qids
  <2> QED
    BY <2>2, <2>3 DEF ReaderOK
<1>3. CASE at' \in Inside /\ snapshot' # {} /\ UNCHANGED <<places, dir>>
  <2>1. ReaderTyped'
    BY <1>1, <1>3 DEF ReaderOK, ReaderTyped, OnDisk, InModules, Inside, OnlyDir, Residents
  <2>2. InPlace'
    BY <1>1, <1>3 DEF ReaderOK, InPlace, OnDisk, InModules, Inside, OnlyDir, Qids
  <2> QED
    BY <2>1, <2>2 DEF ReaderOK
<1> QED
  BY <1>2, <1>3, MemoryFrame

LEMMA SwapStep ==
  ASSUME ReaderOK, Swap
  PROVE  ReaderOK'
<1>1. UNCHANGED <<read, at, places, dir, pos, block, ended, names, stack, reports, listings, result, snapshot>>
  BY DEF Swap, output
<1>2. memory' \in [Address -> Name \cup {Free}] /\ Residents(memory') \subseteq ever'
  BY DEF Swap, ReaderOK, ReaderTyped
<1>3. ReaderTyped'
  BY <1>1, <1>2 DEF ReaderOK, ReaderTyped
<1>4. InPlace'
  BY <1>1 DEF ReaderOK, InPlace, Qids, Inside
<1> QED
  BY <1>3, <1>4 DEF ReaderOK

LEMMA PrintStep ==
  ASSUME ReaderOK, PrintNames
  PROVE  ReaderOK'
<1>1. /\ UNCHANGED <<read, places, dir, pos, block, ended, names, result, memory, ever, snapshot>>
      /\ at = "print" /\ at' = "descend" /\ ~ Qids /\ block = <<>>
  BY DEF PrintNames, residents, inspection, ReaderOK, InPlace, OnlyDir
<1> DEFINE f == [dir |-> dir, names |-> names]
<1>2. f \in Frame /\ stack \in Seq(Frame) /\ listings \in Seq(Frame)
  BY DEF Frame, ReaderOK, ReaderTyped
<1> HIDE DEF f
<1>3. /\ \/ listings' = listings
         \/ listings' = Append(listings, f)
      /\ \/ stack' = stack
         \/ Len(stack) < read.depth /\ stack' = <<f>> \o stack
  BY DEF PrintNames, f
<1>4. listings' \in Seq(Frame) /\ stack' \in Seq(Frame) /\ Len(stack') <= read.depth
  <2>1. listings' \in Seq(Frame)
    BY <1>2, <1>3
  <2>2. <<f>> \o stack \in Seq(Frame) /\ Len(<<f>> \o stack) = Len(stack) + 1
    BY <1>2, Pushed
  <2>3. Len(stack) \in Nat /\ read.depth \in Nat /\ Len(stack) <= read.depth
    BY <1>2, LenProperties DEF ReaderOK, ReaderTyped, ReadJob
  <2>4. Len(stack') <= read.depth
    <3>1. CASE stack' = stack
      BY <2>3, <3>1
    <3>2. CASE Len(stack) < read.depth /\ stack' = <<f>> \o stack
      BY <2>2, <2>3, <3>2
    <3> QED
      BY <1>3, <3>1, <3>2
  <2> QED
    BY <1>2, <1>3, <2>1, <2>2, <2>4
<1>5. ReaderTyped'
  BY <1>1, <1>4 DEF ReaderOK, ReaderTyped, OnDisk, InModules, Inside, OnlyDir, Residents
<1>6. InPlace'
  BY <1>1 DEF ReaderOK, InPlace, OnDisk, InModules, Inside, OnlyDir, Qids
<1> QED
  BY <1>5, <1>6 DEF ReaderOK

(* The way down and up again. *)
LEMMA WayStep ==
  ASSUME ReaderOK, TreeOK, Descend \/ Ascend
  PROVE  ReaderOK'
<1>1. /\ UNCHANGED <<read, pos, block, ended, names, reports, listings, result, memory, ever, snapshot>>
      /\ at = "descend" /\ ~ Qids /\ block = <<>> /\ stack \in Seq(Frame)
      /\ Len(stack) <= read.depth /\ Len(stack) \in Nat /\ read.depth \in Nat
  BY LenProperties DEF Descend, Ascend, output, residents, inspection, ReaderOK, ReaderTyped, InPlace,
                       OnlyDir, ReadJob
<1>2. CASE Descend
  <2> DEFINE top == Head(stack)
             rest == [top EXCEPT !.names = Tail(@)]
             child == Sub(top.dir, Head(top.names))
  <2>1. /\ stack # <<>> /\ top.names # <<>> /\ stack' = <<rest>> \o Tail(stack) /\ UNCHANGED places
        /\ \/ at' = "open" /\ dir' = child /\ IsDir(child)
           \/ UNCHANGED <<at, dir>>
    BY <1>2 DEF Descend
  <2>2. top \in Frame /\ Tail(stack) \in Seq(Frame) /\ Len(Tail(stack)) = Len(stack) - 1
    BY <1>1, <2>1, TailSeq
  <2>3. rest \in Frame
    <3>1. Tail(top.names) \in Seq(Name \cup {Dot})
      BY <2>1, <2>2, TailSeq DEF Frame
    <3> HIDE DEF top
    <3> QED
      BY <2>2, <3>1 DEF Frame
  <2> HIDE DEF rest
  <2>4. stack' \in Seq(Frame) /\ Len(stack') = Len(stack)
    <3>1. /\ <<rest>> \o Tail(stack) \in Seq(Frame)
          /\ Len(<<rest>> \o Tail(stack)) = Len(Tail(stack)) + 1
      BY <2>2, <2>3, Pushed
    <3> QED
      BY <1>1, <2>1, <2>2, <3>1
  <2>5. dir' \in Paths
    BY <2>1 DEF IsDir, TreeOK, WellFormed, ReaderOK, ReaderTyped
  <2>6. ReaderTyped'
    BY <1>1, <2>1, <2>4, <2>5 DEF ReaderOK, ReaderTyped, OnDisk, InModules, Inside, OnlyDir, Residents
  <2>7. InPlace'
    BY <1>1, <2>1 DEF ReaderOK, InPlace, OnDisk, InModules, Inside, OnlyDir, Qids
  <2> QED
    BY <2>6, <2>7 DEF ReaderOK
<1>3. CASE Ascend /\ stack # <<>>
  <2>1. stack' = Tail(stack) /\ UNCHANGED <<at, places, dir>>
    BY <1>3 DEF Ascend
  <2>2. stack' \in Seq(Frame) /\ Len(stack') <= read.depth
    <3>1. Tail(stack) \in Seq(Frame) /\ Len(Tail(stack)) = Len(stack) - 1
      BY <1>1, <1>3, TailSeq
    <3> QED
      BY <1>1, <2>1, <3>1
  <2>3. ReaderTyped'
    BY <1>1, <2>1, <2>2 DEF ReaderOK, ReaderTyped, OnDisk, InModules, Inside, OnlyDir, Residents
  <2>4. InPlace'
    BY <1>1, <2>1 DEF ReaderOK, InPlace, OnDisk, InModules, Inside, OnlyDir, Qids
  <2> QED
    BY <2>3, <2>4 DEF ReaderOK
<1>4. CASE Ascend /\ stack = <<>>
  <2>1. NextPlace /\ UNCHANGED stack
    BY <1>4 DEF Ascend
  <2>2. /\ places' \in Seq(Place) /\ Behind(places', PlacesOf(read))
        /\ at' \in {"open", "module", "done"} /\ dir' \in Paths
        /\ at' = "done" <=> places' = <<>>
        /\ at' # "module"
    BY <1>1, <2>1, GoesToNext
  <2>3. ReaderTyped'
    BY <1>1, <2>1, <2>2 DEF ReaderOK, ReaderTyped, OnDisk, InModules, Inside, OnlyDir, Residents
  <2>4. InPlace'
    BY <1>1, <2>2 DEF ReaderOK, InPlace, OnDisk, InModules, Inside, OnlyDir, Qids
  <2> QED
    BY <2>3, <2>4 DEF ReaderOK
<1> QED
  BY <1>2, <1>3, <1>4

LEMMA ReaderStep ==
  ASSUME ReaderOK, TreeOK, [Next]_vars
  PROVE  ReaderOK'
<1>1. CASE UNCHANGED scanVars
  BY <1>1 DEF scanVars, output, residents, inspection, ReaderOK, ReaderTyped, InPlace, Qids, Inside
<1>2. CASE Read
  BY <1>2, OpenStep, BlockStep, EndStep, EntryStep, ModuleStep, PrintStep, WayStep
  DEF Read, MemoryRead
<1>3. CASE Fail \/ Swap
  BY <1>3, BlockStep, EntryStep, ModuleStep, SwapStep DEF Fail, MemoryRead
<1> QED
  BY <1>1, <1>2, <1>3 DEF Next, WriteStep, vars

LEMMA ReaderInvariant == Spec => []ReaderOK
<1>1. Init => ReaderOK
  BY ReaderAtStart
<1>2. ReaderOK /\ TreeOK /\ [Next]_vars => ReaderOK'
  BY ReaderStep
<1> QED
  BY <1>1, <1>2, DirectoryInvariant, PTL DEF Spec

(* Elsewhere nothing is read of memory, and nothing changes there. *)
LEMMA Elsewhere ==
  ASSUME ReaderOK, [Next]_vars, ~ MemoryRead, ~ Swap
  PROVE  UNCHANGED <<inspection, residents>> /\ (at' \notin Inside \/ at' = at)
<1>1. NextPlace => at' \notin Inside
  BY DEF NextPlace, OpensAt, Inside
<1>2. CASE OpenDir \/ ReadBlock \/ NextBlock \/ EndOfDirectory \/ QidEntry
  BY <1>1, <1>2 DEF OpenDir, ReadBlock, NextBlock, EndOfDirectory, QidEntry, Inside
<1>3. CASE DirEntry \/ PrintNames \/ Descend \/ Ascend
  BY <1>1, <1>3 DEF DirEntry, PrintNames, Descend, Ascend, Inside
<1>4. CASE ReadFails \/ NoMemory
  BY <1>4 DEF ReadFails, NoMemory
<1>5. CASE UNCHANGED scanVars
  BY <1>5 DEF scanVars
<1> QED
  BY <1>2, <1>3, <1>4, <1>5 DEF Next, Read, Fail, MemoryRead, WriteStep, vars

(* What qid holds of the module it is looking at. *)
InspectionTyped ==
  /\ header \in Name \cup {Free} /\ display \in Name \cup {Free} /\ title \in Name \cup {Free}
  /\ intact \in BOOLEAN /\ broken \in BOOLEAN /\ lost \in BOOLEAN

LEMMA FindsTyped == InspectionTyped => Finds \subseteq Name \cup {Free}
BY DEF InspectionTyped, Finds

LEMMA NamesRead ==
  ASSUME ReaderOK, InspectionTyped, MemoryRead
  PROVE  header' \in Name \cup {Free} /\ display' \in Name \cup {Free} /\ title' \in Name \cup {Free}
<1>1. at \in Inside => memory[Present] \in Name \cup {Free}
  BY PresentIs DEF ReaderOK, ReaderTyped, InPlace
<1>2. CASE Snapshot \/ ModulesFail \/ Show
  BY <1>2 DEF Snapshot, ModulesFail, Show, InspectionTyped
<1>3. CASE Header \/ HeaderAgain
  BY <1>1, <1>3 DEF Header, HeaderAgain, ReadHeader, InspectionTyped, Inside
<1>4. CASE Match \/ NameAgain
  BY <1>4, FindsTyped DEF Match, NameAgain, InspectionTyped
<1> QED
  BY <1>2, <1>3, <1>4 DEF MemoryRead

LEMMA InspectionStep ==
  ASSUME ReaderOK, InspectionTyped, [Next]_vars
  PROVE  InspectionTyped'
<1>1. header' \in Name \cup {Free} /\ display' \in Name \cup {Free} /\ title' \in Name \cup {Free}
  <2>1. CASE ~ MemoryRead
    <3>1. UNCHANGED <<header, display, title>>
      BY <2>1, Elsewhere DEF Swap, inspection
    <3> QED
      BY <3>1 DEF InspectionTyped
  <2> QED
    BY <2>1, NamesRead
<1>2. intact' \in BOOLEAN
  <2>1. ASSUME Swap PROVE intact' \in BOOLEAN
    BY <2>1, Zenon DEF Swap
  <2>2. ASSUME MemoryRead PROVE intact' = intact \/ intact' = TRUE
    BY <2>2, Zenon DEF MemoryRead, Snapshot, ModulesFail, Header, Match, HeaderAgain, NameAgain, Show,
                      ReadHeader
  <2>3. ASSUME ~ MemoryRead, ~ Swap PROVE intact' = intact
    BY <2>3, Elsewhere, Zenon DEF inspection
  <2> QED
    BY <2>1, <2>2, <2>3, Zenon DEF InspectionTyped
<1>3. lost' = lost \/ lost' = TRUE
  <2>1. ASSUME MemoryRead PROVE lost' = lost \/ lost' = TRUE
    BY <2>1, Zenon DEF MemoryRead, Snapshot, ModulesFail, Header, Match, HeaderAgain, NameAgain, Show
  <2>2. ASSUME Swap PROVE lost' = lost
    BY <2>2, Zenon DEF Swap
  <2>3. ASSUME ~ MemoryRead, ~ Swap PROVE lost' = lost
    BY <2>3, Elsewhere, Zenon DEF inspection
  <2> QED
    BY <2>1, <2>2, <2>3, Zenon
<1>4. broken' = broken \/ broken' = TRUE
  <2>1. ASSUME Read \/ Swap \/ ModulesFail PROVE broken' = broken
    BY <2>1 DEF Read, OpenDir, ReadBlock, NextBlock, EndOfDirectory, QidEntry, Snapshot, Header,
                Match, HeaderAgain, NameAgain, Show, DirEntry, PrintNames, Descend, Ascend, Swap,
                ModulesFail
  <2>2. ASSUME ReadFails \/ NoMemory PROVE broken' = TRUE
    BY <2>2, Zenon DEF ReadFails, NoMemory
  <2>3. ASSUME UNCHANGED scanVars PROVE broken' = broken
    BY <2>3 DEF scanVars
  <2> QED
    BY <2>1, <2>2, <2>3, Zenon DEF Next, Fail, WriteStep, vars
<1> QED
  BY <1>1, <1>2, <1>3, <1>4, Zenon DEF InspectionTyped

LEMMA InspectionInvariant == Spec => []InspectionTyped
<1>1. Init => InspectionTyped
  BY Zenon DEF Init, InspectionTyped
<1>2. ReaderOK /\ InspectionTyped /\ [Next]_vars => InspectionTyped'
  BY InspectionStep
<1> QED
  BY <1>1, <1>2, ReaderInvariant, PTL DEF Spec

(* The variables of qid and dir have their types: in particular dir -r      *)
(* never goes deeper than -r= says, in a tree that others make deeper.      *)
THEOREM ScanTypes == Spec => []TypeOK
<1>1. ReaderOK /\ InspectionTyped /\ DirectoryTypeOK => TypeOK
  <2>1. ASSUME ReaderOK PROVE Range(places) \subseteq Place
    BY <2>1 DEF ReaderOK, ReaderTyped, Range
  <2>2. ASSUME ReaderOK
        PROVE  Range(block) \subseteq Name \cup {Free, Dot} /\ Range(names) \subseteq Name \cup {Dot}
    BY <2>2 DEF ReaderOK, ReaderTyped, Range, Entries
  <2> QED
    BY <2>1, <2>2 DEF TypeOK, ReaderOK, ReaderTyped, OnDisk, InModules, OnlyDir, InspectionTyped
<1> QED
  BY <1>1, ReaderInvariant, InspectionInvariant, DirectoryTypes, PTL

-----------------------------------------------------------------------------
(* A module that stays at its address, and what qid has read of it. *)
Stays(a) == \A r \in ever : r[1] = a => r = <<a, memory[a]>>

(* It did not move at a step at whose end it has stayed. *)
LEMMA StaysPut ==
  ASSUME ReaderOK, ReaderOK', [Next]_vars, NEW a \in Address, Stays(a)'
  PROVE  Stays(a) /\ memory'[a] = memory[a]
<1>1. ever \subseteq ever'
  BY Elsewhere, MemoryFrame DEF Swap, residents
<1>2. <<a, memory[a]>> \in ever
  BY DEF ReaderOK, ReaderTyped, Residents
<1>3. <<a, memory[a]>> = <<a, memory'[a]>>
  BY <1>1, <1>2 DEF Stays
<1>4. memory'[a] = memory[a]
  BY <1>3
<1> QED
  BY <1>1, <1>4 DEF Stays

HasHeader == {"match", "name", "show"}
HasName == {"again", "name", "show"}

Inspected ==
  /\ at \in HasHeader => <<Present, header>> \in ever
  /\ at \in Inside /\ Stays(Present) =>
       /\ at \in HasHeader => intact /\ header = memory[Present]
       /\ at \in HasName => display = memory[Present]
       /\ at = "show" => title = memory[Present]

LEMMA InspectedRead ==
  ASSUME ReaderOK, ReaderOK', Inspected, [Next]_vars, MemoryRead
  PROVE  Inspected'
<1>1. UNCHANGED <<memory, ever>> /\ at \in InModules
  BY MemoryFrame
<1>2. NextPlace => at' \notin Inside
  BY DEF NextPlace, OpensAt, Inside
<1>3. NextModule => at' \notin Inside \ {"report"}
  BY <1>2 DEF NextModule, Inside
<1>4. CASE at' \notin Inside \ {"report"}
  BY <1>4 DEF Inspected, HasHeader, HasName, Inside
<1>5. CASE (Header \/ HeaderAgain) /\ at' \in Inside \ {"report"}
  <2>1. /\ header' = memory[Present] /\ intact' = TRUE /\ snapshot' = snapshot /\ display' = display
        /\ \/ at = "report" /\ at' = "match"
           \/ at = "again" /\ at' = "name"
    BY <1>3, <1>5 DEF Header, HeaderAgain, ReadHeader
  <2>2. Present' = Present /\ Present \in Address
    BY <2>1, PresentIs DEF Present, ReaderOK, InPlace, Inside
  <2>3. <<Present, memory[Present]>> \in ever
    BY <2>2 DEF ReaderOK, ReaderTyped, Residents
  <2>4. Stays(Present)' = Stays(Present)
    BY <1>1, <2>2 DEF Stays
  <2> QED
    BY <1>1, <2>1, <2>2, <2>3, <2>4 DEF Inspected, HasHeader, HasName, Inside
<1>6. CASE (Match \/ NameAgain) /\ at' \in Inside \ {"report"}
  <2>1. /\ UNCHANGED <<snapshot, header, intact>>
        /\ \/ at = "match" /\ at' = "again" /\ display' \in Finds
           \/ at = "name" /\ at' = "show" /\ title' \in Finds /\ display' = display
    BY <1>3, <1>6 DEF Match, NameAgain
  <2>2. Present' = Present
    BY <2>1 DEF Present
  <2>3. Stays(Present)' = Stays(Present)
    BY <1>1, <2>2 DEF Stays
  <2>4. Stays(Present) => Finds = {memory[Present]}
    BY <2>1 DEF Inspected, Finds, HasHeader, Inside
  <2> QED
    BY <1>1, <2>1, <2>2, <2>3, <2>4 DEF Inspected, HasHeader, HasName, Inside
<1>7. Snapshot \/ ModulesFail \/ Show => at' \notin Inside \ {"report"}
  BY <1>2, <1>3 DEF Snapshot, ModulesFail, Show, Inside
<1> QED
  BY <1>4, <1>5, <1>6, <1>7 DEF MemoryRead

LEMMA InspectedAtStart == Init => Inspected
BY DEF Init, OpensAt, Inspected, HasHeader, HasName, Inside

LEMMA InspectedStep ==
  ASSUME ReaderOK, ReaderOK', Inspected, [Next]_vars
  PROVE  Inspected'
<1>1. CASE MemoryRead
  BY <1>1, InspectedRead
<1>2. CASE Swap
  <2>1. /\ UNCHANGED <<at, snapshot, header, display, title>> /\ ever \subseteq ever'
        /\ Present' = Present
    BY <1>2 DEF Swap, Present
  <2>2. SUFFICES ASSUME at \in Inside PROVE Inspected'
    BY <2>1 DEF Inspected, HasHeader, HasName, Inside
  <2>3. Present \in Address /\ snapshot # {}
    BY <2>2, PresentIs DEF ReaderOK, InPlace
  <2>4. ASSUME Stays(Present)' PROVE Stays(Present) /\ memory'[Present] = memory[Present]
    BY <2>1, <2>3, <2>4, StaysPut DEF Stays
  <2>5. memory'[Present] = memory[Present] /\ intact => intact'
    <3>1. PICK a \in Address, m \in Name \cup {Free} :
            /\ m # memory[a] /\ memory' = [memory EXCEPT ![a] = m]
            /\ intact' = (intact /\ (snapshot # {} => a # Present))
      BY <1>2 DEF Swap
    <3>2. memory'[Present] = memory[Present] => a # Present
      BY <2>3, <3>1 DEF ReaderOK, ReaderTyped
    <3> QED
      BY <3>1, <3>2
  <2>6. (Stays(Present))' => Stays(Present) /\ memory'[Present] = memory[Present]
    BY <2>4
  <2> QED
    BY <2>1, <2>5, <2>6 DEF Inspected, HasHeader, HasName, Inside
<1>3. CASE ~ MemoryRead /\ ~ Swap
  <2>1. UNCHANGED <<snapshot, header, display, title, intact, memory, ever>>
        /\ (at' \notin Inside \/ at' = at)
    BY <1>3, Elsewhere DEF inspection, residents
  <2>2. Present' = Present /\ Stays(Present)' = Stays(Present)
    BY <2>1 DEF Present, Stays
  <2> QED
    BY <2>1, <2>2 DEF Inspected, HasHeader, HasName, Inside
<1> QED
  BY <1>1, <1>2, <1>3

-----------------------------------------------------------------------------
(* What qid prints: of files and of memory, each report of what was there. *)
Answers == {"module", "rof", "elf", "unknown", "error"}
Printout == [where: {"disk", "exec", "mem", "path"}, dir: Paths, name: Name \cup {Free},
           address: Nat, says: Answers, pieces: Seq(Name \cup {Free})]

Told(r) ==
  r.where = "mem" /\ r.says = "module" =>
    /\ r.address \in Address /\ <<r.address, r.pieces[1]>> \in ever
    /\ Stays(r.address) => \E m : m = r.name /\ r.pieces = <<m, m, m>>

ReportsOK ==
  /\ reports \in Seq(Printout)
  /\ ever \subseteq Address \X (Name \cup {Free})
  /\ \A r \in Range(reports) : Told(r)
  /\ result = 0 => ~ lost /\ \A r \in Range(reports) : r.says \in {"module", "rof", "elf"}

LEMMA AnswerFields ==
  /\ \A said, status_, name, detail : /\ Says(said, status_, name, detail).says = said
                                      /\ Says(said, status_, name, detail).status = status_
  /\ Failed.says = "error" /\ Failed.status = 1
BY DEF Says, Failed

LEMMA QidSays ==
  ASSUME NEW f \in File
  PROVE  /\ Qid(f).says \in Answers
         /\ Qid(f).status = 0 => Qid(f).says \in {"module", "rof", "elf"}
<1>1. IdentifyModule(f) # NotThis =>
        \/ IdentifyModule(f) = Failed
        \/ IdentifyModule(f) = Says("module", 0, NameRead(f), PrintModuleDetail(f))
  BY DEF IdentifyModule
<1>2. IdentifyRof(f) # NotThis =>
        \/ IdentifyRof(f) = Failed
        \/ IdentifyRof(f) = Says("rof", 0, CstrRead(f, RofSize), "rof")
  BY DEF IdentifyRof
<1>3. IdentifyElf(f) # NotThis =>
        \/ IdentifyElf(f) = Failed
        \/ IdentifyElf(f) = Says("elf", 0, Rows(f), IF f.is64 THEN "64" ELSE "32")
  BY DEF IdentifyElf
<1>4. \/ Qid(f) = Failed
      \/ Qid(f) = Says("module", 0, NameRead(f), PrintModuleDetail(f))
      \/ Qid(f) = Says("rof", 0, CstrRead(f, RofSize), "rof")
      \/ Qid(f) = Says("elf", 0, Rows(f), IF f.is64 THEN "64" ELSE "32")
      \/ Qid(f) = Says("unknown", 1, 0, "none")
  BY <1>1, <1>2, <1>3 DEF Qid
<1> QED
  BY <1>4, AnswerFields DEF Answers

(* What the reader prints at a step, if it does. *)
LEMMA Prints ==
  ASSUME ReaderOK, TreeOK, ReportsOK, InspectionTyped, Inspected, [Next]_vars
  PROVE  \/ UNCHANGED reports /\ (result' = 0 => result = 0)
         \/ /\ QidEntry /\ Head(block) \in read.wanted
            /\ \E r \in Printout :
                 /\ reports' = Append(reports, r)
                 /\ r.where = Head(places).where /\ r.name = Head(block) /\ r.address = 0
                 /\ result' = 0 => result = 0 /\ r.says \in {"module", "rof", "elf"}
         \/ /\ MemoryRead /\ NextModule /\ at \in HasName
            /\ \E r \in Printout :
                 /\ reports' = Append(reports, r)
                 /\ r.where = "mem" /\ r.name = display /\ r.address = Present /\ Told(r)
                 /\ result' = 0 => result = 0 /\ r.says \in {"module", "rof", "elf"}
<1>1. CASE QidEntry /\ reports' # reports
  <2> DEFINE e == Head(block)
             answer == IF IsFile(Sub(dir, e)) THEN Qid(Content[e]) ELSE Failed
             r == [where |-> Where, dir |-> dir, name |-> e, address |-> 0, says |-> answer.says,
                   pieces |-> <<>>]
  <2>1. e \notin {Free, Dot} /\ e \in read.wanted /\ Report(e, 0, answer, <<>>) /\ at = "entry"
    BY <1>1 DEF QidEntry, output
  <2> <<>> \in Seq(Name \cup {Free})
    BY EmptySeq
  <2>2. e \in Name /\ read.wanted \subseteq Name
    BY <2>1 DEF ReaderOK, ReaderTyped, ReadJob
  <2>3. Content[e] \in File
    BY <2>2, ScanAssumption
  <2>4. answer.says \in Answers /\ (answer.status = 0 => answer.says \in {"module", "rof", "elf"})
    <3>1. Failed.says \in Answers /\ Failed.status # 0
      BY AnswerFields DEF Answers
    <3>2. /\ Qid(Content[e]).says \in Answers
          /\ Qid(Content[e]).status = 0 => Qid(Content[e]).says \in {"module", "rof", "elf"}
      BY <2>3, QidSays
    <3> QED
      BY <3>1, <3>2
  <2>5. Where \in {"disk", "exec", "mem", "path"}
    <3>1. places # <<>> /\ places \in Seq(Place)
      BY <2>1 DEF ReaderOK, ReaderTyped, InPlace
    <3>2. Head(places) \in Place
      BY <3>1, TailSeq
    <3> QED
      BY <3>2 DEF Place, Where
  <2>6. dir \in Paths
    BY DEF ReaderOK, ReaderTyped
  <2>7. reports' = Append(reports, r) /\ (result' = 0 => result = 0 /\ answer.status = 0)
    BY <2>1 DEF Report
  <2> HIDE DEF answer
  <2>8. r \in Printout
    BY <2>2, <2>4, <2>5, <2>6 DEF Printout
  <2>9. r.where = Where /\ r.name = e /\ r.address = 0 /\ r.says = answer.says
    OBVIOUS
  <2> HIDE DEF r
  <2> QED
    BY <1>1, <2>1, <2>4, <2>7, <2>8, <2>9 DEF Where
<1>2. CASE HeaderAgain /\ reports' # reports
  <2> DEFINE r == [where |-> Where, dir |-> dir, name |-> display, address |-> Present,
                   says |-> "error", pieces |-> <<>>]
  <2>1. /\ at = "again" /\ Report(display, Present, Failed, <<>>) /\ NextModule
        /\ Present \in Address /\ Where = "mem" /\ Present \in Nat
    <3>1. at = "again" /\ Report(display, Present, Failed, <<>>) /\ NextModule
      BY <1>2 DEF HeaderAgain, output
    <3>2. Present \in Address /\ Where = "mem"
      BY <3>1, PresentIs DEF ReaderOK, InPlace, Inside, InModules, Where
    <3> QED
      BY <3>1, <3>2, ScanAssumption
  <2>2. <<>> \in Seq(Name \cup {Free}) /\ dir \in Paths /\ display \in Name \cup {Free}
    BY EmptySeq DEF ReaderOK, ReaderTyped, InspectionTyped
  <2>3. reports' = Append(reports, r) /\ result' = 1
    BY <2>1, AnswerFields DEF Report
  <2>4. r \in Printout
    BY <2>1, <2>2 DEF Printout, Answers
  <2>5. r.where = "mem" /\ r.name = display /\ r.address = Present /\ r.says = "error"
    BY <2>1
  <2>6. Told(r)
    BY <2>5 DEF Told
  <2> HIDE DEF r
  <2> QED
    BY <1>2, <2>1, <2>3, <2>4, <2>5, <2>6 DEF MemoryRead, HasName
<1>3. CASE Show
  <2>1. /\ at = "show" /\ NextModule /\ Present \in Address /\ Where = "mem" /\ Present \in Nat
    <3>1. at = "show" /\ NextModule
      BY <1>3 DEF Show
    <3>2. Present \in Address /\ Where = "mem"
      BY <3>1, PresentIs DEF ReaderOK, InPlace, Inside, InModules, Where
    <3> QED
      BY <3>1, <3>2, ScanAssumption
  <2>2. PICK fields \in Finds :
          Report(display, Present, Says("module", 0, 0, "none"), <<header, title, fields>>)
    BY <1>3 DEF Show
  <2> DEFINE p == <<header, title, fields>>
             r == [where |-> Where, dir |-> dir, name |-> display, address |-> Present,
                   says |-> "module", pieces |-> p]
  <2>3. /\ p \in Seq(Name \cup {Free}) /\ p[1] = header
        /\ dir \in Paths /\ display \in Name \cup {Free}
    BY FindsTyped DEF ReaderOK, ReaderTyped, InspectionTyped
  <2>4. reports' = Append(reports, r) /\ result' = result
    BY <2>2, AnswerFields DEF Report
  <2>5. r \in Printout
    <3> HIDE DEF p
    <3> QED
      BY <2>1, <2>3 DEF Printout, Answers
  <2>6. /\ r.where = "mem" /\ r.name = display /\ r.address = Present /\ r.says = "module"
        /\ r.pieces = p
    BY <2>1
  <2>7. <<Present, header>> \in ever
    BY <2>1 DEF Inspected, HasHeader
  <2>8. Stays(Present) => header = display /\ title = display /\ fields = display
    BY <2>1, <2>2 DEF Inspected, HasHeader, HasName, Inside, Finds
  <2>9. Stays(Present) => p = <<display, display, display>>
    BY <2>8
  <2> HIDE DEF p, r
  <2>10. Told(r)
    BY <2>1, <2>3, <2>6, <2>7, <2>9 DEF Told
  <2> QED
    BY <1>3, <2>1, <2>4, <2>5, <2>6, <2>10 DEF MemoryRead, HasName
<1>4. CASE Fail \/ Swap \/ UNCHANGED scanVars
  BY <1>4 DEF Fail, ReadFails, ModulesFail, NoMemory, Swap, scanVars, output
<1>5. CASE OpenDir
  BY <1>5 DEF OpenDir
<1>6. CASE ReadBlock \/ NextBlock \/ EndOfDirectory \/ DirEntry \/ PrintNames \/ Descend \/ Ascend
  BY <1>6 DEF ReadBlock, NextBlock, EndOfDirectory, DirEntry, PrintNames, Descend, Ascend, output
<1>7. CASE Snapshot \/ Header \/ Match \/ NameAgain
  BY <1>7 DEF Snapshot, Header, Match, NameAgain, output
<1>8. CASE (QidEntry \/ HeaderAgain) /\ reports' = reports
  BY <1>8 DEF QidEntry, HeaderAgain, Report, output
<1> QED
  BY <1>1, <1>2, <1>3, <1>4, <1>5, <1>6, <1>7, <1>8 DEF Next, Read, WriteStep, vars

LEMMA ToldStill ==
  ASSUME ReaderOK, ReaderOK', [Next]_vars, ever \subseteq ever', NEW r, Told(r)
  PROVE  Told(r)'
BY StaysPut DEF Told

LEMMA ReportsStep ==
  ASSUME ReaderOK, ReaderOK', TreeOK, ReportsOK, InspectionTyped, Inspected, [Next]_vars
  PROVE  ReportsOK'
<1>1. ever \subseteq ever' /\ ever' \subseteq Address \X (Name \cup {Free})
  <2>1. CASE Swap
    <3>1. memory' \in [Address -> Name \cup {Free}]
      BY <2>1, SwapStep DEF ReaderOK, ReaderTyped
    <3> QED
      BY <2>1, <3>1 DEF Swap, Residents, ReportsOK
  <2>2. CASE ~ Swap
    BY <2>2, Elsewhere, MemoryFrame DEF residents, ReportsOK
  <2> QED
    BY <2>1, <2>2
<1>2. \A r : Told(r) => Told(r)'
  BY <1>1, ToldStill
<1>3. result' = 0 => ~ lost' \/ lost
  BY Elsewhere DEF MemoryRead, Snapshot, ModulesFail, Header, Match, HeaderAgain, NameAgain, Show, Swap,
                   inspection
<1>4. CASE UNCHANGED reports /\ (result' = 0 => result = 0)
  BY <1>1, <1>2, <1>3, <1>4 DEF ReportsOK
<1>5. ASSUME NEW r \in Printout, reports' = Append(reports, r), Told(r),
             result' = 0 => result = 0 /\ r.says \in {"module", "rof", "elf"}
      PROVE  ReportsOK'
  <2>1. reports \in Seq(Printout)
    BY DEF ReportsOK
  <2>2. reports' \in Seq(Printout) /\ Range(reports') = Range(reports) \cup {r}
    <3>1. /\ reports' \in Seq(Printout) /\ Len(reports') = Len(reports) + 1 /\ Len(reports) \in Nat
          /\ \A i \in 1..Len(reports) : reports'[i] = reports[i]
          /\ reports'[Len(reports) + 1] = r
      BY <1>5, <2>1, AppendProperties, LenProperties
    <3>2. DOMAIN reports' = 1..(Len(reports) + 1) /\ DOMAIN reports = 1..Len(reports)
      BY <2>1, <3>1, LenProperties
    <3> QED
      BY <3>1, <3>2 DEF Range
  <2>3. /\ \A q \in Range(reports') : Told(q)'
        /\ result' = 0 => ~ lost' /\ \A q \in Range(reports') : q.says \in {"module", "rof", "elf"}
    BY <1>2, <1>3, <1>5, <2>2 DEF ReportsOK
  <2> QED
    BY <1>1, <2>2, <2>3 DEF ReportsOK
<1>6. ASSUME QidEntry, NEW r, r.where = Head(places).where PROVE Told(r)
  BY <1>6 DEF QidEntry, ReaderOK, InPlace, OnDisk, Told
<1> QED
  BY <1>4, <1>5, <1>6, Prints

LEMMA ReportsAtStart ==
  ASSUME Init
  PROVE  ReportsOK
<1>1. PICK s \in Situations : memory = s.memory
  BY DEF Init
<1>2. memory \in [Address -> Name \cup {Free}] /\ ever = Residents(memory) /\ reports = <<>>
  BY <1>1, ScanAssumption DEF Init
<1>3. <<>> \in Seq(Printout) /\ Range(<<>>) = {}
  <2>1. <<>> \in Seq(Printout) /\ DOMAIN <<>> = {}
    BY EmptySeq
  <2> QED
    BY <2>1 DEF Range
<1> QED
  BY <1>2, <1>3 DEF ReportsOK, Residents, Init

-----------------------------------------------------------------------------
(* How often a name has been printed, and how often it is in the block.     *)
Hits(where, name, address) ==
  {i \in DOMAIN reports : reports[i].where = where /\ reports[i].name = name
                            /\ reports[i].address = address}
InBlock(name) == {j \in DOMAIN block : block[j] = name}
One(s) == \E i \in s : s = {i}

LEMMA Printed ==
  ASSUME reports \in Seq(Printout), NEW r \in Printout, reports' = Append(reports, r),
         NEW where, NEW name, NEW address
  PROVE  IF r.where = where /\ r.name = name /\ r.address = address
           THEN Hits(where, name, address)' = Hits(where, name, address) \cup {Len(reports) + 1}
           ELSE Hits(where, name, address)' = Hits(where, name, address)
<1>1. /\ reports' \in Seq(Printout) /\ Len(reports') = Len(reports) + 1 /\ Len(reports) \in Nat
      /\ \A i \in 1..Len(reports) : reports'[i] = reports[i]
      /\ reports'[Len(reports) + 1] = r
  BY AppendProperties, LenProperties
<1>2. DOMAIN reports' = 1..(Len(reports) + 1) /\ DOMAIN reports = 1..Len(reports)
  BY <1>1, LenProperties
<1>3. DOMAIN reports' = DOMAIN reports \cup {Len(reports) + 1} /\ Len(reports) + 1 \notin DOMAIN reports
  BY <1>1, <1>2
<1>4. \A i \in DOMAIN reports : reports'[i] = reports[i]
  BY <1>1, <1>2
<1> QED
  BY <1>1, <1>3, <1>4 DEF Hits

LEMMA EntryTaken ==
  ASSUME block \in Seq(Entries), block # <<>>, block' = Tail(block), NEW name
  PROVE  /\ InBlock(name) = {} => Head(block) # name /\ InBlock(name)' = {}
         /\ One(InBlock(name)) =>
              IF Head(block) = name THEN InBlock(name)' = {} ELSE One(InBlock(name)')
<1>1. /\ Len(block) \in Nat \ {0} /\ block' \in Seq(Entries) /\ Len(block') = Len(block) - 1
      /\ \A i \in 1..(Len(block) - 1) : block'[i] = block[i + 1]
      /\ block[1] = Head(block)
  BY TailSeq
<1>2. DOMAIN block = 1..Len(block) /\ DOMAIN block' = 1..(Len(block) - 1)
  BY <1>1, LenProperties
<1>3. /\ 1 \in DOMAIN block
      /\ \A i \in DOMAIN block' : i + 1 \in DOMAIN block /\ block'[i] = block[i + 1] /\ i + 1 # 1
      /\ \A j \in DOMAIN block : j # 1 => j - 1 \in DOMAIN block' /\ j - 1 + 1 = j
  BY <1>1, <1>2
<1>4. /\ \A i \in InBlock(name)' : i + 1 \in InBlock(name) /\ i + 1 # 1
      /\ 1 \in InBlock(name) <=> Head(block) = name
      /\ \A j \in InBlock(name) : j # 1 => j - 1 \in InBlock(name)' /\ j - 1 + 1 = j
  BY <1>1, <1>3 DEF InBlock
<1>5. InBlock(name) = {} => Head(block) # name /\ InBlock(name)' = {}
  BY <1>4
<1>6. ASSUME NEW k \in InBlock(name), InBlock(name) = {k}, Head(block) = name
      PROVE  InBlock(name)' = {}
  BY <1>4, <1>6
<1>7. ASSUME NEW k \in InBlock(name), InBlock(name) = {k}, Head(block) # name
      PROVE  InBlock(name)' = {k - 1}
  <2>1. k # 1 /\ k - 1 \in InBlock(name)'
    BY <1>4, <1>7
  <2>2. \A i \in InBlock(name)' : i + 1 = k
    BY <1>4, <1>7
  <2>3. \A i \in InBlock(name)' : i \in Nat
    BY <1>2 DEF InBlock
  <2>4. \A i \in InBlock(name)' : i = k - 1
    BY <2>2, <2>3
  <2> QED
    BY <2>1, <2>4
<1> QED
  BY <1>5, <1>6, <1>7 DEF One

-----------------------------------------------------------------------------
(* Paths and their ends, and where an entry is. *)
LEMMA PathEnds ==
  /\ \A d \in Paths, n \in Name : /\ Append(d, n) \in Seq(Name) /\ Append(d, n) # <<>>
                                  /\ Front(Append(d, n)) = d /\ Last(Append(d, n)) = n
  /\ \A p \in Paths : p # <<>> => p = Append(Front(p), Last(p)) /\ Last(p) \in Name
<1>1. ASSUME NEW d \in Paths, NEW n \in Name
      PROVE  /\ Append(d, n) \in Seq(Name) /\ Append(d, n) # <<>>
             /\ Front(Append(d, n)) = d /\ Last(Append(d, n)) = n
  <2> DEFINE e == Append(d, n)
             f == SubSeq(e, 1, Len(e) - 1)
  <2>1. d \in Seq(Name) /\ Len(d) \in Nat
    BY PathSeq, LenProperties
  <2>2. /\ e \in Seq(Name) /\ e # <<>> /\ Len(e) = Len(d) + 1
        /\ \A i \in 1..Len(d) : e[i] = d[i]
        /\ e[Len(d) + 1] = n
    BY <2>1, AppendProperties
  <2> HIDE DEF e
  <2>3. Len(e) - 1 = Len(d) /\ \A i \in 1..Len(d) : e[i] \in Name
    BY <2>1, <2>2, ElementOfSeq
  <2>4. /\ f \in Seq(Name) /\ Len(f) = Len(d)
        /\ \A i \in 1..Len(d) : f[i] = e[i]
    <3>1. /\ SubSeq(e, 1, Len(d)) \in Seq(Name)
          /\ Len(SubSeq(e, 1, Len(d))) = Len(d)
          /\ \A i \in 1..Len(d) : SubSeq(e, 1, Len(d))[i] = e[i]
      BY <2>1, <2>2, <2>3, SubSeqProperties
    <3> QED
      BY <2>3, <3>1
  <2> HIDE DEF f
  <2>5. f = d
    BY <2>1, <2>2, <2>4, SeqEqual
  <2> QED
    BY <2>2, <2>3, <2>5 DEF Front, Last, e, f
<1>2. ASSUME NEW p \in Paths, p # <<>>
      PROVE  p = Append(Front(p), Last(p)) /\ Last(p) \in Name
  <2> DEFINE f == SubSeq(p, 1, Len(p) - 1)
             n == p[Len(p)]
             e == Append(f, n)
  <2>1. p \in Seq(Name) /\ Len(p) \in Nat \ {0}
    BY <1>2, PathSeq, EmptySeq, LenProperties
  <2>2. n \in Name /\ \A i \in 1..Len(p) : p[i] \in Name
    BY <2>1, ElementOfSeq
  <2>3. /\ f \in Seq(Name) /\ Len(f) = Len(p) - 1
        /\ \A i \in 1..(Len(p) - 1) : f[i] = p[i]
    <3>1. PICK k \in Nat : k = Len(p) - 1
      BY <2>1
    <3>2. \A i \in 1..k : p[i] \in Name
      BY <2>1, <2>2, <3>1
    <3>3. /\ SubSeq(p, 1, k) \in Seq(Name) /\ Len(SubSeq(p, 1, k)) = k
          /\ \A i \in 1..k : SubSeq(p, 1, k)[i] = p[i]
      BY <2>1, <3>1, <3>2, SubSeqProperties
    <3> QED
      BY <3>1, <3>3
  <2> HIDE DEF f, n
  <2>4. /\ e \in Seq(Name) /\ Len(e) = Len(f) + 1
        /\ \A i \in 1..Len(f) : e[i] = f[i]
        /\ e[Len(f) + 1] = n
    BY <2>2, <2>3, AppendProperties
  <2> HIDE DEF e
  <2>5. /\ Len(e) = Len(p)
        /\ \A i \in 1..(Len(p) - 1) : e[i] = p[i]
        /\ e[Len(p)] = p[Len(p)]
    BY <2>1, <2>3, <2>4 DEF n
  <2>6. \A i \in 1..Len(p) : e[i] = p[i]
    BY <2>1, <2>5
  <2>7. e = p
    BY <2>1, <2>4, <2>5, <2>6, SeqEqual
  <2> QED
    BY <2>2, <2>7 DEF Front, Last, e, f, n
<1> QED
  BY <1>1, <1>2

LEMMA SlotOf ==
  ASSUME WellFormed(tree), NEW d \in Paths, NEW n \in Name, Append(d, n) \in DOMAIN tree
  PROVE  /\ IsDir(d) /\ tree[Append(d, n)].slot \in 2..tree[d].size
         /\ EntryAt(d, tree[Append(d, n)].slot) = n
         /\ \A t \in Nat : EntryAt(d, t) = n => t = tree[Append(d, n)].slot
<1> DEFINE p == Append(d, n)
           s == tree[p].slot
<1>1. p # <<>> /\ Front(p) = d /\ Last(p) = n /\ p \in DOMAIN tree
  BY PathEnds
<1> HIDE DEF p
<1>2. IsDir(d) /\ s \in 2..tree[d].size
  BY <1>1 DEF WellFormed, IsDir
<1>3. p \in Children(d) /\ \A q \in Children(d) : tree[q].slot = s => q = p
  BY <1>1 DEF Children, WellFormed
<1>4. EntryAt(d, s) = n
  <2>1. s # 1
    BY <1>2
  <2>2. (CHOOSE q \in Children(d) : tree[q].slot = s) = p
    BY <1>3
  <2> QED
    BY <1>1, <1>3, <2>1, <2>2 DEF EntryAt
<1>5. ASSUME NEW t \in Nat, EntryAt(d, t) = n PROVE t = s
  <2>1. n # Free /\ n # Dot
    BY DirectoryAssumption
  <2>2. \E q \in Children(d) : tree[q].slot = t
    BY <1>5, <2>1 DEF EntryAt
  <2>3. PICK q \in Children(d) : tree[q].slot = t /\ Last(q) = n
    BY <1>5, <2>1, <2>2 DEF EntryAt
  <2>4. q \in Paths /\ q # <<>> /\ Front(q) = d
    BY <2>3 DEF Children, WellFormed
  <2>5. q = Append(d, n)
    BY <2>3, <2>4, PathEnds
  <2> QED
    BY <2>3, <2>5 DEF p
<1> QED
  BY <1>2, <1>4, <1>5 DEF p

(* What has been there all the time keeps its slot and its kind. *)
LEMMA StableKept ==
  ASSUME TreeOK, [Next]_vars
  PROVE  \A q \in stable' : /\ q \in stable /\ q \in DOMAIN tree
                            /\ tree'[q].slot = tree[q].slot /\ tree'[q].kind = tree[q].kind
<1>1. CASE UNCHANGED files
  BY <1>1 DEF files, TreeOK
<1>2. ASSUME NEW w \in Writer, NEW kind \in {"file", "dir"}, CanCreate(Now(w)), Created(Now(w), kind)
      PROVE  \A q \in stable' : /\ q \in stable /\ q \in DOMAIN tree
                                /\ tree'[q].slot = tree[q].slot /\ tree'[q].kind = tree[q].kind
  <2>1. /\ stable' = stable
        /\ \A q \in DOMAIN tree : tree'[q].kind = tree[q].kind /\ tree'[q].slot = tree[q].slot
    BY <1>2, CreatedTree DEF TreeOK
  <2> QED
    BY <2>1 DEF TreeOK
<1>3. ASSUME NEW w \in Writer, Removed(Now(w)), IsFile(Now(w)) \/ Children(Now(w)) = {}
      PROVE  \A q \in stable' : /\ q \in stable /\ q \in DOMAIN tree
                                /\ tree'[q].slot = tree[q].slot /\ tree'[q].kind = tree[q].kind
  <2>1. /\ stable' = stable \ {Now(w)} /\ DOMAIN tree' = DOMAIN tree \ {Now(w)}
        /\ \A q \in DOMAIN tree' : tree'[q] = tree[q]
    BY <1>3, RemovedTree DEF TreeOK
  <2> QED
    BY <2>1 DEF TreeOK
<1>4. ASSUME NEW w \in Writer, Write(w)
      PROVE  \/ UNCHANGED files
             \/ \E kind \in {"file", "dir"} : CanCreate(Now(w)) /\ Created(Now(w), kind)
             \/ Removed(Now(w)) /\ (IsFile(Now(w)) \/ Children(Now(w)) = {})
  BY <1>4 DEF Write, Option, TakeName, TakeLine, Finish, Answer, Delete, Stat, Make, Open, Create,
              files
<1>5. UNCHANGED directoryVars => UNCHANGED files
  BY DEF directoryVars
<1> QED
  BY <1>1, <1>2, <1>3, <1>4, <1>5, WhoWrites

-----------------------------------------------------------------------------
(* Which place qid is at, and how far it is with a name there: it has not   *)
(* come to the slot, or holds it in the block, or has printed it.           *)
Turn == Len(PlacesOf(read)) - Len(places) + 1

Stage(i, turn, step, slot, next, last, held, hits) ==
  /\ i > turn \/ (i = turn /\ step = "open") => hits = {}
  /\ i < turn => One(hits)
  /\ i = turn /\ step # "open" =>
       \/ slot >= next /\ ~ last /\ held = {} /\ hits = {}
       \/ slot < next /\ One(held) /\ hits = {}
       \/ slot < next /\ held = {} /\ One(hits)

ReadingAt(i, where, d, n) ==
  Stage(i, Turn, at, tree[Append(d, n)].slot, pos, ended, InBlock(n), Hits(where, n, 0))

Reading ==
  Qids /\ ~ broken =>
    \A i \in DOMAIN PlacesOf(read), n \in read.wanted :
      LET p == PlacesOf(read)[i]
      IN p.where # "mem" /\ Append(p.dir, n) \in stable => ReadingAt(i, p.where, p.dir, n)

LEMMA QidPlace ==
  ASSUME ReaderOK, Qids
  PROVE  /\ DOMAIN PlacesOf(read) \subseteq Nat /\ Turn \in Nat
         /\ \A i \in DOMAIN PlacesOf(read) : PlacesOf(read)[i].dir \in Paths
         /\ at = "done" => \A i \in DOMAIN PlacesOf(read) : i < Turn
         /\ at # "done" =>
              /\ Turn \in DOMAIN PlacesOf(read)
              /\ Head(places) = PlacesOf(read)[Turn] /\ dir = PlacesOf(read)[Turn].dir
              /\ \A i \in DOMAIN PlacesOf(read) :
                   PlacesOf(read)[i].where = Head(places).where => i = Turn
<1> DEFINE a == PlacesOf(read)
           m == Len(a)
           k == Len(places)
<1>1. /\ a \in Seq(Place) /\ places \in Seq(Place) /\ Behind(places, a)
      /\ \A i, j \in DOMAIN a : a[i].where = a[j].where => i = j
      /\ at = "done" <=> places = <<>>
  BY Places DEF ReaderOK, ReaderTyped, InPlace, Qids
<1>2. /\ m \in Nat /\ k \in Nat /\ DOMAIN a = 1..m /\ k <= m
      /\ \A j \in 1..k : places[j] = a[m - k + j]
      /\ \A i \in 1..m : a[i] \in Place
  BY <1>1, LenProperties, ElementOfSeq DEF Behind
<1>3. Turn = m - k + 1
  BY DEF Turn
<1>4. places = <<>> <=> k = 0
  BY <1>1, EmptySeq
<1>5. places # <<>> => Head(places) = places[1]
  BY <1>1, TailSeq
<1> HIDE DEF a, m, k
<1>6. Turn \in Nat /\ DOMAIN a \subseteq Nat /\ \A i \in DOMAIN a : a[i].dir \in Paths
  BY <1>2, <1>3 DEF Place
<1>7. CASE at = "done"
  <2>1. \A i \in DOMAIN a : i < Turn
    BY <1>1, <1>2, <1>3, <1>4, <1>7
  <2> QED
    BY <1>6, <1>7, <2>1 DEF a
<1>8. CASE at # "done"
  <2>1. k \in 1..m /\ Turn \in 1..m /\ m - k + 1 = Turn
    BY <1>1, <1>2, <1>3, <1>4, <1>8
  <2>2. 1 \in 1..k
    BY <2>1
  <2>3. Head(places) = a[Turn] /\ Turn \in DOMAIN a
    BY <1>1, <1>2, <1>4, <1>5, <1>8, <2>1, <2>2
  <2>4. dir = a[Turn].dir
    BY <1>1, <1>8, <2>3 DEF ReaderOK, InPlace, DirAt
  <2>5. \A i \in DOMAIN a : a[i].where = Head(places).where => i = Turn
    BY <1>1, <2>3
  <2> QED
    BY <1>6, <1>8, <2>3, <2>4, <2>5 DEF a
<1> QED
  BY <1>7, <1>8

LEMMA QidNext ==
  ASSUME ReaderOK, Qids, at # "done", NextPlace, read' = read
  PROVE  /\ Turn' = Turn + 1
         /\ \A i \in DOMAIN PlacesOf(read) :
              i = Turn + 1 => at' = IF PlacesOf(read)[i].where = "mem" THEN "module" ELSE "open"
<1> DEFINE a == PlacesOf(read)
           m == Len(a)
           k == Len(places)
<1>1. /\ a \in Seq(Place) /\ places \in Seq(Place) /\ Behind(places, a) /\ places # <<>>
  BY Places DEF ReaderOK, ReaderTyped, InPlace
<1>2. /\ m \in Nat /\ k \in Nat \ {0} /\ DOMAIN a = 1..m /\ k <= m
      /\ \A j \in 1..k : places[j] = a[m - k + j]
  BY <1>1, LenProperties, EmptySeq DEF Behind
<1>3. /\ places' = Tail(places) /\ at' = OpensAt(Tail(places)) /\ Len(Tail(places)) = k - 1
      /\ Tail(places) \in Seq(Place)
      /\ \A j \in 1..(k - 1) : Tail(places)[j] = places[j + 1]
  BY <1>1, TailSeq DEF NextPlace
<1>4. Turn = m - k + 1 /\ Turn' = m - (k - 1) + 1
  BY <1>3 DEF Turn
<1> HIDE DEF a, m, k
<1>5. Turn' = Turn + 1
  BY <1>2, <1>4
<1>6. ASSUME NEW i \in DOMAIN a, i = Turn + 1
      PROVE  at' = IF a[i].where = "mem" THEN "module" ELSE "open"
  <2>1. k > 1 /\ m - k + 2 = i
    BY <1>2, <1>4, <1>6
  <2>2. 1 \in 1..(k - 1) /\ 2 \in 1..k
    BY <1>2, <2>1
  <2>3. Tail(places)[1] = a[i]
    BY <1>2, <1>3, <2>1, <2>2
  <2>4. Tail(places) # <<>>
    <3>1. Tail(places) \in Seq(Place) /\ Len(Tail(places)) = k - 1
      BY <1>3
    <3>2. k - 1 # 0
      BY <1>2, <2>1
    <3> QED
      BY <3>1, <3>2, EmptySeq
  <2>5. Head(Tail(places)) = a[i]
    BY <1>3, <2>3, <2>4, TailSeq
  <2> QED
    BY <1>3, <2>4, <2>5 DEF OpensAt
<1> QED
  BY <1>5, <1>6 DEF a

(* A step that prints nothing leaves all the counts of prints as they are.  *)
LEMMA SameHits ==
  ASSUME reports' = reports, NEW where, NEW name, NEW address
  PROVE  Hits(where, name, address)' = Hits(where, name, address)
BY DEF Hits

LEMMA SameBlock ==
  ASSUME block' = block, NEW name
  PROVE  InBlock(name)' = InBlock(name)
BY DEF InBlock

LEMMA NoBlock ==
  ASSUME block = <<>>, NEW name
  PROVE  InBlock(name) = {}
<1>1. DOMAIN <<>> = {}
  BY EmptySeq
<1> QED
  BY <1>1 DEF InBlock

LEMMA SameTurn == UNCHANGED <<read, places>> => Turn' = Turn
BY DEF Turn

(* The next place, when the present one is dealt with. *)
LEMMA StageNext ==
  ASSUME NEW i \in Nat, NEW turn \in Nat, NEW step, NEW slot, NEW next, NEW last, NEW held, NEW hits,
         Stage(i, turn, step, slot, next, last, held, hits),
         NEW step2, NEW next2, NEW last2, NEW held2,
         i = turn => One(hits), i = turn + 1 => step2 = "open"
  PROVE  Stage(i, turn + 1, step2, slot, next2, last2, held2, hits)
<1>1. i < turn \/ i = turn \/ i = turn + 1 \/ i > turn + 1
  OBVIOUS
<1> QED
  BY <1>1 DEF Stage

LEMMA SlotsRead ==
  ASSUME ReaderOK, TreeOK, ReadBlock, NEW n \in Name, Append(dir, n) \in stable
  PROVE  LET slot == tree[Append(dir, n)].slot
         IN /\ pos' > pos
            /\ slot < pos => InBlock(n)' = {}
            /\ slot >= pos => \/ slot < pos' /\ One(InBlock(n)')
                              \/ slot >= pos' /\ ~ ended' /\ InBlock(n)' = {}
<1> DEFINE s == tree[Append(dir, n)].slot
<1>1. PICK m \in 0..BlockSize :
        /\ block' \in Seq(Entries) /\ Len(block') = m
        /\ \A j \in 1..m : block'[j] = EntryAt(dir, pos + j - 1)
        /\ ended' = (m < BlockSize)
        /\ m < BlockSize => \A t \in Nat : t <= SlotsNow => t < pos + m
  BY BlockRead
<1>2. dir \in Paths /\ pos \in Nat \ {0} /\ BlockSize \in Nat \ {0} /\ pos' = pos + BlockSize
  BY ScanAssumption DEF ReaderOK, ReaderTyped, ReadBlock
<1>3. /\ IsDir(dir) /\ s \in 2..tree[dir].size /\ EntryAt(dir, s) = n
      /\ \A t \in Nat : EntryAt(dir, t) = n => t = s
  BY <1>2, SlotOf DEF TreeOK
<1>4. s \in Nat /\ s <= SlotsNow
  <2>1. tree[dir].size \in Nat
    BY <1>3, DirectoryAssumption DEF IsDir, TreeOK, WellFormed, Entry
  <2> QED
    BY <1>3, <2>1 DEF SlotsNow
<1>5. DOMAIN block' = 1..m
  BY <1>1, LenProperties
<1> HIDE DEF s
<1>6. \A j \in 1..m : block'[j] = n <=> j = s - pos + 1
  <2>1. ASSUME NEW j \in 1..m PROVE block'[j] = n <=> j = s - pos + 1
    <3>1. pos + j - 1 \in Nat /\ (pos + j - 1 = s <=> j = s - pos + 1)
      BY <1>2, <1>4
    <3> QED
      BY <1>1, <1>3, <3>1
  <2> QED
    BY <2>1
<1>7. InBlock(n)' = {j \in 1..m : j = s - pos + 1}
  BY <1>5, <1>6 DEF InBlock
<1>8. pos' > pos
  BY <1>2
<1>9. ASSUME s < pos PROVE InBlock(n)' = {}
  BY <1>2, <1>4, <1>7, <1>9
<1>10. ASSUME s >= pos, s < pos + m PROVE s < pos' /\ One(InBlock(n)')
  <2>1. s - pos + 1 \in 1..m /\ s < pos'
    BY <1>2, <1>4, <1>10
  <2>2. InBlock(n)' = {s - pos + 1}
    BY <1>7, <2>1
  <2> QED
    BY <2>1, <2>2 DEF One
<1>11. ASSUME s >= pos, ~ (s < pos + m) PROVE s >= pos' /\ ~ ended' /\ InBlock(n)' = {}
  <2>1. ~ (m < BlockSize)
    BY <1>1, <1>4, <1>11
  <2>2. m = BlockSize
    BY <1>2, <2>1
  <2>3. s >= pos' /\ \A j \in 1..m : j # s - pos + 1
    BY <1>2, <1>4, <1>11, <2>2
  <2>4. InBlock(n)' = {}
    BY <1>7, <2>3
  <2>5. ~ ended'
    BY <1>1, <2>1
  <2> QED
    BY <2>3, <2>4, <2>5
<1> QED
  BY <1>8, <1>9, <1>10, <1>11 DEF s

-----------------------------------------------------------------------------
(* The steps of qid, for one place and one name of a stable file in it. *)
LEMMA KeepsRead ==
  ASSUME [Next]_vars
  PROVE  read' = read /\ (broken => broken')
<1>1. CASE Read
  BY <1>1 DEF Read, OpenDir, ReadBlock, NextBlock, EndOfDirectory, QidEntry, Snapshot, Header,
              Match, HeaderAgain, NameAgain, Show, ReadHeader, DirEntry, PrintNames, Descend, Ascend
<1>2. CASE Fail \/ Swap \/ UNCHANGED scanVars
  BY <1>2 DEF Fail, ReadFails, ModulesFail, NoMemory, Swap, scanVars
<1> QED
  BY <1>1, <1>2 DEF Next, WriteStep, vars

LEMMA NamesWanted == ReaderOK => read.wanted \subseteq Name
BY DEF ReaderOK, ReaderTyped, ReadJob

LEMMA ReadingStep ==
  ASSUME ReaderOK, TreeOK, ReportsOK, InspectionTyped, Inspected, Qids, [Next]_vars, ~ broken',
         NEW i \in DOMAIN PlacesOf(read), NEW n \in read.wanted,
         NEW where, NEW d, PlacesOf(read)[i].where = where, PlacesOf(read)[i].dir = d,
         where # "mem", Append(d, n) \in stable', ReadingAt(i, where, d, n)
  PROVE  ReadingAt(i, where, d, n)'
<1> DEFINE slot == tree[Append(d, n)].slot
           hits == Hits(where, n, 0)
<1>1. /\ Append(d, n) \in stable /\ Append(d, n) \in DOMAIN tree
      /\ tree'[Append(d, n)].slot = slot
  BY StableKept
<1>2. /\ read' = read /\ ~ broken
  BY KeepsRead
<1>3. n \in Name /\ n # Free /\ n # Dot
  BY NamesWanted, DirectoryAssumption
<1>4. /\ i \in Nat /\ Turn \in Nat /\ d \in Paths
      /\ i = Turn /\ at # "done" => Head(places).where = where /\ dir = d
      /\ Head(places).where = where /\ at # "done" => i = Turn
  BY QidPlace
<1>5. Stage(i, Turn, at, slot, pos, ended, InBlock(n), hits)
  BY DEF ReadingAt
<1>6. IsDir(d)
  BY <1>1, <1>3, <1>4, SlotOf DEF TreeOK
<1>7. SUFFICES Stage(i, Turn', at', slot, pos', ended', InBlock(n)', Hits(where, n, 0)')
  BY <1>1, <1>7 DEF ReadingAt
<1>8. i = Turn => at \notin InModules
  BY <1>4 DEF ReaderOK, InPlace, InModules
<1> HIDE DEF slot
<1>9. CASE UNCHANGED <<places, at, pos, ended, block, reports>>
  BY <1>2, <1>5, <1>9, SameHits, SameBlock, SameTurn
<1>10. CASE UNCHANGED reports /\ at # "done" /\ NextPlace /\ (i = Turn => One(hits))
  <2>1. Turn' = Turn + 1 /\ (i = Turn + 1 => at' = "open")
    BY <1>2, <1>10, QidNext
  <2>2. Hits(where, n, 0)' = hits
    BY <1>10, SameHits
  <2> HIDE DEF hits
  <2> QED
    BY <1>4, <1>5, <1>10, <2>1, <2>2, StageNext
<1>11. CASE OpenDir
  <2>1. at = "open" /\ UNCHANGED <<block, reports>> /\ block = <<>>
    BY <1>11 DEF OpenDir, ReaderOK, InPlace
  <2>2. CASE IsDir(dir)
    <3>1. /\ at' = "read" /\ pos' = 1 /\ ended' = FALSE /\ UNCHANGED places
      BY <1>11, <2>2 DEF OpenDir
    <3>2. Turn' = Turn /\ Hits(where, n, 0)' = hits /\ InBlock(n)' = {}
      BY <1>2, <2>1, <3>1, SameTurn, SameHits, SameBlock, NoBlock
    <3>3. slot \in Nat /\ slot >= 1
      BY <1>1, <1>3, <1>4, SlotOf, DirectoryAssumption DEF TreeOK, WellFormed, Entry, slot
    <3> QED
      BY <1>5, <2>1, <3>1, <3>2, <3>3 DEF Stage
  <2>3. CASE ~ IsDir(dir)
    <3>1. NextPlace /\ i # Turn
      BY <1>4, <1>6, <1>11, <2>1, <2>3 DEF OpenDir
    <3> QED
      BY <1>10, <2>1, <3>1
  <2> QED
    BY <2>2, <2>3
<1>12. CASE ReadBlock
  <2>1. at = "read" /\ at' = "entry" /\ UNCHANGED <<reports, places>> /\ block = <<>> /\ ~ ended
    BY <1>12 DEF ReadBlock, output, ReaderOK, InPlace
  <2>2. Turn' = Turn /\ Hits(where, n, 0)' = hits /\ InBlock(n) = {}
    BY <1>2, <2>1, SameTurn, SameHits, NoBlock
  <2>3. CASE i = Turn
    <3>1. dir = d
      BY <1>4, <2>1, <2>3
    <3>2. /\ pos' > pos
          /\ slot < pos => InBlock(n)' = {}
          /\ slot >= pos => \/ slot < pos' /\ One(InBlock(n)')
                            \/ slot >= pos' /\ ~ ended' /\ InBlock(n)' = {}
      BY <1>1, <1>3, <1>12, <3>1, SlotsRead DEF slot
    <3>3. slot < pos => slot < pos'
      <4>1. /\ slot \in Nat /\ pos \in Nat /\ pos' \in Nat
        BY <1>1, <1>12, BlockStep, DirectoryAssumption
        DEF ReaderOK, ReaderTyped, TreeOK, WellFormed, Entry, slot
      <4> QED
        BY <3>2, <4>1
    <3>4. ~ One({})
      BY DEF One
    <3> QED
      BY <1>5, <2>1, <2>2, <2>3, <3>2, <3>3, <3>4 DEF Stage
  <2>4. CASE i # Turn
    BY <1>5, <2>1, <2>2, <2>4 DEF Stage
  <2> QED
    BY <2>3, <2>4
<1>13. CASE NextBlock
  <2>1. at = "entry" /\ at' = "read" /\ UNCHANGED <<reports, places, pos, ended, block>>
    BY <1>13 DEF NextBlock, output
  <2>2. Turn' = Turn /\ Hits(where, n, 0)' = hits /\ InBlock(n)' = InBlock(n)
    BY <1>2, <2>1, SameTurn, SameHits, SameBlock
  <2> QED
    BY <1>5, <2>1, <2>2 DEF Stage
<1>14. CASE EndOfDirectory
  <2>1. at = "read" /\ ended /\ UNCHANGED reports /\ block = <<>> /\ NextPlace
    BY <1>14 DEF EndOfDirectory, output, ReaderOK, InPlace
  <2>2. InBlock(n) = {} /\ ~ One({})
    BY <2>1, NoBlock DEF One
  <2>3. i = Turn => One(hits)
    BY <1>5, <2>1, <2>2 DEF Stage
  <2> QED
    BY <1>10, <2>1, <2>3
<1>15. CASE QidEntry
  <2>1. /\ at = "entry" /\ block # <<>> /\ block' = Tail(block) /\ block \in Seq(Entries)
        /\ UNCHANGED <<places, at, pos, ended>> /\ Turn' = Turn
    BY <1>2, <1>15, SameTurn DEF QidEntry, ReaderOK, ReaderTyped
  <2>2. /\ InBlock(n) = {} => Head(block) # n /\ InBlock(n)' = {}
        /\ One(InBlock(n)) => IF Head(block) = n THEN InBlock(n)' = {} ELSE One(InBlock(n)')
    BY <2>1, EntryTaken
  <2>3. Head(block) = n /\ i = Turn /\ hits = {} => One(Hits(where, n, 0)')
    <3>1. SUFFICES ASSUME Head(block) = n, i = Turn, hits = {} PROVE One(Hits(where, n, 0)')
      OBVIOUS
    <3>2. PICK r \in Printout : /\ reports' = Append(reports, r)
                              /\ r.where = Head(places).where /\ r.name = n /\ r.address = 0
      <4>1. reports' # reports
        <5>1. reports' = Append(reports, [where |-> Where, dir |-> dir, name |-> n, address |-> 0,
                                          says |-> (IF IsFile(Sub(dir, n)) THEN Qid(Content[n])
                                                    ELSE Failed).says,
                                          pieces |-> <<>>])
          BY <1>3, <1>15, <3>1 DEF QidEntry, Report
        <5>2. reports \in Seq(Printout) /\ Len(reports) \in Nat
          BY LenProperties DEF ReportsOK
        <5>3. Len(reports') = Len(reports) + 1
          BY <5>1, <5>2
        <5> QED
          BY <5>2, <5>3
      <4>2. at \notin HasName
        BY <2>1 DEF HasName
      <4> QED
        BY <3>1, <4>1, <4>2, Prints
    <3>3. r.where = where
      BY <1>4, <2>1, <3>1, <3>2
    <3>4. Hits(where, n, 0)' = hits \cup {Len(reports) + 1}
      BY <3>2, <3>3, Printed DEF ReportsOK
    <3> QED
      BY <3>1, <3>4 DEF One
  <2>4. ~ (Head(block) = n /\ i = Turn) => Hits(where, n, 0)' = hits
    <3>1. SUFFICES ASSUME ~ (Head(block) = n /\ i = Turn) PROVE Hits(where, n, 0)' = hits
      OBVIOUS
    <3>2. CASE UNCHANGED reports
      BY <3>2, SameHits
    <3>3. CASE \E r \in Printout : /\ reports' = Append(reports, r)
                                 /\ r.where = Head(places).where /\ r.name = Head(block)
      <4>1. PICK r \in Printout : /\ reports' = Append(reports, r)
                                /\ r.where = Head(places).where /\ r.name = Head(block)
        BY <3>3
      <4>2. ~ (r.where = where /\ r.name = n /\ r.address = 0)
        BY <1>4, <2>1, <3>1, <4>1
      <4> QED
        BY <4>1, <4>2, Printed DEF ReportsOK
    <3>4. at \notin HasName
      BY <2>1 DEF HasName
    <3> QED
      BY <3>2, <3>3, <3>4, Prints
  <2> HIDE DEF hits
  <2>5. CASE i # Turn
    BY <1>5, <2>1, <2>4, <2>5 DEF Stage
  <2>6. CASE i = Turn
    <3>1. \/ slot >= pos /\ ~ ended /\ InBlock(n) = {} /\ hits = {}
          \/ slot < pos /\ One(InBlock(n)) /\ hits = {}
          \/ slot < pos /\ InBlock(n) = {} /\ One(hits)
      BY <1>5, <2>1, <2>6 DEF Stage
    <3>2. \/ slot >= pos /\ ~ ended /\ InBlock(n)' = {} /\ Hits(where, n, 0)' = {}
          \/ slot < pos /\ One(InBlock(n)') /\ Hits(where, n, 0)' = {}
          \/ slot < pos /\ InBlock(n)' = {} /\ One(Hits(where, n, 0)')
      BY <2>2, <2>3, <2>4, <2>6, <3>1
    <3> QED
      BY <1>4, <2>1, <2>6, <3>2 DEF Stage
  <2> QED
    BY <2>5, <2>6
<1>16. CASE MemoryRead
  <2>1. at \in InModules /\ UNCHANGED <<pos, ended, block>> /\ i # Turn /\ at # "done"
        /\ at # "open"
    BY <1>8, <1>16, MemoryFrame DEF InModules
  <2>2. Hits(where, n, 0)' = hits
    <3>1. CASE UNCHANGED reports
      BY <3>1, SameHits
    <3>2. CASE \E r \in Printout : reports' = Append(reports, r) /\ r.where = "mem"
      <4>1. PICK r \in Printout : reports' = Append(reports, r) /\ r.where = "mem"
        BY <3>2
      <4> QED
        BY <4>1, Printed DEF ReportsOK
    <3>3. ~ QidEntry
      BY <2>1 DEF QidEntry, InModules
    <3> QED
      BY <3>1, <3>2, <3>3, Prints
  <2>3. InBlock(n)' = InBlock(n)
    BY <2>1, SameBlock
  <2>4. CASE NextPlace
    <3>1. Turn' = Turn + 1 /\ (i = Turn + 1 => at' = "open")
      BY <1>2, <2>1, <2>4, QidNext
    <3> HIDE DEF hits
    <3> QED
      BY <1>4, <1>5, <2>1, <2>2, <3>1, StageNext
  <2>5. CASE UNCHANGED places
    <3>1. Turn' = Turn
      BY <1>2, <2>5, SameTurn
    <3> QED
      BY <1>5, <2>1, <2>2, <3>1 DEF Stage
  <2>6. NextPlace \/ UNCHANGED places
    BY <1>16, MemoryFrame
  <2> QED
    BY <2>4, <2>5, <2>6
<1>17. CASE Swap \/ UNCHANGED scanVars
  BY <1>9, <1>17 DEF Swap, scanVars, output
<1>18. ~ (DirEntry \/ PrintNames \/ Descend \/ Ascend \/ ReadFails \/ NoMemory)
  BY DEF DirEntry, PrintNames, Descend, Ascend, ReadFails, NoMemory, ReaderOK, InPlace, OnlyDir
<1> QED
  BY <1>11, <1>12, <1>13, <1>14, <1>15, <1>16, <1>17, <1>18
  DEF Next, Read, Fail, MemoryRead, WriteStep, vars

(* The same for the modules that stay in memory: each of them is in the     *)
(* copy of the module directory until it has been printed.                  *)
WatchingAt(i, a) ==
  LET hits == Hits("mem", memory[a], a)
  IN /\ i > Turn \/ (i = Turn /\ at = "module") => hits = {}
     /\ i < Turn => One(hits)
     /\ i = Turn /\ at # "module" => IF a \in snapshot THEN hits = {} ELSE One(hits)

Watching ==
  Qids /\ ~ lost =>
    \A i \in DOMAIN PlacesOf(read), a \in Address :
      PlacesOf(read)[i].where = "mem" /\ a <= MaxModules /\ Stays(a) /\ memory[a] \in read.wanted
        => WatchingAt(i, a)

LEMMA WatchingStep ==
  ASSUME ReaderOK, ReaderOK', TreeOK, ReportsOK, InspectionTyped, Inspected, Qids, [Next]_vars,
         ~ lost', NEW i \in DOMAIN PlacesOf(read), NEW a \in Address, a <= MaxModules,
         PlacesOf(read)[i].where = "mem", Stays(a)', memory[a] \in read.wanted,
         WatchingAt(i, a)
  PROVE  WatchingAt(i, a)'
<1>1. PICK m \in read.wanted : m = memory[a]
  OBVIOUS
<1> DEFINE hits == Hits("mem", m, a)
<1>2. memory'[a] = m /\ m \in Name /\ m # Free
  BY <1>1, StaysPut, NamesWanted, DirectoryAssumption
<1>3. read' = read
  BY KeepsRead
<1>4. /\ i \in Nat /\ Turn \in Nat
      /\ i = Turn /\ at # "done" => Head(places).where = "mem"
      /\ Head(places).where = "mem" /\ at # "done" => i = Turn
      /\ at = "done" => i < Turn
  BY QidPlace
<1>5. /\ i > Turn \/ (i = Turn /\ at = "module") => hits = {}
      /\ i < Turn => One(hits)
      /\ i = Turn /\ at # "module" => IF a \in snapshot THEN hits = {} ELSE One(hits)
  BY <1>1 DEF WatchingAt
<1>6. SUFFICES
        LET now == Hits("mem", m, a)'
        IN /\ i > Turn' \/ (i = Turn' /\ at' = "module") => now = {}
           /\ i < Turn' => One(now)
           /\ i = Turn' /\ at' # "module" => IF a \in snapshot' THEN now = {} ELSE One(now)
  BY <1>2, <1>6 DEF WatchingAt
<1>7. i = Turn => at \notin OnDisk \cup OnlyDir
  BY <1>4 DEF ReaderOK, InPlace, OnDisk, OnlyDir
<1> HIDE DEF hits
<1>8. CASE UNCHANGED <<places, at, snapshot, reports>>
  BY <1>3, <1>5, <1>8, SameHits, SameTurn DEF hits
<1>9. CASE UNCHANGED reports /\ NextPlace /\ at # "done" /\ (i = Turn => One(hits))
  <2>1. Turn' = Turn + 1 /\ (i = Turn + 1 => at' = "module") /\ Hits("mem", m, a)' = hits
    BY <1>3, <1>9, QidNext, SameHits DEF hits
  <2>2. i < Turn \/ i = Turn \/ i = Turn + 1 \/ i > Turn + 1
    BY <1>4
  <2> QED
    BY <1>4, <1>5, <1>9, <2>1, <2>2
<1>10. CASE (OpenDir \/ EndOfDirectory) /\ NextPlace
  <2>1. UNCHANGED reports /\ at \in OnDisk /\ at # "done"
    BY <1>10 DEF OpenDir, EndOfDirectory, output, OnDisk
  <2> QED
    BY <1>7, <1>9, <1>10, <2>1
<1>11. CASE \/ OpenDir /\ ~ NextPlace
            \/ ReadBlock \/ NextBlock \/ ReadFails
  <2>1. /\ UNCHANGED <<reports, places, snapshot>> /\ at \in OnDisk /\ at # "module"
        /\ at' # "module"
    BY <1>11 DEF OpenDir, ReadBlock, NextBlock, ReadFails, output, inspection, OnDisk
  <2>2. Turn' = Turn /\ Hits("mem", m, a)' = hits
    BY <1>3, <2>1, SameTurn, SameHits DEF hits
  <2> QED
    BY <1>5, <2>1, <2>2
<1>12. CASE QidEntry
  <2>1. UNCHANGED <<places, at, snapshot>> /\ at = "entry" /\ Head(places).where # "mem"
    BY <1>12 DEF QidEntry, inspection, ReaderOK, InPlace, OnDisk
  <2>2. at \notin HasName
    BY <2>1 DEF HasName
  <2>3. CASE UNCHANGED reports
    BY <1>8, <2>1, <2>3
  <2>4. ASSUME NEW r \in Printout, reports' = Append(reports, r), r.where = Head(places).where
        PROVE  Hits("mem", m, a)' = hits
    BY <2>1, <2>4, Printed DEF ReportsOK, hits
  <2>5. Hits("mem", m, a)' = hits
    BY <2>2, <2>4, Prints, SameHits DEF hits
  <2> QED
    BY <1>3, <1>5, <2>1, <2>5, SameTurn
<1>13. CASE Snapshot
  <2>1. /\ at = "module" /\ UNCHANGED reports /\ Head(places).where = "mem" /\ i = Turn
        /\ snapshot' = {b \in Address : b <= MaxModules /\ memory[b] # Free}
    BY <1>4, <1>13 DEF Snapshot, output, ReaderOK, InPlace, InModules
  <2>2. a \in snapshot'
    BY <1>1, <1>2, <2>1
  <2>3. at' = "report" /\ UNCHANGED places
    BY <1>13, <2>2 DEF Snapshot
  <2>4. Turn' = Turn /\ Hits("mem", m, a)' = hits
    BY <1>3, <2>1, <2>3, SameTurn, SameHits DEF hits
  <2> QED
    BY <1>4, <1>5, <2>1, <2>2, <2>3, <2>4
<1>14. CASE MemoryRead /\ ~ Snapshot
  <2>1. ~ ModulesFail
    BY DEF ModulesFail
  <2>2. /\ at \in Inside /\ Head(places).where = "mem" /\ i = Turn
        /\ snapshot # {}
    BY <1>4, <1>14, <2>1 DEF MemoryRead, Header, Match, HeaderAgain, NameAgain, Show, ReaderOK, InPlace,
                            InModules, Inside
  <2>3. Present \in snapshot /\ Present \in Address
    BY <2>2, PresentIs
  <2>4. CASE UNCHANGED <<reports, snapshot, places>> /\ at' \in Inside
    <3>1. Turn' = Turn /\ Hits("mem", m, a)' = hits
      BY <1>3, <2>4, SameTurn, SameHits DEF hits
    <3> QED
      BY <1>4, <1>5, <2>2, <2>4, <3>1 DEF Inside
  <2>5. CASE NextModule
    <3>1. snapshot' = snapshot \ {Present}
      BY <2>5 DEF NextModule
    <3>2. Stays(a)
      BY StaysPut
    <3>3. /\ a \in snapshot' => Hits("mem", m, a)' = {}
          /\ a \notin snapshot' => One(Hits("mem", m, a)')
      <4>1. CASE UNCHANGED reports /\ Present # a
        <5>1. Hits("mem", m, a)' = hits
          BY <4>1, SameHits DEF hits
        <5> QED
          BY <1>5, <2>2, <3>1, <4>1, <5>1 DEF Inside
      <4>2. CASE ~ UNCHANGED reports
        <5>1. ~ QidEntry
          BY <2>2 DEF QidEntry, Inside
        <5>2. PICK r \in Printout : /\ reports' = Append(reports, r)
                                  /\ r.where = "mem" /\ r.name = display
                                  /\ r.address = Present
          BY <4>2, <5>1, Prints
        <5>3. CASE Present = a
          <6>1. at \in HasName
            BY <4>2, <5>1, Prints
          <6>2. r.name = m
            BY <1>1, <2>2, <3>2, <5>2, <5>3, <6>1 DEF Inspected
          <6>3. Hits("mem", m, a)' = hits \cup {Len(reports) + 1}
            BY <5>2, <5>3, <6>2, Printed DEF ReportsOK, hits
          <6>4. hits = {} /\ a \notin snapshot'
            BY <1>5, <2>2, <2>3, <3>1, <5>3 DEF Inside
          <6> QED
            BY <6>3, <6>4 DEF One
        <5>4. CASE Present # a
          <6>1. Hits("mem", m, a)' = hits
            BY <5>2, <5>4, Printed DEF ReportsOK, hits
          <6> QED
            BY <1>5, <2>2, <3>1, <5>4, <6>1 DEF Inside
        <5> QED
          BY <5>3, <5>4
      <4>3. UNCHANGED reports => Present # a
        <5>1. SUFFICES ASSUME UNCHANGED reports, Present = a PROVE FALSE
          OBVIOUS
        <5>2. memory[Present] = m /\ m # Free
          BY <1>1, <1>2, <5>1
        <5>3. CASE Header
          BY <2>2, <2>3, <2>5, <3>1, <5>2, <5>3 DEF Header, ReadHeader
        <5>4. CASE Match
          <6>1. Finds = {m}
            BY <2>2, <3>2, <5>1, <5>2, <5>4 DEF Match, Inspected, Finds, HasHeader
          <6>2. at' = "again" /\ UNCHANGED snapshot
            BY <5>4, <6>1 DEF Match
          <6> QED
            BY <2>3, <3>1, <6>2
        <5>5. CASE HeaderAgain
          BY <2>2, <2>3, <2>5, <3>1, <5>2, <5>5 DEF HeaderAgain, ReadHeader
        <5>6. CASE NameAgain
          BY <2>3, <3>1, <5>6 DEF NameAgain
        <5>7. CASE Show
          <6>1. PICK q : reports' = Append(reports, q)
            BY <5>7 DEF Show, Report
          <6>2. reports \in Seq(Printout) /\ Len(reports) \in Nat
            BY LenProperties DEF ReportsOK
          <6>3. Len(reports') = Len(reports) + 1
            BY <6>1, <6>2
          <6> QED
            BY <5>1, <6>2, <6>3
        <5> QED
          BY <1>14, <2>1, <5>3, <5>4, <5>5, <5>6, <5>7 DEF MemoryRead
      <4> QED
        BY <4>1, <4>2, <4>3
    <3>4. CASE snapshot' = {}
      <4>1. NextPlace /\ at # "done"
        BY <2>2, <2>5, <3>4 DEF NextModule, Inside
      <4>2. Turn' = Turn + 1
        BY <1>3, <4>1, QidNext
      <4> QED
        BY <1>4, <2>2, <3>3, <3>4, <4>2
    <3>5. CASE snapshot' # {}
      <4>1. at' = "report" /\ UNCHANGED places
        BY <2>5, <3>5 DEF NextModule
      <4>2. Turn' = Turn
        BY <1>3, <4>1, SameTurn
      <4> QED
        BY <1>4, <2>2, <3>3, <4>1, <4>2
    <3> QED
      BY <3>4, <3>5
  <2> QED
    BY <1>14, <2>1, <2>4, <2>5
    DEF MemoryRead, Header, Match, HeaderAgain, NameAgain, Show, ReadHeader, output, Inside
<1>15. CASE Swap \/ UNCHANGED scanVars
  <2>1. UNCHANGED <<places, at, snapshot, reports>>
    BY <1>15 DEF Swap, scanVars, output, inspection
  <2> QED
    BY <1>8, <2>1
<1>16. ~ (DirEntry \/ PrintNames \/ Descend \/ Ascend \/ NoMemory) /\ (EndOfDirectory => NextPlace)
  BY DEF DirEntry, PrintNames, Descend, Ascend, NoMemory, EndOfDirectory, ReaderOK, InPlace, OnlyDir
<1>17. ~ ModulesFail
  BY DEF ModulesFail
<1> QED
  BY <1>10, <1>11, <1>12, <1>13, <1>14, <1>15, <1>16, <1>17
  DEF Next, Read, Fail, MemoryRead, WriteStep, vars

LEMMA QidAtStart ==
  ASSUME Init
  PROVE  Reading /\ Watching
<1>1. ReaderOK /\ places = PlacesOf(read) /\ reports = <<>> /\ at = OpensAt(places)
  BY ReaderAtStart DEF Init
<1>2. \A where, name, address : Hits(where, name, address) = {}
  <2>1. DOMAIN <<>> = {}
    BY EmptySeq
  <2> QED
    BY <1>1, <2>1 DEF Hits
<1>3. ASSUME Qids, NEW i \in DOMAIN PlacesOf(read)
      PROVE  /\ i \in Nat /\ Turn \in Nat /\ (i > Turn \/ i = Turn)
             /\ i = Turn => at = IF PlacesOf(read)[i].where = "mem" THEN "module" ELSE "open"
  <2>1. places \in Seq(Place) /\ Turn = 1
    <3>1. places \in Seq(Place) /\ Len(places) \in Nat
      BY <1>1, LenProperties DEF ReaderOK, ReaderTyped
    <3> QED
      BY <1>1, <3>1 DEF Turn
  <2>2. i \in 1..Len(places) /\ Len(places) \in Nat
    BY <1>1, <2>1, <1>3, LenProperties
  <2>3. i \in Nat /\ (i > 1 \/ i = 1) /\ Len(places) # 0
    BY <2>2
  <2>4. places # <<>> /\ Head(places) = PlacesOf(read)[1]
    BY <1>1, <2>1, <2>3, TailSeq, EmptySeq
  <2> QED
    BY <1>1, <2>1, <2>3, <2>4 DEF OpensAt
<1>4. Reading
  BY <1>2, <1>3 DEF Reading, ReadingAt, Stage
<1>5. Watching
  BY <1>2, <1>3 DEF Watching, WatchingAt
<1> QED
  BY <1>4, <1>5

LEMMA LostStays == ReaderOK /\ [Next]_vars /\ lost => lost'
BY Elsewhere DEF MemoryRead, Snapshot, ModulesFail, Header, Match, HeaderAgain, NameAgain, Show, Swap,
                 inspection

LEMMA QidStep ==
  ASSUME ReaderOK, TreeOK, ReportsOK, InspectionTyped, Inspected, Reading, Watching, [Next]_vars
  PROVE  Reading' /\ Watching'
<1>1. read' = read /\ (broken => broken') /\ ReaderOK'
  BY KeepsRead, ReaderStep
<1>2. ASSUME Qids', ~ broken', NEW i \in DOMAIN PlacesOf(read), NEW n \in read.wanted,
             PlacesOf(read)[i].where # "mem", Append(PlacesOf(read)[i].dir, n) \in stable'
      PROVE  ReadingAt(i, PlacesOf(read)[i].where, PlacesOf(read)[i].dir, n)'
  <2>1. PICK where, d : where = PlacesOf(read)[i].where /\ d = PlacesOf(read)[i].dir
    OBVIOUS
  <2>2. Qids /\ ~ broken
    BY <1>1, <1>2 DEF Qids
  <2>3. Append(d, n) \in stable
    BY <1>2, <2>1, StableKept
  <2>4. ReadingAt(i, where, d, n)
    BY <1>2, <2>1, <2>2, <2>3 DEF Reading
  <2>5. ReadingAt(i, where, d, n)'
    BY <1>2, <2>1, <2>2, <2>4, ReadingStep
  <2>6. where = (PlacesOf(read)[i].where)' /\ d = (PlacesOf(read)[i].dir)'
    BY <1>1, <2>1
  <2> QED
    BY <2>5, <2>6 DEF ReadingAt, Hits
<1>3. ASSUME Qids', ~ lost', NEW i \in DOMAIN PlacesOf(read), NEW a \in Address, a <= MaxModules,
             PlacesOf(read)[i].where = "mem", Stays(a)', memory'[a] \in read.wanted
      PROVE  WatchingAt(i, a)'
  <2>1. Stays(a) /\ memory'[a] = memory[a] /\ Qids /\ ~ lost
    BY <1>1, <1>3, StaysPut, LostStays DEF Qids
  <2>2. WatchingAt(i, a)
    BY <1>3, <2>1 DEF Watching
  <2> QED
    BY <1>1, <1>3, <2>1, <2>2, WatchingStep
<1>4. Reading'
  BY <1>1, <1>2 DEF Reading, ReadingAt, Hits
<1>5. Watching'
  BY <1>1, <1>3 DEF Watching
<1> QED
  BY <1>4, <1>5

(* At the end every place is behind qid, and each count is one. *)
LEMMA Counted ==
  ASSUME NEW where, NEW name, NEW address, One(Hits(where, name, address))
  PROVE  Times(where, name, address) = 1
<1>1. PICK i : Hits(where, name, address) = {i}
  BY DEF One
<1>2. Cardinality(Hits(where, name, address)) = 1
  BY <1>1, FS_Singleton
<1> QED
  BY <1>2 DEF Times, Hits

LEMMA BeenOnce ==
  ASSUME ReaderOK, ReportsOK, NEW a \in Address, Cardinality(Been(a)) = 1
  PROVE  Stays(a)
<1>1. IsFiniteSet(Address \X (Name \cup {Free}))
  <2>1. IsFiniteSet(Name \cup {Free})
    BY DirectoryAssumption, FS_AddElement
  <2> QED
    BY <2>1, ScanAssumption, FS_Product
<1>2. Been(a) \in SUBSET (Address \X (Name \cup {Free}))
  BY DEF ReportsOK, Been
<1>3. IsFiniteSet(Been(a))
  BY <1>1, <1>2, FS_Subset
<1>4. PICK r : Been(a) = {r}
  BY <1>3, FS_Singleton
<1>5. <<a, memory[a]>> \in Been(a)
  BY DEF ReaderOK, ReaderTyped, Residents, Been
<1> QED
  BY <1>4, <1>5 DEF Stays, Been

LEMMA ReportsAtEnd ==
  ASSUME ReaderOK, ReportsOK, Reading, Watching
  PROVE  QidReportsStable
<1>1. SUFFICES ASSUME Qids, at = "done"
               PROVE  Truthful /\ (~ lost => MemoryReported) /\ (~ broken => DiskReported)
  BY <1>1 DEF QidReportsStable
<1>2. \A i \in DOMAIN PlacesOf(read) : i < Turn
  BY <1>1, QidPlace
<1>3. ASSUME ~ broken, NEW i \in DOMAIN PlacesOf(read), NEW n \in read.wanted,
             PlacesOf(read)[i].where # "mem", Append(PlacesOf(read)[i].dir, n) \in stable
      PROVE  Times(PlacesOf(read)[i].where, n, 0) = 1
  <2>1. ReadingAt(i, PlacesOf(read)[i].where, PlacesOf(read)[i].dir, n)
    BY <1>1, <1>3 DEF Reading
  <2>2. One(Hits(PlacesOf(read)[i].where, n, 0))
    BY <1>2, <2>1 DEF ReadingAt, Stage
  <2> QED
    BY <2>2, Counted
<1>4. ASSUME ~ lost, NEW i \in DOMAIN PlacesOf(read), NEW a \in Address,
             PlacesOf(read)[i].where = "mem", a <= MaxModules,
             Cardinality(Been(a)) = 1, memory[a] \in read.wanted
      PROVE  Times("mem", memory[a], a) = 1
  <2>1. WatchingAt(i, a)
    BY <1>1, <1>4, BeenOnce DEF Watching
  <2>2. One(Hits("mem", memory[a], a))
    BY <1>2, <2>1 DEF WatchingAt
  <2> QED
    BY <2>2, Counted
<1>5. ~ broken => DiskReported
  BY <1>3 DEF DiskReported
<1>6. ~ lost => MemoryReported
  BY <1>4 DEF MemoryReported
<1>7. Truthful
  <2>1. ASSUME NEW r \in Range(reports), r.where = "mem", r.says = "module",
               Cardinality(Been(r.address)) = 1
        PROVE  Range(r.pieces) = {r.name}
    <3>1. Told(r) /\ r.address \in Address
      BY <2>1 DEF ReportsOK, Told
    <3>2. Stays(r.address)
      BY <2>1, <3>1, BeenOnce
    <3>3. PICK m : m = r.name /\ r.pieces = <<m, m, m>>
      BY <2>1, <3>1, <3>2 DEF Told
    <3> QED
      BY <3>3 DEF Range
  <2>2. \A r \in Range(reports) : r.where = "mem" /\ r.says = "module" =>
          <<r.address, r.pieces[1]>> \in ever
    BY DEF ReportsOK, Told
  <2> QED
    BY <2>1, <2>2 DEF Truthful, ReportsOK
<1> QED
  BY <1>5, <1>6, <1>7

LEMMA QidInvariant == Spec => [](ReportsOK /\ Inspected /\ Reading /\ Watching)
<1>1. Init => ReportsOK /\ Inspected /\ Reading /\ Watching
  BY ReportsAtStart, QidAtStart, InspectedAtStart
<1>2. /\ ReaderOK /\ TreeOK /\ InspectionTyped /\ [Next]_vars
      /\ ReportsOK /\ Inspected /\ Reading /\ Watching
      => (ReportsOK /\ Inspected /\ Reading /\ Watching)'
  BY ReaderStep, ReportsStep, InspectedStep, QidStep
<1> QED
  BY <1>1, <1>2, DirectoryInvariant, ReaderInvariant, InspectionInvariant, PTL DEF Spec

(* qid reports each file that was there all the time and matches exactly    *)
(* once, whatever is deleted and created around it and in whichever block   *)
(* its entry comes, and each module that stayed in memory, within the room  *)
(* for the module directory, exactly once and in all its pieces, whatever   *)
(* is loaded and unlinked elsewhere.  A header it prints was there, and it  *)
(* returns 0 only when no report failed and the module directory was read.  *)
THEOREM QidIsExact == Spec => []QidReportsStable
<1>1. ReaderOK /\ ReportsOK /\ Reading /\ Watching => QidReportsStable
  BY ReportsAtEnd
<1> QED
  BY <1>1, ReaderInvariant, QidInvariant, PTL

-----------------------------------------------------------------------------
(* What dir collects of a directory: names in their order, each stable one  *)
(* once.                                                                    *)
In(list, name) == {i \in DOMAIN list : list[i] = name}

LEMMA AddedOnce ==
  ASSUME NEW list \in Seq(Name \cup {Dot}), NEW n \in Name \cup {Dot}, NEW m
  PROVE  /\ m # n /\ In(list, m) = {} => In(AddName(list, n), m) = {}
         /\ m # n /\ One(In(list, m)) => One(In(AddName(list, n), m))
         /\ m = n /\ In(list, m) = {} => One(In(AddName(list, n), m))
         /\ Range(AddName(list, n)) \subseteq Range(list) \cup {n}
<1> DEFINE new == AddName(list, n)
           L == Len(list)
<1>1. L \in Nat /\ DOMAIN list = 1..L
  BY LenProperties
<1>2. new \in Seq(Name \cup {Dot}) /\ Len(new) = L + 1
  BY NameAdded
<1>3. PICK i \in 0..L : /\ \A j \in 1..i : new[j] = list[j]
                        /\ new[i + 1] = n
                        /\ \A j \in (i + 2)..(L + 1) : new[j] = list[j - 1]
  BY NameAdded
<1>4. DOMAIN new = 1..(L + 1)
  BY <1>2, LenProperties
<1> HIDE DEF new, L
<1>5. /\ \A j \in DOMAIN new : \/ j = i + 1 /\ new[j] = n
                               \/ j <= i /\ j \in DOMAIN list /\ new[j] = list[j]
                               \/ j > i + 1 /\ j - 1 \in DOMAIN list /\ new[j] = list[j - 1]
      /\ \A j \in DOMAIN list : \/ j <= i /\ j \in DOMAIN new /\ new[j] = list[j]
                                \/ j > i /\ j + 1 \in DOMAIN new /\ new[j + 1] = list[j]
      /\ i + 1 \in DOMAIN new
  <2>1. ASSUME NEW j \in 1..(L + 1)
        PROVE  \/ j = i + 1 /\ new[j] = n
               \/ j <= i /\ j \in 1..L /\ new[j] = list[j]
               \/ j > i + 1 /\ j - 1 \in 1..L /\ new[j] = list[j - 1]
    BY <1>1, <1>3
  <2>2. ASSUME NEW j \in 1..L
        PROVE  \/ j <= i /\ j \in 1..(L + 1) /\ new[j] = list[j]
               \/ j > i /\ j + 1 \in 1..(L + 1) /\ new[j + 1] = list[j]
    <3>1. CASE j <= i
      BY <1>1, <1>3, <3>1
    <3>2. CASE j > i
      <4>1. j + 1 \in (i + 2)..(L + 1) /\ j + 1 - 1 = j /\ j + 1 \in 1..(L + 1)
        BY <1>1, <3>2
      <4> QED
        BY <1>3, <3>2, <4>1
    <3> QED
      BY <1>1, <3>1, <3>2
  <2>3. i + 1 \in 1..(L + 1)
    BY <1>1
  <2> QED
    BY <1>1, <1>4, <2>1, <2>2, <2>3
<1>6. i \in Nat /\ DOMAIN list \subseteq Nat /\ DOMAIN new \subseteq Nat
  BY <1>1, <1>4
<1>7. ASSUME m # n, In(list, m) = {} PROVE In(new, m) = {}
  BY <1>5, <1>7 DEF In
<1>8. ASSUME m # n, NEW k \in In(list, m), In(list, m) = {k} PROVE One(In(new, m))
  <2>1. CASE k <= i
    <3>1. k \in In(new, m)
      BY <1>5, <1>6, <1>8, <2>1 DEF In
    <3>2. \A j \in In(new, m) : j = k
      BY <1>5, <1>6, <1>8, <2>1 DEF In
    <3> QED
      BY <3>1, <3>2 DEF One
  <2>2. CASE k > i
    <3>1. k + 1 \in In(new, m)
      BY <1>5, <1>6, <1>8, <2>2 DEF In
    <3>2. \A j \in In(new, m) : j = k + 1
      BY <1>5, <1>6, <1>8, <2>2 DEF In
    <3>3. In(new, m) = {k + 1}
      BY <3>1, <3>2
    <3> QED
      BY <3>1, <3>3 DEF One
  <2> QED
    BY <1>6, <2>1, <2>2 DEF In
<1>9. ASSUME m = n, In(list, m) = {} PROVE One(In(new, m))
  <2>1. In(new, m) = {i + 1}
    BY <1>5, <1>6, <1>9 DEF In
  <2> QED
    BY <2>1 DEF One
<1>10. Range(new) \subseteq Range(list) \cup {n}
  BY <1>5 DEF Range
<1> QED
  BY <1>7, <1>8, <1>9, <1>10 DEF One, new

LEMMA AddedInOrder ==
  ASSUME NEW list \in Seq(Name \cup {Dot}), NEW n \in Name \cup {Dot}, Sorted(list),
         "s" \notin read.opts
  PROVE  Sorted(AddName(list, n))
<1> DEFINE new == AddName(list, n)
           L == Len(list)
<1>1. /\ L \in Nat /\ DOMAIN list = 1..L /\ n \in Nat
      /\ \A j \in 1..L : list[j] \in Nat
  BY LenProperties, ElementOfSeq, DirectoryAssumption DEF Dot
<1>2. new \in Seq(Name \cup {Dot}) /\ Len(new) = L + 1
  BY NameAdded
<1>3. PICK i \in 0..L : /\ \A j \in 1..i : new[j] = list[j]
                        /\ new[i + 1] = n
                        /\ \A j \in (i + 2)..(L + 1) : new[j] = list[j - 1]
                        /\ \A j \in 1..i : list[j] < n
                        /\ i = L \/ ~ (list[i + 1] < n)
  BY NameAdded
<1>4. DOMAIN new = 1..(L + 1)
  BY <1>2, LenProperties
<1>5. \A j, k \in 1..L : j < k => list[j] <= list[k]
  BY <1>1 DEF Sorted
<1> HIDE DEF new, L
<1>6. ASSUME NEW j \in 1..(L + 1), NEW k \in 1..(L + 1), j < k PROVE new[j] <= new[k]
  <2>1. CASE k <= i
    BY <1>1, <1>3, <1>5, <1>6, <2>1
  <2>2. CASE k = i + 1
    BY <1>1, <1>3, <1>6, <2>2
  <2>3. CASE k > i + 1 /\ j <= i
    <3>1. new[j] = list[j] /\ new[k] = list[k - 1] /\ j \in 1..L /\ k - 1 \in 1..L /\ j < k - 1
      BY <1>1, <1>3, <1>6, <2>3
    <3> QED
      BY <1>5, <3>1
  <2>4. CASE k > i + 1 /\ j = i + 1
    <3>1. new[j] = n /\ new[k] = list[k - 1] /\ i + 1 \in 1..L /\ k - 1 \in 1..L /\ i + 1 <= k - 1
      BY <1>1, <1>3, <1>6, <2>4
    <3>2. n <= list[i + 1]
      BY <1>1, <1>3, <3>1
    <3>3. list[i + 1] <= list[k - 1]
      <4>1. CASE i + 1 = k - 1
        <5>1. list[i + 1] = list[k - 1] /\ list[i + 1] \in Nat
          BY <1>1, <3>1, <4>1
        <5> QED
          BY <5>1
      <4>2. CASE i + 1 < k - 1
        BY <1>5, <3>1, <4>2
      <4> QED
        BY <3>1, <4>1, <4>2
    <3> QED
      BY <1>1, <3>1, <3>2, <3>3
  <2>5. CASE j > i + 1
    <3>1. /\ new[j] = list[j - 1] /\ new[k] = list[k - 1] /\ j - 1 \in 1..L /\ k - 1 \in 1..L
          /\ j - 1 < k - 1
      BY <1>1, <1>3, <1>6, <2>5
    <3> QED
      BY <1>5, <3>1
  <2> QED
    BY <1>1, <1>6, <2>1, <2>2, <2>3, <2>4, <2>5
<1>7. Sorted(new)
  BY <1>4, <1>6 DEF Sorted
<1> QED
  BY <1>7 DEF new

NamesOK ==
  /\ "r" \in read.opts => Range(names) \subseteq Name
  /\ "s" \notin read.opts => Sorted(names) /\ \A k \in DOMAIN listings : Sorted(listings[k].names)

Collecting(n) ==
  Stage(1, 1, at, tree[Append(dir, n)].slot, pos, ended, InBlock(n), In(names, n))

Collected ==
  ~ Qids /\ ~ broken =>
    /\ at \in {"read", "entry"} => \A n \in Name : Append(dir, n) \in stable => Collecting(n)
    /\ at = "print" => \A n \in Name : Append(dir, n) \in stable => One(In(names, n))
    /\ \A k \in DOMAIN listings, n \in Name :
         Append(listings[k].dir, n) \in stable => One(In(listings[k].names, n))

LEMMA ListingMade ==
  ASSUME ReaderOK, PrintNames, listings' # listings
  PROVE  /\ DOMAIN listings' = DOMAIN listings \cup {Len(listings) + 1}
         /\ Len(listings) + 1 \notin DOMAIN listings
         /\ \A k \in DOMAIN listings : listings'[k] = listings[k]
         /\ listings'[Len(listings) + 1].dir = dir
         /\ listings'[Len(listings) + 1].names = names
<1> DEFINE f == [dir |-> dir, names |-> names]
<1>1. f \in Frame /\ listings \in Seq(Frame) /\ f.dir = dir /\ f.names = names
  BY DEF ReaderOK, ReaderTyped, Frame
<1>2. listings' = Append(listings, f)
  BY DEF PrintNames
<1> HIDE DEF f
<1>3. /\ listings' \in Seq(Frame) /\ Len(listings') = Len(listings) + 1 /\ Len(listings) \in Nat
      /\ \A i \in 1..Len(listings) : listings'[i] = listings[i]
      /\ listings'[Len(listings) + 1] = f
  BY <1>1, <1>2, AppendProperties, LenProperties
<1>4. DOMAIN listings' = 1..(Len(listings) + 1) /\ DOMAIN listings = 1..Len(listings)
  BY <1>1, <1>3, LenProperties
<1> QED
  BY <1>1, <1>3, <1>4

LEMMA OnlyPrintLists ==
  ASSUME [Next]_vars
  PROVE  listings' = listings \/ PrintNames
<1>1. CASE Read
  BY <1>1 DEF Read, OpenDir, ReadBlock, NextBlock, EndOfDirectory, QidEntry, Snapshot, Header,
              Match, HeaderAgain, NameAgain, Show, ReadHeader, DirEntry, PrintNames, Descend, Ascend, output, Report
<1>2. CASE Fail \/ Swap \/ UNCHANGED scanVars
  BY <1>2 DEF Fail, ReadFails, ModulesFail, NoMemory, Swap, scanVars, output
<1> QED
  BY <1>1, <1>2 DEF Next, WriteStep, vars

LEMMA EmptyList ==
  /\ Range(<<>>) = {} /\ Sorted(<<>>) /\ \A n : In(<<>>, n) = {}
<1>1. DOMAIN <<>> = {}
  BY EmptySeq
<1> QED
  BY <1>1 DEF Range, Sorted, In

(* How the list of names changes. *)
LEMMA NamesChange ==
  ASSUME ReaderOK, TreeOK, [Next]_vars
  PROVE  \/ names' = names
         \/ OpenDir /\ at' = "read" /\ names' = <<>>
         \/ /\ DirEntry /\ names' = AddName(names, Head(block))
            /\ Head(block) \in Name \cup {Dot}
            /\ "r" \in read.opts => Head(block) \in Name
<1>1. CASE DirEntry
  <2>1. Head(block) \in Entries
    <3>1. block # <<>> /\ block \in Seq(Entries)
      BY <1>1 DEF DirEntry, ReaderOK, ReaderTyped
    <3> QED
      BY <3>1, TailSeq
  <2> QED
    BY <1>1, <2>1 DEF DirEntry, Shown, Entries
<1>2. CASE OpenDir
  BY <1>2 DEF OpenDir
<1>3. CASE Read /\ ~ DirEntry /\ ~ OpenDir
  BY <1>3 DEF Read, ReadBlock, NextBlock, EndOfDirectory, QidEntry, Snapshot, Header,
              Match, HeaderAgain, NameAgain, Show, ReadHeader, PrintNames, Descend, Ascend
<1>4. CASE Fail \/ Swap \/ UNCHANGED scanVars
  BY <1>4 DEF Fail, ReadFails, ModulesFail, NoMemory, Swap, scanVars
<1> QED
  BY <1>1, <1>2, <1>3, <1>4 DEF Next, WriteStep, vars

LEMMA NamesStep ==
  ASSUME ReaderOK, TreeOK, NamesOK, [Next]_vars
  PROVE  NamesOK'
<1>1. read' = read /\ names \in Seq(Name \cup {Dot})
  BY KeepsRead DEF ReaderOK, ReaderTyped
<1>2. /\ "r" \in read.opts => Range(names') \subseteq Name
      /\ "s" \notin read.opts => Sorted(names')
  <2>1. CASE names' = names
    BY <2>1 DEF NamesOK, Sorted
  <2>2. CASE names' = <<>>
    BY <2>2, EmptyList
  <2>3. CASE /\ names' = AddName(names, Head(block)) /\ Head(block) \in Name \cup {Dot}
             /\ "r" \in read.opts => Head(block) \in Name
    <3>1. "s" \notin read.opts => Sorted(AddName(names, Head(block)))
      BY <1>1, <2>3, AddedInOrder DEF NamesOK
    <3>2. Range(AddName(names, Head(block))) \subseteq Range(names) \cup {Head(block)}
      BY <1>1, <2>3, AddedOnce
    <3> QED
      BY <2>3, <3>1, <3>2 DEF NamesOK
  <2> QED
    BY <2>1, <2>2, <2>3, NamesChange
<1>3. "s" \notin read.opts => \A k \in DOMAIN listings' : Sorted(listings'[k].names)
  <2>1. CASE listings' = listings
    BY <2>1 DEF NamesOK
  <2>2. CASE PrintNames /\ listings' # listings
    BY <2>2, ListingMade DEF NamesOK
  <2> QED
    BY <2>1, <2>2, OnlyPrintLists
<1> QED
  BY <1>1, <1>2, <1>3 DEF NamesOK, Sorted

LEMMA CollectingStep ==
  ASSUME ReaderOK, TreeOK, ~ Qids, Collected, [Next]_vars, ~ broken', at' \in {"read", "entry"},
         NEW n \in Name, Append(dir', n) \in stable'
  PROVE  Collecting(n)'
<1>1. ~ broken /\ read' = read /\ n # Free /\ n # Dot
  BY KeepsRead, DirectoryAssumption
<1>2. PICK p : p = Append(dir', n)
  OBVIOUS
<1>3. PICK slot : slot = tree'[p].slot
  OBVIOUS
<1>4. p \in stable /\ p \in DOMAIN tree /\ tree[p].slot = slot
  BY <1>2, <1>3, StableKept
<1>5. SUFFICES Stage(1, 1, at', slot, pos', ended', InBlock(n)', In(names', n))
  BY <1>2, <1>3, <1>5 DEF Collecting, In
<1>6. dir' = dir /\ at \in {"read", "entry"} =>
        Stage(1, 1, at, slot, pos, ended, InBlock(n), In(names, n))
  BY <1>1, <1>2, <1>4 DEF Collected, Collecting
<1>7. CASE UNCHANGED <<at, dir, pos, ended, block, names>>
  BY <1>6, <1>7, SameBlock
<1>8. CASE OpenDir
  <2>1. /\ at' = "read" /\ pos' = 1 /\ ended' = FALSE /\ names' = <<>> /\ block' = block
        /\ block = <<>> /\ dir' = dir
    BY <1>8, GoesToNext DEF OpenDir, ReaderOK, InPlace
  <2>2. InBlock(n)' = {} /\ In(names', n) = {}
    BY <2>1, SameBlock, NoBlock, EmptyList
  <2>3. slot \in Nat /\ slot >= 1
    BY <1>4, DirectoryAssumption DEF TreeOK, WellFormed, Entry
  <2> QED
    BY <2>1, <2>2, <2>3 DEF Stage
<1>9. CASE ReadBlock
  <2>1. at = "read" /\ at' = "entry" /\ UNCHANGED <<dir, names>> /\ block = <<>>
    BY <1>9 DEF ReadBlock, ReaderOK, InPlace
  <2>2. InBlock(n) = {} /\ ~ One({})
    BY <2>1, NoBlock DEF One
  <2>3. /\ pos' > pos
        /\ slot < pos => InBlock(n)' = {}
        /\ slot >= pos => \/ slot < pos' /\ One(InBlock(n)')
                          \/ slot >= pos' /\ ~ ended' /\ InBlock(n)' = {}
    BY <1>2, <1>4, <1>9, <2>1, SlotsRead
  <2>4. slot < pos => slot < pos'
    <3>1. slot \in Nat /\ pos \in Nat /\ pos' \in Nat
      BY <1>4, <1>9, BlockStep, DirectoryAssumption
      DEF ReaderOK, ReaderTyped, TreeOK, WellFormed, Entry
    <3> QED
      BY <2>3, <3>1
  <2>5. \/ slot >= pos /\ In(names, n) = {}
        \/ slot < pos /\ One(In(names, n))
    BY <1>6, <2>1, <2>2 DEF Stage
  <2>6. \/ slot >= pos' /\ ~ ended' /\ InBlock(n)' = {} /\ In(names', n) = {}
        \/ slot < pos' /\ One(InBlock(n)') /\ In(names', n) = {}
        \/ slot < pos' /\ InBlock(n)' = {} /\ One(In(names', n))
    BY <2>1, <2>3, <2>4, <2>5
  <2> QED
    BY <2>1, <2>6 DEF Stage
<1>10. CASE NextBlock
  <2>1. at = "entry" /\ at' = "read" /\ UNCHANGED <<dir, pos, ended, block, names>>
    BY <1>10 DEF NextBlock
  <2>2. InBlock(n)' = InBlock(n)
    BY <2>1, SameBlock
  <2> QED
    BY <1>6, <2>1, <2>2 DEF Stage
<1>11. CASE DirEntry
  <2>1. /\ at = "entry" /\ block # <<>> /\ block' = Tail(block) /\ block \in Seq(Entries)
        /\ UNCHANGED <<at, dir, pos, ended>> /\ names \in Seq(Name \cup {Dot})
    BY <1>11 DEF DirEntry, ReaderOK, ReaderTyped
  <2>2. /\ InBlock(n) = {} => Head(block) # n /\ InBlock(n)' = {}
        /\ One(InBlock(n)) => IF Head(block) = n THEN InBlock(n)' = {} ELSE One(InBlock(n)')
    BY <2>1, EntryTaken
  <2>3. /\ Head(block) # n /\ In(names, n) = {} => In(names', n) = {}
        /\ Head(block) # n /\ One(In(names, n)) => One(In(names', n))
        /\ Head(block) = n /\ In(names, n) = {} => One(In(names', n))
    <3>1. CASE names' = names /\ Head(block) # n
      BY <3>1
    <3>2. CASE names' = AddName(names, Head(block)) /\ Head(block) \in Name \cup {Dot}
      BY <2>1, <3>2, AddedOnce
    <3>3. Head(block) \in Entries
      BY <2>1, TailSeq
    <3> QED
      BY <1>1, <1>11, <3>1, <3>2, <3>3 DEF DirEntry, Shown, Entries
  <2>4. \/ slot >= pos /\ ~ ended /\ InBlock(n) = {} /\ In(names, n) = {}
        \/ slot < pos /\ One(InBlock(n)) /\ In(names, n) = {}
        \/ slot < pos /\ InBlock(n) = {} /\ One(In(names, n))
    BY <1>6, <2>1 DEF Stage
  <2>5. \/ slot >= pos /\ ~ ended /\ InBlock(n)' = {} /\ In(names', n) = {}
        \/ slot < pos /\ One(InBlock(n)') /\ In(names', n) = {}
        \/ slot < pos /\ InBlock(n)' = {} /\ One(In(names', n))
    BY <2>2, <2>3, <2>4
  <2> QED
    BY <2>1, <2>5 DEF Stage
<1>12. ~ (EndOfDirectory \/ PrintNames \/ Descend \/ Ascend)
  BY DEF EndOfDirectory, PrintNames, Descend, Ascend, NextPlace, OpensAt
<1>13. ~ (QidEntry \/ MemoryRead \/ ReadFails \/ NoMemory)
  BY MemoryFrame DEF QidEntry, ReadFails, NoMemory
<1>14. CASE Swap \/ UNCHANGED scanVars
  BY <1>7, <1>14 DEF Swap, scanVars
<1> QED
  BY <1>8, <1>9, <1>10, <1>11, <1>12, <1>13, <1>14
  DEF Next, Read, Fail, MemoryRead, WriteStep, vars

LEMMA CollectedStep ==
  ASSUME ReaderOK, TreeOK, Collected, [Next]_vars
  PROVE  Collected'
<1>1. SUFFICES ASSUME ~ Qids, ~ broken'
               PROVE  /\ at' \in {"read", "entry"} =>
                           \A n \in Name : Append(dir', n) \in stable' => Collecting(n)'
                      /\ at' = "print" =>
                           \A n \in Name : Append(dir', n) \in stable' => One(In(names', n))
                      /\ \A k \in DOMAIN listings', n \in Name :
                           Append(listings'[k].dir, n) \in stable' => One(In(listings'[k].names, n))
  <2>1. Qids' <=> Qids
    BY KeepsRead DEF Qids
  <2> QED
    BY <1>1, <2>1 DEF Collected, Collecting, In, InBlock
<1>2. ~ broken /\ stable' \subseteq stable
  BY <1>1, KeepsRead, StableKept
<1>3. ASSUME at' = "print", NEW n \in Name, Append(dir', n) \in stable'
      PROVE  One(In(names', n))
  <2>1. CASE EndOfDirectory
    <3>1. /\ at = "read" /\ ended /\ block = <<>> /\ UNCHANGED <<dir, names>>
      BY <1>1, <2>1 DEF EndOfDirectory, ReaderOK, InPlace
    <3>2. InBlock(n) = {} /\ ~ One({})
      BY <3>1, NoBlock DEF One
    <3>3. Collecting(n)
      BY <1>1, <1>2, <1>3, <3>1 DEF Collected
    <3> QED
      BY <3>1, <3>2, <3>3 DEF Collecting, Stage
  <2>2. CASE UNCHANGED <<at, dir, names>>
    BY <1>1, <1>2, <1>3, <2>2 DEF Collected
  <2>3. ~ (OpenDir \/ ReadBlock \/ NextBlock \/ PrintNames \/ Descend \/ Ascend \/ DirEntry)
    BY <1>1, <1>3 DEF OpenDir, ReadBlock, NextBlock, PrintNames, Descend, Ascend, NextPlace, OpensAt,
                      DirEntry
  <2>4. ~ (QidEntry \/ MemoryRead \/ ReadFails \/ NoMemory)
    BY <1>1, MemoryFrame DEF QidEntry, ReadFails, NoMemory
  <2>5. CASE Swap \/ UNCHANGED scanVars
    BY <2>2, <2>5 DEF Swap, scanVars
  <2> QED
    BY <2>1, <2>3, <2>4, <2>5 DEF Next, Read, Fail, MemoryRead, WriteStep, vars
<1>4. ASSUME NEW k \in DOMAIN listings', NEW n \in Name, Append(listings'[k].dir, n) \in stable'
      PROVE  One(In(listings'[k].names, n))
  <2>1. CASE listings' = listings
    BY <1>1, <1>2, <1>4, <2>1 DEF Collected
  <2>2. CASE PrintNames /\ listings' # listings
    <3>1. at = "print"
      BY <2>2 DEF PrintNames
    <3> QED
      BY <1>1, <1>2, <1>4, <2>2, <3>1, ListingMade DEF Collected
  <2> QED
    BY <2>1, <2>2, OnlyPrintLists
<1> QED
  BY <1>1, <1>3, <1>4, CollectingStep

-----------------------------------------------------------------------------
(* The directories on the way to a path. *)
Along(s, t) == Len(s) <= Len(t) /\ \A j \in 1..Len(s) : s[j] = t[j]
ParentsStay == \A p \in stable \ {<<>>} : Front(p) \in stable

LEMMA PathLength == \A p \in Paths : Len(p) \in Nat /\ p \in Seq(Name) /\ DOMAIN p = 1..Len(p)
BY PathSeq, LenProperties

LEMMA PathsOfTree == TreeOK => DOMAIN tree \subseteq Paths /\ stable \subseteq Paths
BY DEF TreeOK, WellFormed

LEMMA PrefixIs ==
  ASSUME NEW s \in Paths, NEW t \in Paths
  PROVE  IsPrefix(s, t) <=> Along(s, t)
<1>1. s \in Seq(Name) /\ t \in Seq(Name) /\ Len(s) \in Nat /\ Len(t) \in Nat
  BY PathLength
<1>2. SubSeq(s, 1, Len(s)) = s
  BY <1>1, SubSeqFull
<1>3. ASSUME Len(s) <= Len(t)
      PROVE  s = SubSeq(t, 1, Len(s)) <=> \A j \in 1..Len(s) : s[j] = t[j]
  <2>1. PICK k \in Nat : k = Len(s)
    BY <1>1
  <2>2. \A j \in 1..k : t[j] \in Name
    BY <1>1, <1>3, <2>1, ElementOfSeq
  <2>3. /\ SubSeq(t, 1, k) \in Seq(Name) /\ Len(SubSeq(t, 1, k)) = k
        /\ \A j \in 1..k : SubSeq(t, 1, k)[j] = t[j]
    BY <2>1, <2>2, SubSeqProperties
  <2> DEFINE u == SubSeq(t, 1, k)
  <2>4. u \in Seq(Name) /\ Len(u) = k /\ \A j \in 1..k : u[j] = t[j]
    BY <2>3
  <2> HIDE DEF u
  <2>5. (\A j \in 1..k : s[j] = u[j]) => s = u
    BY <1>1, <2>1, <2>4, SeqEqual
  <2>6. s = u <=> \A j \in 1..k : s[j] = t[j]
    BY <2>4, <2>5
  <2> QED
    BY <2>1, <2>6 DEF u
<1> QED
  BY <1>1, <1>2, <1>3 DEF IsPrefix, Along

LEMMA AlongSteps ==
  ASSUME NEW s \in Paths, NEW t \in Paths
  PROVE  /\ Along(t, t)
         /\ Along(s, t) /\ Len(s) = Len(t) => s = t
         /\ Along(s, t) /\ Len(s) < Len(t) =>
              t[Len(s) + 1] \in Name /\ Along(Append(s, t[Len(s) + 1]), t)
         /\ \A n \in Name : Along(Append(s, n), t) =>
              Along(s, t) /\ Len(s) < Len(t) /\ t[Len(s) + 1] = n
         /\ \A n \in Name : Len(Append(s, n)) = Len(s) + 1 /\ Along(s, Append(s, n))
<1>1. s \in Seq(Name) /\ t \in Seq(Name) /\ Len(s) \in Nat /\ Len(t) \in Nat
  BY PathLength
<1>2. Along(t, t)
  BY <1>1 DEF Along
<1>3. Along(s, t) /\ Len(s) = Len(t) => s = t
  BY <1>1, SeqEqual DEF Along
<1>4. ASSUME NEW n \in Name
      PROVE  /\ Len(Append(s, n)) = Len(s) + 1
             /\ \A j \in 1..Len(s) : Append(s, n)[j] = s[j]
             /\ Append(s, n)[Len(s) + 1] = n
  BY <1>1, AppendProperties
<1>5. ASSUME Along(s, t), Len(s) < Len(t)
      PROVE  t[Len(s) + 1] \in Name /\ Along(Append(s, t[Len(s) + 1]), t)
  <2>1. Len(s) + 1 \in 1..Len(t)
    BY <1>1, <1>5
  <2>2. PICK n \in Name : n = t[Len(s) + 1]
    BY <1>1, <2>1, ElementOfSeq
  <2> DEFINE e == Append(s, n)
  <2>3. Len(e) = Len(s) + 1 /\ (\A j \in 1..Len(s) : e[j] = s[j]) /\ e[Len(s) + 1] = n
    BY <1>4
  <2> HIDE DEF e
  <2>4. ASSUME NEW j \in 1..(Len(s) + 1) PROVE e[j] = t[j]
    <3>1. CASE j = Len(s) + 1
      BY <2>2, <2>3, <3>1
    <3>2. CASE j # Len(s) + 1
      <4>1. j \in 1..Len(s)
        BY <1>1, <3>2
      <4> QED
        BY <1>5, <2>3, <4>1 DEF Along
    <3> QED
      BY <3>1, <3>2
  <2>5. Along(e, t)
    BY <1>1, <1>5, <2>3, <2>4 DEF Along
  <2> QED
    BY <2>2, <2>5 DEF e
<1>6. ASSUME NEW n \in Name, Along(Append(s, n), t)
      PROVE  Along(s, t) /\ Len(s) < Len(t) /\ t[Len(s) + 1] = n
  <2> DEFINE e == Append(s, n)
  <2>1. Len(e) = Len(s) + 1 /\ (\A j \in 1..Len(s) : e[j] = s[j]) /\ e[Len(s) + 1] = n
    BY <1>4
  <2>2. Len(e) <= Len(t) /\ \A j \in 1..Len(e) : e[j] = t[j]
    BY <1>6 DEF Along
  <2> HIDE DEF e
  <2>3. Len(s) < Len(t) /\ \A j \in 1..(Len(s) + 1) : e[j] = t[j]
    BY <1>1, <2>1, <2>2
  <2>4. \A j \in 1..Len(s) : s[j] = t[j]
    BY <1>1, <2>1, <2>3
  <2>5. t[Len(s) + 1] = n
    BY <1>1, <2>1, <2>3
  <2> QED
    BY <1>1, <2>3, <2>4, <2>5 DEF Along
<1>7. ASSUME NEW n \in Name PROVE Along(s, Append(s, n))
  BY <1>1, <1>4, <1>7 DEF Along
<1> QED
  BY <1>2, <1>3, <1>4, <1>5, <1>6, <1>7

(* On the way to what was there all the time, everything was. *)
LEMMA StableWay ==
  ASSUME TreeOK, ParentsStay, NEW s \in Seq(Name), NEW t \in stable, Along(s, t)
  PROVE  s \in stable
<1>1. /\ t \in Paths /\ s \in Seq(Name) /\ t \in Seq(Name) /\ Len(s) \in Nat /\ Len(t) \in Nat
      /\ Len(s) <= Len(t)
  BY PathsOfTree, PathLength, LenProperties DEF Along
<1> DEFINE part(k) == SubSeq(t, 1, k)
           K == {k \in Len(s)..Len(t) : part(k) \in stable}
<1>2. part(Len(t)) = t
  BY <1>1, SubSeqFull
<1>3. ASSUME NEW k \in Len(s)..Len(t)
      PROVE  /\ part(k) \in Seq(Name) /\ Len(part(k)) = k
             /\ \A j \in 1..k : part(k)[j] = t[j]
  <2>1. k \in Nat /\ k <= Len(t)
    BY <1>1
  <2>2. \A j \in 1..k : t[j] \in Name
    BY <1>1, <2>1, ElementOfSeq
  <2> QED
    BY <2>1, <2>2, SubSeqProperties
<1>4. K \subseteq Nat /\ Len(t) \in K
  <2>1. Len(t) \in Len(s)..Len(t)
    BY <1>1
  <2>2. part(Len(t)) \in stable
    BY <1>2
  <2> HIDE DEF part
  <2> QED
    BY <1>1, <2>1, <2>2
<1>5. PICK k \in K : \A m \in K : k <= m
  <2> HIDE DEF K
  <2> QED
    BY <1>4, LeastNatural
<1>6. k \in Len(s)..Len(t) /\ part(k) \in stable /\ k \in Nat
  BY <1>1, <1>5
<1>7. ASSUME NEW m \in (Len(s) + 1)..Len(t), part(m) \in stable
      PROVE  Front(part(m)) = part(m - 1) /\ part(m) # <<>>
  <2>1. m \in Len(s)..Len(t) /\ m - 1 \in Len(s)..Len(t) /\ m \in Nat /\ m # 0 /\ m - 1 \in Nat
    BY <1>1
  <2>2. /\ part(m) \in Seq(Name) /\ Len(part(m)) = m /\ \A j \in 1..m : part(m)[j] = t[j]
        /\ part(m - 1) \in Seq(Name) /\ Len(part(m - 1)) = m - 1
        /\ \A j \in 1..(m - 1) : part(m - 1)[j] = t[j]
    BY <1>3, <2>1
  <2> DEFINE a == part(m)
             b == part(m - 1)
             f == SubSeq(a, 1, m - 1)
  <2>3. /\ a \in Seq(Name) /\ Len(a) = m /\ \A j \in 1..m : a[j] = t[j]
        /\ b \in Seq(Name) /\ Len(b) = m - 1 /\ \A j \in 1..(m - 1) : b[j] = t[j]
    BY <2>2
  <2> HIDE DEF a, b
  <2>4. ASSUME NEW j \in 1..(m - 1) PROVE a[j] \in Name /\ a[j] = b[j]
    <3>1. j \in 1..m
      BY <2>1
    <3>2. a[j] \in Name
      BY <2>3, <3>1, ElementOfSeq
    <3> QED
      BY <2>3, <3>1, <3>2
  <2>5. /\ f \in Seq(Name) /\ Len(f) = m - 1 /\ \A j \in 1..(m - 1) : f[j] = a[j]
    <3>1. PICK q \in Nat : q = m - 1
      BY <2>1
    <3>2. \A j \in 1..q : a[j] \in Name
      BY <2>4, <3>1
    <3>3. /\ SubSeq(a, 1, q) \in Seq(Name) /\ Len(SubSeq(a, 1, q)) = q
          /\ \A j \in 1..q : SubSeq(a, 1, q)[j] = a[j]
      BY <3>2, SubSeqProperties
    <3> QED
      BY <3>1, <3>3
  <2> HIDE DEF f
  <2>6. f = b
    BY <2>1, <2>3, <2>4, <2>5, SeqEqual
  <2>7. Front(a) = f
    BY <2>3 DEF Front, f
  <2>8. a # <<>>
    BY <2>1, <2>3, EmptySeq
  <2> QED
    BY <2>6, <2>7, <2>8 DEF a, b
<1>8. k = Len(s)
  <2>1. SUFFICES ASSUME k # Len(s) PROVE FALSE
    OBVIOUS
  <2>2. k \in (Len(s) + 1)..Len(t) /\ k - 1 \in Len(s)..Len(t) /\ ~ (k <= k - 1)
    BY <1>1, <1>6, <2>1
  <2>3. part(k - 1) \in stable
    <3>1. Front(part(k)) = part(k - 1) /\ part(k) # <<>>
      BY <1>6, <1>7, <2>2
    <3> HIDE DEF part
    <3> QED
      BY <1>6, <3>1 DEF ParentsStay
  <2>4. k - 1 \in K
    <3> HIDE DEF part
    <3> QED
      BY <2>2, <2>3
  <2> HIDE DEF K
  <2> QED
    BY <1>5, <2>2, <2>4
<1>9. s = part(k)
  <2>1. /\ part(k) \in Seq(Name) /\ Len(part(k)) = k
        /\ \A j \in 1..k : part(k)[j] = t[j]
    BY <1>3, <1>6
  <2> HIDE DEF part
  <2>2. \A j \in 1..Len(s) : s[j] = part(k)[j]
    BY <1>8, <2>1 DEF Along
  <2> QED
    BY <1>1, <1>8, <2>1, <2>2, SeqEqual
<1> QED
  BY <1>6, <1>9

LEMMA StableDirs ==
  ASSUME TreeOK, ParentsStay, NEW s \in Paths, NEW t \in stable, Along(s, t),
         Len(s) < Len(t) \/ IsDir(t)
  PROVE  s \in stable /\ IsDir(s)
<1>1. /\ t \in Paths /\ s \in Seq(Name) /\ t \in Seq(Name) /\ Len(s) \in Nat /\ Len(t) \in Nat
      /\ Len(s) <= Len(t)
  BY PathsOfTree, PathLength DEF Along
<1>2. s \in stable
  BY <1>1, StableWay
<1>3. CASE Len(s) = Len(t)
  BY <1>1, <1>2, <1>3, AlongSteps
<1>4. CASE Len(s) < Len(t)
  <2>1. PICK n \in Name : n = t[Len(s) + 1] /\ Along(Append(s, n), t)
    BY <1>1, <1>4, AlongSteps
  <2> DEFINE e == Append(s, n)
  <2>2. e \in Seq(Name) /\ e # <<>> /\ Front(e) = s
    BY PathEnds
  <2>3. Along(e, t)
    BY <2>1
  <2> HIDE DEF e
  <2>4. e \in stable
    BY <2>2, <2>3, StableWay
  <2> QED
    BY <1>2, <2>2, <2>4 DEF TreeOK, WellFormed, IsDir
<1> QED
  BY <1>1, <1>3, <1>4

LEMMA ParentsStep ==
  ASSUME TreeOK, ParentsStay, [Next]_vars
  PROVE  ParentsStay'
<1>1. SUFFICES ASSUME NEW q \in stable', q # <<>>
               PROVE  Front(q) \in stable'
  BY DEF ParentsStay
<1>2. q \in stable /\ q \in DOMAIN tree /\ Front(q) \in stable /\ tree[Front(q)].kind = "dir"
  BY <1>1, StableKept DEF ParentsStay, TreeOK, WellFormed
<1>3. ASSUME NEW w \in Writer, Removed(Now(w)), IsFile(Now(w)) \/ Children(Now(w)) = {}
      PROVE  Front(q) \in stable'
  <2>1. Front(q) # Now(w)
    BY <1>1, <1>2, <1>3 DEF IsFile, Children
  <2> QED
    BY <1>2, <1>3, <2>1 DEF Removed
<1>4. ASSUME NEW w \in Writer, Write(w)
      PROVE  \/ UNCHANGED stable
             \/ Removed(Now(w)) /\ (IsFile(Now(w)) \/ Children(Now(w)) = {})
  BY <1>4 DEF Write, Option, TakeName, TakeLine, Finish, Answer, Delete, Stat, Make, Open, Create,
              files, Created
<1>5. UNCHANGED directoryVars => UNCHANGED stable
  BY DEF directoryVars, files
<1> QED
  BY <1>2, <1>3, <1>4, <1>5, WhoWrites

LEMMA ParentsAtStart == Init => ParentsStay
<1> SUFFICES ASSUME Init PROVE ParentsStay
  OBVIOUS
<1>1. stable = DOMAIN tree /\ TreeOK
  BY DirectoryAtStart DEF Init, DirectoryInit
<1> QED
  BY <1>1 DEF ParentsStay, TreeOK, WellFormed

LEMMA AlongChild ==
  ASSUME NEW s \in Paths, NEW t \in Paths, NEW n \in Name, Along(s, t)
  PROVE  /\ Along(s, Append(t, n))
         /\ Len(s) < Len(t) => Append(t, n)[Len(s) + 1] = t[Len(s) + 1]
<1>1. Len(s) \in Nat /\ Len(t) \in Nat /\ t \in Seq(Name)
  BY PathLength
<1>2. /\ Len(Append(t, n)) = Len(t) + 1
      /\ \A j \in 1..Len(t) : Append(t, n)[j] = t[j]
  BY <1>1, AppendProperties
<1> QED
  BY <1>1, <1>2 DEF Along

LEMMA AlongBoth ==
  ASSUME NEW s \in Paths, NEW t \in Paths, NEW u \in Paths, Along(t, u)
  PROVE  /\ Along(s, u) /\ Len(s) <= Len(t) => Along(s, t)
         /\ Along(s, t) => Along(s, u)
         /\ Along(s, t) /\ Len(s) < Len(t) => u[Len(s) + 1] = t[Len(s) + 1]
<1>1. Len(s) \in Nat /\ Len(t) \in Nat /\ Len(u) \in Nat
  BY PathLength
<1>2. Along(s, u) /\ Len(s) <= Len(t) => Along(s, t)
  BY <1>1 DEF Along
<1>3. Along(s, t) => Along(s, u)
  BY <1>1 DEF Along
<1>4. Along(s, t) /\ Len(s) < Len(t) => u[Len(s) + 1] = t[Len(s) + 1]
  BY <1>1 DEF Along
<1> QED
  BY <1>2, <1>3, <1>4

LEMMA InTail ==
  ASSUME NEW S, NEW list \in Seq(S), list # <<>>
  PROVE  /\ Head(list) \in Range(list) /\ Range(Tail(list)) \subseteq Range(list)
         /\ In(list, Head(list)) # {}
         /\ \A n : /\ In(list, n) = {} => In(Tail(list), n) = {}
                   /\ Head(list) # n /\ In(Tail(list), n) = {} => In(list, n) = {}
                   /\ One(In(list, n)) => IF Head(list) = n THEN In(Tail(list), n) = {}
                                          ELSE One(In(Tail(list), n))
<1> DEFINE rest == Tail(list)
<1>1. /\ Len(list) \in Nat \ {0} /\ rest \in Seq(S) /\ Len(rest) = Len(list) - 1
      /\ \A i \in 1..(Len(list) - 1) : rest[i] = list[i + 1]
      /\ list[1] = Head(list)
  BY TailSeq
<1>2. DOMAIN list = 1..Len(list) /\ DOMAIN rest = 1..(Len(list) - 1)
  BY <1>1, LenProperties
<1> HIDE DEF rest
<1>3. /\ 1 \in DOMAIN list
      /\ \A i \in DOMAIN rest : i + 1 \in DOMAIN list /\ rest[i] = list[i + 1] /\ i + 1 # 1
      /\ \A j \in DOMAIN list : j # 1 => j - 1 \in DOMAIN rest /\ j - 1 + 1 = j
  BY <1>1, <1>2
<1>4. ASSUME NEW n
      PROVE  /\ \A i \in In(rest, n) : i + 1 \in In(list, n) /\ i + 1 # 1
             /\ 1 \in In(list, n) <=> Head(list) = n
             /\ \A j \in In(list, n) : j # 1 => j - 1 \in In(rest, n) /\ j - 1 + 1 = j
  BY <1>1, <1>3 DEF In
<1>5. Head(list) \in Range(list) /\ Range(rest) \subseteq Range(list) /\ In(list, Head(list)) # {}
  <2>1. 1 \in In(list, Head(list)) /\ Head(list) \in Range(list)
    BY <1>1, <1>3 DEF Range, In
  <2>2. ASSUME NEW x \in Range(rest) PROVE x \in Range(list)
    BY <1>3, <2>2 DEF Range
  <2> QED
    BY <2>1, <2>2
<1>6. ASSUME NEW n
      PROVE  /\ In(list, n) = {} => In(rest, n) = {}
             /\ Head(list) # n /\ In(rest, n) = {} => In(list, n) = {}
  BY <1>4
<1>7. ASSUME NEW n, NEW k \in In(list, n), In(list, n) = {k}, Head(list) = n
      PROVE  In(rest, n) = {}
  BY <1>4, <1>7
<1>8. ASSUME NEW n, NEW k \in In(list, n), In(list, n) = {k}, Head(list) # n
      PROVE  In(rest, n) = {k - 1}
  <2>1. k # 1 /\ k - 1 \in In(rest, n)
    BY <1>4, <1>8
  <2>2. \A i \in In(rest, n) : i + 1 = k
    BY <1>4, <1>8
  <2>3. \A i \in In(rest, n) : i \in Nat
    BY <1>1, <1>2 DEF In
  <2>4. \A i \in In(rest, n) : i = k - 1
    BY <2>2, <2>3
  <2> QED
    BY <2>1, <2>4
<1> QED
  BY <1>5, <1>6, <1>7, <1>8 DEF One, rest

(* The operand dir is at. *)
LEMMA DirPlace ==
  ASSUME ReaderOK
  PROVE  /\ DOMAIN PlacesOf(read) \subseteq Nat /\ Turn \in Nat
         /\ IsFiniteSet(DOMAIN PlacesOf(read))
         /\ \A i \in DOMAIN PlacesOf(read) : PlacesOf(read)[i].dir \in Paths
         /\ at = "done" => \A i \in DOMAIN PlacesOf(read) : i < Turn
         /\ at # "done" => /\ Turn \in DOMAIN PlacesOf(read) /\ places # <<>>
                           /\ Head(places) = PlacesOf(read)[Turn]
<1> DEFINE a == PlacesOf(read)
           m == Len(a)
           k == Len(places)
<1>1. /\ a \in Seq(Place) /\ places \in Seq(Place) /\ Behind(places, a)
      /\ at = "done" <=> places = <<>>
  BY Places DEF ReaderOK, ReaderTyped, InPlace
<1>2. /\ m \in Nat /\ k \in Nat /\ DOMAIN a = 1..m /\ k <= m
      /\ \A j \in 1..k : places[j] = a[m - k + j]
      /\ \A i \in 1..m : a[i] \in Place
  BY <1>1, LenProperties, ElementOfSeq DEF Behind
<1>3. Turn = m - k + 1
  BY DEF Turn
<1>4. places = <<>> <=> k = 0
  BY <1>1, EmptySeq
<1>5. places # <<>> => Head(places) = places[1]
  BY <1>1, TailSeq
<1> HIDE DEF a, m, k
<1>6. Turn \in Nat /\ DOMAIN a \subseteq Nat /\ \A i \in DOMAIN a : a[i].dir \in Paths
  BY <1>2, <1>3 DEF Place
<1>7. IsFiniteSet(DOMAIN a)
  <2>1. 1 \in Int /\ m \in Int /\ DOMAIN a = 1..m
    BY <1>2
  <2>2. IsFiniteSet(1..m)
    BY <2>1, FS_Interval
  <2> QED
    BY <2>1, <2>2
<1>8. CASE at = "done"
  <2>1. \A i \in DOMAIN a : i < Turn
    BY <1>1, <1>2, <1>3, <1>4, <1>8
  <2> QED
    BY <1>6, <1>7, <1>8, <2>1 DEF a
<1>9. CASE at # "done"
  <2>1. k \in 1..m /\ Turn \in 1..m /\ m - k + 1 = Turn /\ 1 \in 1..k
    BY <1>1, <1>2, <1>3, <1>4, <1>9
  <2>2. Head(places) = a[Turn] /\ Turn \in DOMAIN a
    BY <1>1, <1>2, <1>4, <1>5, <1>9, <2>1
  <2> QED
    BY <1>1, <1>6, <1>7, <1>9, <2>2 DEF a
<1> QED
  BY <1>8, <1>9

LEMMA DirNext ==
  ASSUME ReaderOK, ~ Qids, at # "done", NextPlace, read' = read
  PROVE  /\ Turn' = Turn + 1
         /\ Turn + 1 \in DOMAIN PlacesOf(read) =>
              at' = "open" /\ dir' = PlacesOf(read)[Turn + 1].dir
<1> DEFINE a == PlacesOf(read)
           m == Len(a)
           k == Len(places')
<1>1. /\ Len(places') = Len(places) - 1 /\ Len(places) \in Nat
      /\ m \in Nat /\ DOMAIN a = 1..m
      /\ places' \in Seq(Place) /\ Behind(places', a)
      /\ at' \in {"open", "done"} /\ dir' = DirAt(places') /\ (at' = "done" <=> places' = <<>>)
  BY GoesToNext, Places, LenProperties DEF ReaderOK, ReaderTyped
<1>2. PlacesOf(read') = PlacesOf(read)
  OBVIOUS
<1>3. Turn' = Turn + 1 /\ Turn + 1 = m - k + 1
  BY <1>1, <1>2 DEF Turn
<1>4. ASSUME Turn + 1 \in DOMAIN a
      PROVE  at' = "open" /\ dir' = a[Turn + 1].dir
  <2>1. k \in Nat /\ k <= m /\ \A j \in 1..k : places'[j] = a[m - k + j]
    BY <1>1, LenProperties DEF Behind
  <2> HIDE DEF a, m, k
  <2>2. k # 0 /\ 1 \in 1..k
    BY <1>1, <1>3, <1>4, <2>1
  <2>3. places' # <<>> /\ Head(places') = places'[1]
    <3>1. places' # <<>>
      BY <2>2, EmptySeq DEF k
    <3> QED
      BY <1>1, <3>1, TailSeq
  <2>4. Head(places') = a[Turn + 1]
    BY <1>3, <2>1, <2>2, <2>3
  <2> QED
    BY <1>1, <2>3, <2>4 DEF DirAt
<1> QED
  BY <1>3, <1>4

-----------------------------------------------------------------------------
(* The steps of dir, as far as its way through the tree goes. *)
Listing == {"open", "read", "entry", "print"}

LEMMA StackShrinks ==
  ASSUME stack \in Seq(Frame), stack # <<>>, NEW f \in Frame, NEW s, s = <<f>> \o Tail(stack)
  PROVE  /\ s \in Seq(Frame) /\ Len(s) = Len(stack) /\ DOMAIN s = DOMAIN stack
         /\ 1 \in DOMAIN stack /\ s[1] = f /\ stack[1] = Head(stack)
         /\ \A k \in DOMAIN stack : k # 1 => s[k] = stack[k]
<1> DEFINE t == Tail(stack)
<1>1. /\ t \in Seq(Frame) /\ Len(t) = Len(stack) - 1 /\ Len(stack) \in Nat \ {0}
      /\ \A i \in 1..(Len(stack) - 1) : t[i] = stack[i + 1]
      /\ stack[1] = Head(stack)
  BY TailSeq
<1> HIDE DEF t
<1>2. /\ s \in Seq(Frame) /\ Len(s) = Len(t) + 1 /\ s[1] = f
      /\ \A j \in 1..Len(t) : s[j + 1] = t[j]
  <2>1. s = <<f>> \o t
    BY DEF t
  <2> QED
    BY <1>1, <2>1, Pushed
<1>3. DOMAIN s = 1..Len(stack) /\ DOMAIN stack = 1..Len(stack) /\ Len(s) = Len(stack)
  BY <1>1, <1>2, LenProperties
<1>4. ASSUME NEW k \in DOMAIN stack, k # 1 PROVE s[k] = stack[k]
  <2>1. k - 1 \in 1..Len(t) /\ k - 1 + 1 = k /\ k - 1 \in 1..(Len(stack) - 1)
    BY <1>1, <1>3, <1>4
  <2>2. s[k - 1 + 1] = t[k - 1] /\ t[k - 1] = stack[k - 1 + 1]
    BY <1>1, <1>2, <2>1
  <2> QED
    BY <2>1, <2>2
<1> QED
  BY <1>1, <1>2, <1>3, <1>4

LEMMA StackPushed ==
  ASSUME stack \in Seq(Frame), NEW f \in Frame, NEW s, s = <<f>> \o stack
  PROVE  /\ s \in Seq(Frame) /\ Len(s) = Len(stack) + 1 /\ Len(stack) \in Nat
         /\ 1 \in DOMAIN s /\ s[1] = f /\ DOMAIN stack = 1..Len(stack)
         /\ DOMAIN s = 1..(Len(stack) + 1)
         /\ \A k \in DOMAIN s : k # 1 => k - 1 \in DOMAIN stack /\ s[k] = stack[k - 1]
         /\ \A k \in DOMAIN stack : k + 1 \in DOMAIN s /\ s[k + 1] = stack[k]
<1>1. /\ s \in Seq(Frame) /\ Len(s) = Len(stack) + 1 /\ s[1] = f /\ Len(stack) \in Nat
      /\ \A j \in 1..Len(stack) : s[j + 1] = stack[j]
  BY Pushed, LenProperties
<1>2. DOMAIN s = 1..(Len(stack) + 1) /\ DOMAIN stack = 1..Len(stack)
  BY <1>1, LenProperties
<1>3. ASSUME NEW k \in DOMAIN s, k # 1 PROVE k - 1 \in DOMAIN stack /\ s[k] = stack[k - 1]
  <2>1. k - 1 \in 1..Len(stack) /\ k - 1 + 1 = k
    BY <1>1, <1>2, <1>3
  <2>2. s[k - 1 + 1] = stack[k - 1]
    BY <1>1, <2>1
  <2> QED
    BY <1>2, <2>1, <2>2
<1>4. 1 \in DOMAIN s /\ \A k \in DOMAIN stack : k + 1 \in DOMAIN s
  BY <1>1, <1>2
<1> QED
  BY <1>1, <1>2, <1>3, <1>4

LEMMA StackPopped ==
  ASSUME stack \in Seq(Frame), stack # <<>>, NEW s, s = Tail(stack)
  PROVE  /\ s \in Seq(Frame) /\ Len(s) = Len(stack) - 1 /\ Len(stack) \in Nat \ {0}
         /\ 1 \in DOMAIN stack /\ stack[1] = Head(stack) /\ DOMAIN stack = 1..Len(stack)
         /\ DOMAIN s = 1..(Len(stack) - 1)
         /\ \A k \in DOMAIN s : k + 1 \in DOMAIN stack /\ k + 1 # 1 /\ s[k] = stack[k + 1]
         /\ \A k \in DOMAIN stack : k # 1 => k - 1 \in DOMAIN s /\ s[k - 1] = stack[k]
<1>1. /\ s \in Seq(Frame) /\ Len(s) = Len(stack) - 1 /\ Len(stack) \in Nat \ {0}
      /\ \A i \in 1..(Len(stack) - 1) : s[i] = stack[i + 1]
      /\ stack[1] = Head(stack)
  BY TailSeq
<1>2. DOMAIN s = 1..(Len(stack) - 1) /\ DOMAIN stack = 1..Len(stack)
  BY <1>1, LenProperties
<1>3. \A k \in DOMAIN s : k + 1 \in DOMAIN stack /\ k + 1 # 1 /\ s[k] = stack[k + 1]
  BY <1>1, <1>2
<1>4. ASSUME NEW k \in DOMAIN stack, k # 1 PROVE k - 1 \in DOMAIN s /\ s[k - 1] = stack[k]
  <2>1. k - 1 \in 1..(Len(stack) - 1) /\ k - 1 + 1 = k
    BY <1>1, <1>2, <1>4
  <2>2. s[k - 1] = stack[k - 1 + 1]
    BY <1>1, <2>1
  <2> QED
    BY <1>2, <2>1, <2>2
<1>5. 1 \in DOMAIN stack
  BY <1>1, <1>2
<1> QED
  BY <1>1, <1>2, <1>3, <1>4, <1>5

StaysThere ==
  /\ UNCHANGED <<places, dir, stack>> /\ listings' = listings
  /\ at \in Listing <=> at' \in Listing
  /\ at = "done" <=> at' = "done"
NotThere ==
  /\ at = "open" /\ at' = "descend" /\ UNCHANGED <<places, dir, stack, listings>> /\ ~ IsDir(dir)
PopsFrame ==
  /\ at = "descend" /\ stack # <<>> /\ Head(stack).names = <<>> /\ stack' = Tail(stack)
  /\ UNCHANGED <<at, places, dir, listings>>
NextOperand == /\ at = "descend" /\ stack = <<>> /\ NextPlace /\ UNCHANGED <<stack, listings>>

LEMMA DirMoves ==
  ASSUME ReaderOK, TreeOK, ~ Qids, [Next]_vars
  PROVE  StaysThere \/ NotThere \/ PrintNames \/ (Descend /\ listings' = listings) \/ PopsFrame \/ NextOperand
<1>1. CASE OpenDir
  BY <1>1 DEF OpenDir, StaysThere, NotThere, Listing
<1>2. CASE ReadBlock \/ NextBlock \/ EndOfDirectory \/ DirEntry
  BY <1>2 DEF ReadBlock, NextBlock, EndOfDirectory, DirEntry, StaysThere, Listing, output
<1>3. CASE Descend
  BY <1>3 DEF Descend, output
<1>4. CASE Ascend
  BY <1>4 DEF Ascend, PopsFrame, NextOperand, output
<1>5. CASE ReadFails \/ NoMemory
  BY <1>5 DEF ReadFails, NoMemory, StaysThere, Listing, output
<1>6. ~ (QidEntry \/ MemoryRead \/ Swap)
  BY MemoryFrame DEF QidEntry, Swap, ReaderOK, InPlace, InModules
<1>7. CASE UNCHANGED scanVars
  BY <1>7 DEF scanVars, output, StaysThere
<1> QED
  BY <1>1, <1>2, <1>3, <1>4, <1>5, <1>6, <1>7 DEF Next, Read, Fail, MemoryRead, WriteStep, vars

(* Where dir is on its way down: the directory it lists, or the deepest     *)
(* frame.  Every frame is of a directory on the way there.                  *)
Tip == IF at \in Listing THEN dir ELSE stack[1].dir

FrameOn(f, operand, length, tip) ==
  /\ Range(f.names) \subseteq Name
  /\ Along(operand, f.dir) /\ Len(f.dir) = length /\ Along(f.dir, tip)

OnItsWay ==
  ~ Qids =>
    /\ at = "done" => stack = <<>>
    /\ stack # <<>> => "r" \in read.opts
    /\ at \in Listing => /\ Along(Head(places).dir, dir)
                         /\ Len(dir) = Len(Head(places).dir) + Len(stack)
    /\ \A k \in DOMAIN stack :
         FrameOn(stack[k], Head(places).dir, Len(Head(places).dir) + Len(stack) - k, Tip)

LEMMA FramesTyped ==
  ASSUME ReaderOK
  PROVE  /\ stack \in Seq(Frame) /\ Len(stack) \in Nat /\ DOMAIN stack = 1..Len(stack)
         /\ \A k \in DOMAIN stack : stack[k].dir \in Paths /\ stack[k].names \in Seq(Name \cup {Dot})
         /\ dir \in Paths /\ Len(dir) \in Nat
         /\ at # "done" => Head(places).dir \in Paths /\ Len(Head(places).dir) \in Nat
<1>1. stack \in Seq(Frame) /\ dir \in Paths
  BY DEF ReaderOK, ReaderTyped
<1>2. Len(stack) \in Nat /\ DOMAIN stack = 1..Len(stack)
  BY <1>1, LenProperties
<1>3. \A k \in DOMAIN stack : stack[k] \in Frame
  BY <1>1, <1>2, ElementOfSeq
<1>4. at # "done" => Head(places).dir \in Paths
  BY DirPlace
<1> QED
  BY <1>1, <1>2, <1>3, <1>4, PathLength DEF Frame

LEMMA ToTheFirst ==
  ASSUME ReaderOK, OnItsWay, ~ Qids, at # "done", NEW k \in DOMAIN stack
  PROVE  /\ 1 \in DOMAIN stack /\ Along(stack[k].dir, stack[1].dir)
         /\ k # 1 => Len(stack[k].dir) < Len(stack[1].dir)
         /\ at \in Listing => Len(stack[k].dir) < Len(dir)
<1> DEFINE o == Head(places).dir
<1>1. 1 \in DOMAIN stack /\ k \in Nat /\ k >= 1 /\ Len(stack) \in Nat /\ k <= Len(stack)
  BY FramesTyped
<1>2. o \in Paths /\ Len(o) \in Nat /\ stack[1].dir \in Paths /\ stack[k].dir \in Paths
  BY <1>1, FramesTyped
<1>3. Tip \in Paths
  BY <1>2, FramesTyped DEF Tip
<1>4. /\ Along(stack[k].dir, Tip) /\ Along(stack[1].dir, Tip)
      /\ Len(stack[k].dir) = Len(o) + Len(stack) - k
      /\ Len(stack[1].dir) = Len(o) + Len(stack) - 1
      /\ at \in Listing => Len(dir) = Len(o) + Len(stack)
  BY <1>1 DEF OnItsWay, FrameOn
<1> HIDE DEF o
<1>5. /\ Len(stack[k].dir) <= Len(stack[1].dir)
      /\ k # 1 => Len(stack[k].dir) < Len(stack[1].dir)
      /\ at \in Listing => Len(stack[k].dir) < Len(dir)
  BY <1>1, <1>2, <1>4
<1>6. Along(stack[k].dir, stack[1].dir)
  BY <1>2, <1>3, <1>4, <1>5, AlongBoth
<1> QED
  BY <1>1, <1>5, <1>6

(* A step down or past a name, and a directory that is put on the stack. *)
LEMMA DescendFrames ==
  ASSUME ReaderOK, Descend
  PROVE  /\ stack # <<>> /\ 1 \in DOMAIN stack /\ at = "descend"
         /\ stack[1].names # <<>> /\ Head(stack[1].names) \in Name \cup {Dot}
         /\ Len(stack') = Len(stack) /\ DOMAIN stack' = DOMAIN stack
         /\ stack'[1].dir = stack[1].dir /\ stack'[1].names = Tail(stack[1].names)
         /\ \A k \in DOMAIN stack : k # 1 => stack'[k] = stack[k]
         /\ \A k \in DOMAIN stack : stack'[k].dir = stack[k].dir
         /\ LET child == Sub(stack[1].dir, Head(stack[1].names))
            IN \/ IsDir(child) /\ at' = "open" /\ dir' = child
               \/ ~ IsDir(child) /\ UNCHANGED <<at, dir>>
         /\ UNCHANGED places
<1> DEFINE top == Head(stack)
           f == [top EXCEPT !.names = Tail(@)]
<1>1. /\ stack \in Seq(Frame) /\ stack # <<>> /\ top.names # <<>> /\ stack' = <<f>> \o Tail(stack)
      /\ at = "descend" /\ UNCHANGED places
  BY DEF Descend, ReaderOK, ReaderTyped
<1>2. top \in Frame
  BY <1>1, TailSeq
<1>3. f \in Frame /\ f.dir = top.dir /\ f.names = Tail(top.names)
  <2>1. Tail(top.names) \in Seq(Name \cup {Dot})
    BY <1>1, <1>2, TailSeq DEF Frame
  <2> HIDE DEF top
  <2> QED
    BY <1>2, <2>1 DEF Frame
<1>4. Head(top.names) \in Name \cup {Dot}
  BY <1>1, <1>2, TailSeq DEF Frame
<1> HIDE DEF f
<1>5. /\ Len(stack') = Len(stack) /\ DOMAIN stack' = DOMAIN stack
      /\ 1 \in DOMAIN stack /\ stack'[1] = f /\ stack[1] = Head(stack)
      /\ \A k \in DOMAIN stack : k # 1 => stack'[k] = stack[k]
  BY <1>1, <1>3, StackShrinks
<1>6. LET child == Sub(stack[1].dir, Head(stack[1].names))
      IN \/ IsDir(child) /\ at' = "open" /\ dir' = child
         \/ ~ IsDir(child) /\ UNCHANGED <<at, dir>>
  BY <1>5 DEF Descend
<1>7. \A k \in DOMAIN stack : stack'[k].dir = stack[k].dir
  BY <1>3, <1>5
<1> QED
  BY <1>1, <1>3, <1>4, <1>5, <1>6, <1>7

LEMMA PrintFrames ==
  ASSUME ReaderOK, PrintNames
  PROVE  /\ at = "print" /\ at' = "descend" /\ UNCHANGED <<places, dir>>
         /\ \/ stack' = stack /\ ({"r", "n"} \subseteq read.opts \/ "r" \notin read.opts
                                    \/ ~ (Len(stack) < read.depth))
            \/ /\ "r" \in read.opts /\ Len(stack') = Len(stack) + 1 /\ Len(stack) < read.depth
               /\ 1 \in DOMAIN stack' /\ stack'[1].dir = dir /\ stack'[1].names = names
               /\ \A k \in DOMAIN stack' : k # 1 => k - 1 \in DOMAIN stack /\ stack'[k] = stack[k - 1]
               /\ \A k \in DOMAIN stack : k + 1 \in DOMAIN stack' /\ stack'[k + 1] = stack[k]
<1> DEFINE f == [dir |-> dir, names |-> names]
<1>1. f \in Frame /\ stack \in Seq(Frame) /\ f.dir = dir /\ f.names = names
  BY DEF ReaderOK, ReaderTyped, Frame
<1>2. /\ at = "print" /\ at' = "descend" /\ UNCHANGED <<places, dir>>
      /\ \/ stack' = stack /\ ({"r", "n"} \subseteq read.opts \/ "r" \notin read.opts
                                 \/ ~ (Len(stack) < read.depth))
         \/ "r" \in read.opts /\ Len(stack) < read.depth /\ stack' = <<f>> \o stack
  BY DEF PrintNames
<1> HIDE DEF f
<1>3. CASE "r" \in read.opts /\ Len(stack) < read.depth /\ stack' = <<f>> \o stack
  BY <1>1, <1>2, <1>3, StackPushed
<1> QED
  BY <1>2, <1>3

LEMMA OnItsWayStep ==
  ASSUME ReaderOK, ReaderOK', TreeOK, NamesOK, OnItsWay, [Next]_vars
  PROVE  OnItsWay'
<1>1. read' = read /\ (Qids' <=> Qids)
  BY KeepsRead DEF Qids
<1>2. SUFFICES ASSUME ~ Qids
               PROVE  /\ at' = "done" => stack' = <<>>
                      /\ stack' # <<>> => "r" \in read.opts
                      /\ at' \in Listing => /\ Along(Head(places').dir, dir')
                                            /\ Len(dir') = Len(Head(places').dir) + Len(stack')
                      /\ \A k \in DOMAIN stack' :
                           FrameOn(stack'[k], Head(places').dir,
                                   Len(Head(places').dir) + Len(stack') - k, Tip')
  BY <1>1 DEF OnItsWay, Listing, FrameOn, Along, Range
<1>3. CASE StaysThere
  <2>1. stack # <<>> \/ at \in Listing => Tip' = Tip
    BY <1>3 DEF StaysThere, Tip
  <2>2. \A k \in DOMAIN stack : stack # <<>>
    BY EmptySeq
  <2> QED
    BY <1>2, <1>3, <2>1, <2>2 DEF StaysThere, OnItsWay
<1>4. CASE \/ NotThere
           \/ PrintNames /\ stack' = stack
  <2>1. at \in Listing /\ at # "done" /\ at' = "descend" /\ UNCHANGED <<places, dir, stack>>
    BY <1>4, PrintFrames DEF NotThere, Listing
  <2>2. \A k \in DOMAIN stack : Along(stack[k].dir, stack[1].dir)
    BY <1>2, <2>1, ToTheFirst
  <2>3. Tip' = stack[1].dir
    BY <2>1 DEF Tip, Listing
  <2> QED
    BY <1>2, <2>1, <2>2, <2>3 DEF OnItsWay, FrameOn, Listing
<1>5. CASE PrintNames /\ stack' # stack
  <2>1. /\ at \in Listing /\ at # "done" /\ at' = "descend" /\ UNCHANGED <<places, dir>>
        /\ "r" \in read.opts /\ Len(stack') = Len(stack) + 1
        /\ 1 \in DOMAIN stack' /\ stack'[1].dir = dir /\ stack'[1].names = names
        /\ \A k \in DOMAIN stack' : k # 1 => k - 1 \in DOMAIN stack /\ stack'[k] = stack[k - 1]
    BY <1>5, PrintFrames DEF Listing
  <2>2. Tip' = dir /\ Tip = dir
    BY <2>1 DEF Tip, Listing
  <2>3. PICK o \in Paths : o = Head(places).dir
    BY <2>1, FramesTyped
  <2>4. /\ Len(stack) \in Nat /\ Len(o) \in Nat /\ dir \in Paths
        /\ Along(o, dir) /\ Len(dir) = Len(o) + Len(stack)
        /\ Range(names) \subseteq Name
        /\ DOMAIN stack' \subseteq Nat
        /\ \A k \in DOMAIN stack : FrameOn(stack[k], o, Len(o) + Len(stack) - k, dir)
    <3>1. DOMAIN stack' \subseteq Nat
      BY LenProperties DEF ReaderOK, ReaderTyped
    <3> QED
      BY <1>2, <2>1, <2>2, <2>3, <3>1, FramesTyped DEF OnItsWay, NamesOK
  <2>5. ASSUME NEW k \in DOMAIN stack'
        PROVE  FrameOn(stack'[k], o, Len(o) + Len(stack') - k, dir)
    <3>1. CASE k = 1
      <4>1. Len(dir) = Len(o) + Len(stack') - k
        BY <2>1, <2>4, <3>1
      <4>2. Along(dir, dir)
        BY <2>4, AlongSteps
      <4> QED
        BY <2>1, <2>4, <3>1, <4>1, <4>2 DEF FrameOn
    <3>2. CASE k # 1
      <4>1. k - 1 \in DOMAIN stack /\ stack'[k] = stack[k - 1]
        BY <2>1, <3>2
      <4>2. Len(o) + Len(stack') - k = Len(o) + Len(stack) - (k - 1)
        BY <2>1, <2>4, <4>1
      <4> QED
        BY <2>4, <4>1, <4>2
    <3> QED
      BY <3>1, <3>2
  <2>6. at' \notin Listing /\ at' # "done"
    BY <2>1 DEF Listing
  <2> QED
    BY <2>1, <2>2, <2>3, <2>5, <2>6
<1>6. CASE Descend
  <2>1. /\ stack # <<>> /\ 1 \in DOMAIN stack /\ at = "descend"
        /\ stack[1].names # <<>> /\ Head(stack[1].names) \in Name \cup {Dot}
        /\ Len(stack') = Len(stack) /\ DOMAIN stack' = DOMAIN stack
        /\ stack'[1].dir = stack[1].dir /\ stack'[1].names = Tail(stack[1].names)
        /\ \A k \in DOMAIN stack : k # 1 => stack'[k] = stack[k]
        /\ \A k \in DOMAIN stack : stack'[k].dir = stack[k].dir
        /\ LET child == Sub(stack[1].dir, Head(stack[1].names))
           IN \/ IsDir(child) /\ at' = "open" /\ dir' = child
              \/ ~ IsDir(child) /\ UNCHANGED <<at, dir>>
        /\ UNCHANGED places
    BY <1>6, DescendFrames
  <2>2. PICK o \in Paths : o = Head(places).dir
    BY <2>1, FramesTyped
  <2>3. /\ Len(stack) \in Nat /\ Len(o) \in Nat /\ "r" \in read.opts
        /\ Tip = stack[1].dir /\ stack[1].dir \in Paths
        /\ stack[1].names \in Seq(Name \cup {Dot})
        /\ \A k \in DOMAIN stack : FrameOn(stack[k], o, Len(o) + Len(stack) - k, Tip)
    BY <1>2, <2>1, <2>2, FramesTyped DEF OnItsWay, Tip, Listing
  <2>4. /\ Range(Tail(stack[1].names)) \subseteq Name
        /\ Head(stack[1].names) \in Name
    BY <2>1, <2>3, InTail DEF FrameOn
  <2>5. PICK n \in Name : n = Head(stack[1].names)
    BY <2>4
  <2>6. Sub(stack[1].dir, n) = Append(stack[1].dir, n)
    BY DirectoryAssumption DEF Sub
  <2>7. \/ at' = "open" /\ dir' = Append(stack[1].dir, n) /\ Tip' = Append(stack[1].dir, n)
        \/ at' = "descend" /\ Tip' = stack[1].dir
    BY <2>1, <2>5, <2>6 DEF Tip, Listing
  <2>8. ASSUME NEW k \in DOMAIN stack
        PROVE  FrameOn(stack'[k], o, Len(o) + Len(stack') - k, Tip')
    <3>1. stack[k].dir \in Paths /\ Along(stack[k].dir, stack[1].dir)
      BY <2>3, FramesTyped DEF FrameOn
    <3>2. Along(stack[k].dir, Tip')
      <4>1. Along(stack[k].dir, Append(stack[1].dir, n))
        BY <2>3, <3>1, AlongChild
      <4> QED
        BY <2>7, <3>1, <4>1
    <3>3. Range(stack'[k].names) \subseteq Name
      BY <2>1, <2>3, <2>4 DEF FrameOn
    <3>4. stack'[k].dir = stack[k].dir /\ Len(stack') = Len(stack)
      BY <2>1
    <3> QED
      BY <2>3, <3>2, <3>3, <3>4 DEF FrameOn
  <2>9. at' \in Listing => Along(o, dir') /\ Len(dir') = Len(o) + Len(stack')
    <3>1. SUFFICES ASSUME dir' = Append(stack[1].dir, n)
                   PROVE  Along(o, dir') /\ Len(dir') = Len(o) + Len(stack')
      BY <2>7 DEF Listing
    <3>2. Along(o, stack[1].dir) /\ Len(stack[1].dir) = Len(o) + Len(stack) - 1
      BY <2>1, <2>3 DEF FrameOn
    <3>3. /\ Along(o, Append(stack[1].dir, n))
          /\ Len(Append(stack[1].dir, n)) = Len(stack[1].dir) + 1
      BY <2>3, <3>2, AlongChild, AlongSteps
    <3> QED
      BY <2>1, <2>3, <3>1, <3>2, <3>3
  <2>10. at' # "done"
    BY <2>7
  <2> QED
    BY <2>1, <2>2, <2>3, <2>8, <2>9, <2>10
<1>7. CASE PopsFrame
  <2>1. /\ at = "descend" /\ at' = "descend" /\ stack # <<>> /\ UNCHANGED places
        /\ Len(stack') = Len(stack) - 1 /\ Len(stack) \in Nat \ {0}
        /\ DOMAIN stack' = 1..(Len(stack) - 1) /\ 1 \in DOMAIN stack
        /\ \A k \in DOMAIN stack' : k + 1 \in DOMAIN stack /\ k + 1 # 1 /\ stack'[k] = stack[k + 1]
    BY <1>7, StackPopped DEF PopsFrame, ReaderOK, ReaderTyped
  <2>2. PICK o \in Paths : o = Head(places).dir
    BY <2>1, FramesTyped
  <2>3. /\ Len(o) \in Nat /\ "r" \in read.opts /\ Tip = stack[1].dir /\ stack[1].dir \in Paths
        /\ \A k \in DOMAIN stack : /\ stack[k].dir \in Paths
                                   /\ FrameOn(stack[k], o, Len(o) + Len(stack) - k, Tip)
    BY <1>2, <2>1, <2>2, FramesTyped DEF OnItsWay, Tip, Listing
  <2>4. ASSUME NEW k \in DOMAIN stack'
        PROVE  FrameOn(stack'[k], o, Len(o) + Len(stack') - k, Tip')
    <3>1. 1 \in DOMAIN stack' /\ k \in Nat /\ k >= 1
      BY <2>1
    <3>2. /\ k + 1 \in DOMAIN stack /\ stack'[k] = stack[k + 1]
          /\ 1 + 1 \in DOMAIN stack /\ stack'[1] = stack[1 + 1] /\ Tip' = stack[1 + 1].dir
      BY <2>1, <3>1 DEF Tip, Listing
    <3>3. /\ FrameOn(stack[k + 1], o, Len(o) + Len(stack) - (k + 1), Tip)
          /\ FrameOn(stack[1 + 1], o, Len(o) + Len(stack) - (1 + 1), Tip)
          /\ stack[k + 1].dir \in Paths /\ stack[1 + 1].dir \in Paths
      BY <2>3, <3>2
    <3>4. Len(stack[k + 1].dir) <= Len(stack[1 + 1].dir)
      BY <2>1, <2>3, <3>1, <3>3 DEF FrameOn
    <3>5. Along(stack[k + 1].dir, stack[1 + 1].dir)
      <4>1. Along(stack[k + 1].dir, Tip) /\ Along(stack[1 + 1].dir, Tip) /\ Tip \in Paths
        BY <2>3, <3>3 DEF FrameOn
      <4> QED
        BY <3>3, <3>4, <4>1, AlongBoth
    <3>6. Len(o) + Len(stack) - (k + 1) = Len(o) + Len(stack') - k
      BY <2>1, <2>3, <3>1
    <3> QED
      BY <3>2, <3>3, <3>5, <3>6 DEF FrameOn
  <2>5. at' \notin Listing /\ at' # "done"
    BY <2>1 DEF Listing
  <2> QED
    BY <2>1, <2>2, <2>3, <2>4, <2>5
<1>8. CASE NextOperand
  <2>1. /\ at = "descend" /\ stack = <<>> /\ stack' = <<>> /\ NextPlace
    BY <1>8 DEF NextOperand
  <2>2. DOMAIN stack' = {} /\ Len(stack') = 0
    BY <2>1, EmptySeq
  <2>3. /\ at' \in {"open", "done"} /\ dir' = DirAt(places')
        /\ at' = "done" <=> places' = <<>>
    BY <1>1, <1>2, <2>1, GoesToNext
  <2>4. ASSUME at' \in Listing
        PROVE  Along(Head(places').dir, dir') /\ Len(dir') = Len(Head(places').dir) + Len(stack')
    <3>1. dir' = Head(places').dir
      BY <2>3, <2>4 DEF DirAt, Listing
    <3>2. dir' \in Paths /\ Len(dir') \in Nat
      BY PathLength DEF ReaderOK, ReaderTyped
    <3> QED
      BY <2>2, <3>1, <3>2, AlongSteps
  <2> QED
    BY <2>1, <2>2, <2>4
<1> QED
  BY <1>2, <1>3, <1>4, <1>5, <1>6, <1>7, <1>8, DirMoves

(* What is left of a frame: each stable name at most once, and never the    *)
(* one below which dir is.                                                  *)
FrameOnce(f, n, below, tip) ==
  /\ In(f.names, n) = {} \/ One(In(f.names, n))
  /\ below /\ tip[Len(f.dir) + 1] = n => In(f.names, n) = {}

AtMostOnce ==
  ~ Qids /\ ~ broken =>
    \A k \in DOMAIN stack, n \in Name :
      Append(stack[k].dir, n) \in stable =>
        FrameOnce(stack[k], n, k # 1 \/ at \in Listing, Tip)

LEMMA AtMostOnceStep ==
  ASSUME ReaderOK, TreeOK, Collected, OnItsWay, AtMostOnce, [Next]_vars
  PROVE  AtMostOnce'
<1>1. read' = read /\ (Qids' <=> Qids)
  BY KeepsRead DEF Qids
<1>2. SUFFICES ASSUME ~ Qids, ~ broken', NEW k \in DOMAIN stack', NEW n \in Name,
                      Append(stack'[k].dir, n) \in stable'
               PROVE  FrameOnce(stack'[k], n, k # 1 \/ at' \in Listing, Tip')
  BY <1>1 DEF AtMostOnce, FrameOnce, In, One, Listing
<1>3. ~ broken /\ Append(stack'[k].dir, n) \in stable
  BY <1>2, KeepsRead, StableKept
<1>4. \A j \in DOMAIN stack : Append(stack[j].dir, n) \in stable =>
        FrameOnce(stack[j], n, j # 1 \/ at \in Listing, Tip)
  BY <1>2, <1>3 DEF AtMostOnce
<1>5. CASE StaysThere
  <2>1. stack # <<>> \/ at \in Listing => Tip' = Tip
    BY <1>5 DEF StaysThere, Tip
  <2>2. stack' # <<>>
    BY EmptySeq
  <2> QED
    BY <1>3, <1>4, <1>5, <2>1, <2>2 DEF StaysThere
<1>6. CASE \/ NotThere
           \/ PrintNames /\ stack' = stack
  <2>1. at \in Listing /\ at # "done" /\ at' = "descend" /\ UNCHANGED <<places, dir, stack>>
    BY <1>6, PrintFrames DEF NotThere, Listing
  <2>2. /\ 1 \in DOMAIN stack /\ Along(stack[k].dir, stack[1].dir)
        /\ k # 1 => Len(stack[k].dir) < Len(stack[1].dir)
    BY <1>2, <2>1, ToTheFirst
  <2>3. Tip' = stack[1].dir /\ Tip = dir /\ at' \notin Listing
    BY <2>1 DEF Tip, Listing
  <2>4. /\ stack[1].dir \in Paths /\ stack[k].dir \in Paths /\ dir \in Paths
        /\ Along(stack[1].dir, dir)
    BY <1>2, <2>1, <2>2, <2>3, FramesTyped DEF OnItsWay, FrameOn
  <2>5. k # 1 => dir[Len(stack[k].dir) + 1] = stack[1].dir[Len(stack[k].dir) + 1]
    BY <2>2, <2>4, AlongBoth
  <2> QED
    BY <1>3, <1>4, <2>1, <2>3, <2>5 DEF FrameOnce
<1>7. CASE PrintNames /\ stack' # stack
  <2>1. /\ at = "print" /\ at' = "descend" /\ dir' = dir
        /\ 1 \in DOMAIN stack' /\ stack'[1].dir = dir /\ stack'[1].names = names
        /\ k # 1 => k - 1 \in DOMAIN stack /\ stack'[k] = stack[k - 1]
    BY <1>7, PrintFrames
  <2>2. Tip' = dir /\ Tip = dir /\ at \in Listing /\ at' \notin Listing
    BY <2>1 DEF Tip, Listing
  <2>3. CASE k = 1
    <3>1. One(In(names, n))
      BY <1>2, <1>3, <2>1, <2>3 DEF Collected
    <3> QED
      BY <2>1, <2>2, <2>3, <3>1 DEF FrameOnce
  <2>4. CASE k # 1
    <3>1. FrameOnce(stack[k - 1], n, k - 1 # 1 \/ at \in Listing, Tip)
      BY <1>3, <1>4, <2>1, <2>4
    <3> QED
      BY <2>1, <2>2, <2>4, <3>1 DEF FrameOnce
  <2> QED
    BY <2>3, <2>4
<1>8. CASE Descend
  <2>1. /\ stack # <<>> /\ 1 \in DOMAIN stack /\ at = "descend"
        /\ stack[1].names # <<>> /\ Head(stack[1].names) \in Name \cup {Dot}
        /\ DOMAIN stack' = DOMAIN stack
        /\ stack'[1].dir = stack[1].dir /\ stack'[1].names = Tail(stack[1].names)
        /\ k # 1 => stack'[k] = stack[k]
        /\ stack'[k].dir = stack[k].dir
        /\ LET child == Sub(stack[1].dir, Head(stack[1].names))
           IN \/ at' = "open" /\ dir' = child
              \/ UNCHANGED <<at, dir>>
    BY <1>2, <1>8, DescendFrames
  <2>2. /\ Tip = stack[1].dir /\ stack[1].dir \in Paths /\ stack[k].dir \in Paths
        /\ stack[1].names \in Seq(Name \cup {Dot}) /\ Range(stack[1].names) \subseteq Name
    BY <1>2, <2>1, FramesTyped DEF OnItsWay, FrameOn, Tip, Listing
  <2>3. PICK m \in Name : m = Head(stack[1].names)
    BY <2>1, <2>2, InTail
  <2>4. Sub(stack[1].dir, m) = Append(stack[1].dir, m)
    BY DirectoryAssumption DEF Sub
  <2>5. \/ at' = "open" /\ Tip' = Append(stack[1].dir, m)
        \/ at' = "descend" /\ Tip' = stack[1].dir
    BY <2>1, <2>3, <2>4 DEF Tip, Listing
  <2>6. FrameOnce(stack[k], n, k # 1, stack[1].dir)
    BY <1>3, <1>4, <2>1, <2>2 DEF Listing
  <2>7. CASE k # 1
    <3>1. Along(stack[k].dir, stack[1].dir) /\ Len(stack[k].dir) < Len(stack[1].dir)
      BY <1>2, <2>1, <2>7, ToTheFirst
    <3>2. Append(stack[1].dir, m)[Len(stack[k].dir) + 1] = stack[1].dir[Len(stack[k].dir) + 1]
      BY <2>2, <3>1, AlongChild
    <3>3. Tip'[Len(stack[k].dir) + 1] = stack[1].dir[Len(stack[k].dir) + 1]
      BY <2>5, <3>2
    <3> QED
      BY <2>1, <2>6, <2>7, <3>3 DEF FrameOnce
  <2>8. CASE k = 1
    <3>1. /\ In(stack[1].names, m) # {}
          /\ In(stack[1].names, n) = {} => In(stack'[1].names, n) = {}
          /\ One(In(stack[1].names, n)) => IF m = n THEN In(stack'[1].names, n) = {}
                                           ELSE One(In(stack'[1].names, n))
      BY <2>1, <2>2, <2>3, InTail
    <3>2. In(stack'[1].names, n) = {} \/ (m # n /\ One(In(stack'[1].names, n)))
      BY <2>6, <2>8, <3>1 DEF FrameOnce
    <3>3. at' \in Listing => Tip'[Len(stack[1].dir) + 1] = m
      <4>1. Append(stack[1].dir, m)[Len(stack[1].dir) + 1] = m
        BY <2>2, PathLength, AppendProperties
      <4> QED
        BY <2>5, <4>1 DEF Listing
    <3> QED
      BY <2>1, <2>8, <3>2, <3>3 DEF FrameOnce
  <2> QED
    BY <2>7, <2>8
<1>9. CASE PopsFrame
  <2>1. /\ at = "descend" /\ at' = "descend" /\ stack # <<>>
        /\ Len(stack) \in Nat \ {0}
        /\ DOMAIN stack' = 1..(Len(stack) - 1)
        /\ \A j \in DOMAIN stack' : j + 1 \in DOMAIN stack /\ j + 1 # 1 /\ stack'[j] = stack[j + 1]
    BY <1>9, StackPopped DEF PopsFrame, ReaderOK, ReaderTyped
  <2>2. /\ k \in Nat /\ k >= 1 /\ 1 \in DOMAIN stack'
        /\ k + 1 \in DOMAIN stack /\ stack'[k] = stack[k + 1] /\ k + 1 # 1
        /\ 1 + 1 \in DOMAIN stack /\ stack'[1] = stack[1 + 1]
    BY <1>2, <2>1
  <2>3. Tip = stack[1].dir /\ Tip' = stack[1 + 1].dir /\ at' \notin Listing
    BY <2>1, <2>2 DEF Tip, Listing
  <2>4. FrameOnce(stack[k + 1], n, TRUE, stack[1].dir)
    BY <1>3, <1>4, <2>2, <2>3
  <2>5. ASSUME k # 1
        PROVE  stack[1].dir[Len(stack[k + 1].dir) + 1] = stack[1 + 1].dir[Len(stack[k + 1].dir) + 1]
    <3>1. /\ Along(stack[k + 1].dir, stack[1].dir) /\ Along(stack[1 + 1].dir, stack[1].dir)
          /\ 1 \in DOMAIN stack
      BY <1>2, <2>1, <2>2, ToTheFirst
    <3>2. /\ stack[1].dir \in Paths /\ stack[k + 1].dir \in Paths /\ stack[1 + 1].dir \in Paths
          /\ Len(Head(places).dir) \in Nat
      BY <2>1, <2>2, <3>1, FramesTyped
    <3>3. /\ Len(stack[k + 1].dir) = Len(Head(places).dir) + Len(stack) - (k + 1)
          /\ Len(stack[1 + 1].dir) = Len(Head(places).dir) + Len(stack) - (1 + 1)
      BY <1>2, <2>2 DEF OnItsWay, FrameOn
    <3>4. Len(stack[k + 1].dir) < Len(stack[1 + 1].dir)
      BY <2>1, <2>2, <2>5, <3>2, <3>3
    <3>5. Len(stack[k + 1].dir) <= Len(stack[1 + 1].dir)
      BY <2>1, <2>2, <3>2, <3>3
    <3>6. Along(stack[k + 1].dir, stack[1 + 1].dir)
      BY <3>1, <3>2, <3>5, AlongBoth
    <3> QED
      BY <3>1, <3>2, <3>4, <3>6, AlongBoth
  <2> QED
    BY <2>2, <2>3, <2>4, <2>5 DEF FrameOnce
<1>10. CASE NextOperand
  <2>1. stack' = <<>>
    BY <1>10 DEF NextOperand
  <2> QED
    BY <1>2, <2>1, EmptySeq
<1> QED
  BY <1>2, <1>5, <1>6, <1>7, <1>8, <1>9, <1>10, DirMoves

(* A directory that dir will still come to, for the operand it is at: it is *)
(* below the one that is listed, or below a name that is left of a frame.   *)
Held(f, d) == Along(f.dir, d) /\ Len(f.dir) < Len(d) /\ In(f.names, d[Len(f.dir) + 1]) # {}
Pending(d) == (at \in Listing /\ Along(dir, d)) \/ \E k \in DOMAIN stack : Held(stack[k], d)

Leads(i, d) ==
  LET o == PlacesOf(read)[i].dir
  IN Along(o, d) /\ Len(d) - Len(o) <= IF "r" \in read.opts THEN read.depth ELSE 0

(* A name on the way to a stable directory is one of those that must come.  *)
LEMMA OnTheWay ==
  ASSUME ReaderOK, TreeOK, ParentsStay, NEW s \in Paths, NEW d \in stable, Along(s, d), Len(s) < Len(d)
  PROVE  /\ d[Len(s) + 1] \in Name
         /\ Append(s, d[Len(s) + 1]) \in stable
         /\ Along(Append(s, d[Len(s) + 1]), d)
<1>1. d \in Paths
  BY PathsOfTree
<1>2. PICK n \in Name : n = d[Len(s) + 1] /\ Along(Append(s, n), d)
  BY <1>1, AlongSteps
<1>3. Append(s, n) \in Seq(Name)
  BY PathEnds
<1>4. Append(s, n) \in stable
  BY <1>2, <1>3, StableWay
<1> QED
  BY <1>2, <1>4

LEMMA NotHeld ==
  ASSUME ReaderOK, TreeOK, ParentsStay, OnItsWay, AtMostOnce, ~ Qids, ~ broken,
         at \in Listing, dir \in stable, NEW k \in DOMAIN stack
  PROVE  ~ Held(stack[k], dir)
<1>1. SUFFICES ASSUME Held(stack[k], dir) PROVE FALSE
  OBVIOUS
<1>2. stack[k].dir \in Paths
  BY FramesTyped
<1>3. PICK n \in Name : n = dir[Len(stack[k].dir) + 1] /\ Append(stack[k].dir, n) \in stable
  BY <1>1, <1>2, OnTheWay DEF Held
<1>4. FrameOnce(stack[k], n, TRUE, dir)
  BY <1>3 DEF AtMostOnce, Tip
<1> QED
  BY <1>1, <1>3, <1>4 DEF FrameOnce, Held

LEMMA PendingStep ==
  ASSUME ReaderOK, TreeOK, ParentsStay, Collected, OnItsWay, AtMostOnce,
         ~ Qids, ~ broken', [Next]_vars, ~ NextOperand, at # "done",
         ~ {"r", "n"} \subseteq read.opts,
         NEW d \in stable, IsDir(d), Leads(Turn, d)
  PROVE  IF PrintNames /\ d = dir THEN Pending(d) /\ ~ Pending(d)'
         ELSE Pending(d)' <=> Pending(d)
<1> DEFINE o == Head(places).dir
<1>1. ~ broken /\ d \in Paths /\ d \in DOMAIN tree
  BY KeepsRead, PathsOfTree DEF TreeOK
<1>2. /\ o \in Paths /\ dir \in Paths /\ Len(o) \in Nat /\ Len(d) \in Nat /\ Len(dir) \in Nat
      /\ Len(stack) \in Nat
      /\ \A k \in DOMAIN stack : /\ stack[k].dir \in Paths /\ Len(stack[k].dir) \in Nat
                                 /\ stack[k].names \in Seq(Name \cup {Dot})
  BY <1>1, FramesTyped, PathLength
<1>3. /\ Along(o, d) /\ Len(d) - Len(o) <= IF "r" \in read.opts THEN read.depth ELSE 0
  BY DirPlace DEF Leads
<1>4. /\ stack # <<>> => "r" \in read.opts
      /\ at \in Listing => Along(o, dir) /\ Len(dir) = Len(o) + Len(stack)
      /\ \A k \in DOMAIN stack : Range(stack[k].names) \subseteq Name
  BY DEF OnItsWay, FrameOn
<1> HIDE DEF o
<1>5. Along(dir, d) => IsDir(dir)
  BY <1>2, StableDirs
<1>6. Along(dir, d) /\ d # dir => Len(dir) < Len(d)
  BY <1>1, <1>2, AlongSteps DEF Along
<1>7. CASE StaysThere
  BY <1>7 DEF StaysThere, Pending, PrintNames, Listing
<1>8. CASE NotThere
  <2>1. ~ PrintNames /\ at \in Listing /\ at' \notin Listing /\ stack' = stack
    BY <1>8 DEF NotThere, PrintNames, Listing
  <2>2. ~ Along(dir, d)
    BY <1>5, <1>8 DEF NotThere
  <2> QED
    BY <2>1, <2>2 DEF Pending
<1>9. CASE PrintNames
  <2>1. at \in Listing /\ at' \notin Listing
    BY <1>9, PrintFrames DEF Listing
  <2>2. d = dir => Pending(d) /\ \A k \in DOMAIN stack : ~ Held(stack[k], d)
    BY <1>1, <1>2, <2>1, AlongSteps, NotHeld DEF Pending
  <2>3. CASE stack' = stack
    <3>1. "r" \notin read.opts \/ ~ (Len(stack) < read.depth)
      BY <1>2, <1>9, <2>3, PrintFrames
    <3>2. "r" \notin read.opts => Len(stack) = 0
      BY <1>4, EmptySeq
    <3>3. Len(d) <= Len(dir)
      BY <1>2, <1>3, <1>4, <2>1, <3>1, <3>2 DEF ReaderOK, ReaderTyped, ReadJob
    <3>4. Along(dir, d) => d = dir
      BY <1>2, <1>6, <3>3
    <3> QED
      BY <1>9, <2>1, <2>2, <2>3, <3>4 DEF Pending
  <2>4. CASE stack' # stack
    <3>1. /\ 1 \in DOMAIN stack' /\ stack'[1].dir = dir /\ stack'[1].names = names
          /\ \A k \in DOMAIN stack' : k # 1 => k - 1 \in DOMAIN stack /\ stack'[k] = stack[k - 1]
          /\ \A k \in DOMAIN stack : k + 1 \in DOMAIN stack' /\ stack'[k + 1] = stack[k]
      BY <1>9, <2>4, PrintFrames
    <3>2. Held(stack'[1], d) <=> Along(dir, d) /\ d # dir
      <4>1. ASSUME Along(dir, d), d # dir PROVE Held(stack'[1], d)
        <5>1. PICK n \in Name : n = d[Len(dir) + 1] /\ Append(dir, n) \in stable
          BY <1>2, <1>6, <4>1, OnTheWay
        <5>2. One(In(names, n))
          BY <1>1, <1>9, <5>1 DEF Collected, PrintNames
        <5> QED
          BY <1>6, <3>1, <4>1, <5>1, <5>2 DEF Held, One
      <4>2. Held(stack'[1], d) => Along(dir, d) /\ Len(dir) < Len(d)
        BY <3>1 DEF Held
      <4> QED
        BY <1>2, <4>1, <4>2
    <3>3. (\E k \in DOMAIN stack' : Held(stack'[k], d)) <=>
            Held(stack'[1], d) \/ \E k \in DOMAIN stack : Held(stack[k], d)
      <4> DEFINE H(f) == Held(f, d)
      <4> HIDE DEF H
      <4>1. (\E k \in DOMAIN stack' : H(stack'[k])) <=>
              H(stack'[1]) \/ \E k \in DOMAIN stack : H(stack[k])
        BY <3>1
      <4> QED
        BY <4>1 DEF H
    <3>4. Pending(d)' <=> \E k \in DOMAIN stack' : Held(stack'[k], d)
      BY <2>1 DEF Pending, Held, In, Along
    <3> QED
      BY <1>9, <2>1, <2>2, <3>2, <3>3, <3>4 DEF Pending
  <2> QED
    BY <2>3, <2>4
<1>10. CASE Descend
  <2>1. /\ 1 \in DOMAIN stack /\ at = "descend"
        /\ stack[1].names # <<>>
        /\ DOMAIN stack' = DOMAIN stack
        /\ stack'[1].dir = stack[1].dir /\ stack'[1].names = Tail(stack[1].names)
        /\ \A k \in DOMAIN stack : k # 1 => stack'[k] = stack[k]
        /\ LET child == Sub(stack[1].dir, Head(stack[1].names))
           IN \/ IsDir(child) /\ at' = "open" /\ dir' = child
              \/ ~ IsDir(child) /\ UNCHANGED <<at, dir>>
    BY <1>10, DescendFrames
  <2>2. PICK m \in Name : m = Head(stack[1].names)
    BY <1>2, <1>4, <2>1, InTail
  <2> DEFINE s == stack[1].dir
             child == Append(s, m)
  <2>3. Sub(s, m) = child /\ s \in Paths /\ Len(s) \in Nat
    BY <1>2, <2>1, DirectoryAssumption DEF Sub
  <2>4. \/ IsDir(child) /\ at' \in Listing /\ dir' = child
        \/ ~ IsDir(child) /\ at' \notin Listing
    BY <2>1, <2>2, <2>3 DEF Listing
  <2>5. Along(child, d) <=> Along(s, d) /\ Len(s) < Len(d) /\ d[Len(s) + 1] = m
    BY <1>1, <2>3, AlongSteps
  <2>6. Along(child, d) => IsDir(child)
    <3>1. SUFFICES ASSUME Along(child, d) PROVE IsDir(child)
      OBVIOUS
    <3>2. child \in stable
      BY <2>3, <2>5, <3>1, OnTheWay
    <3> HIDE DEF child
    <3> QED
      BY <3>1, <3>2, PathsOfTree, StableDirs
  <2>7. /\ In(stack[1].names, m) # {}
        /\ \A n : /\ In(stack[1].names, n) = {} => In(stack'[1].names, n) = {}
                  /\ m # n /\ In(stack'[1].names, n) = {} => In(stack[1].names, n) = {}
    <3>1. stack[1].names \in Seq(Name \cup {Dot})
      BY <1>2, <2>1
    <3>2. In(stack[1].names, m) # {}
      BY <2>1, <2>2, <3>1, InTail
    <3>3. ASSUME NEW n
          PROVE  /\ In(stack[1].names, n) = {} => In(Tail(stack[1].names), n) = {}
                 /\ m # n /\ In(Tail(stack[1].names), n) = {} => In(stack[1].names, n) = {}
      BY <2>1, <2>2, <3>1, InTail
    <3> QED
      BY <2>1, <3>2, <3>3
  <2>8. Held(stack[1], d) <=> Held(stack'[1], d) \/ Along(child, d)
    <3> HIDE DEF child
    <3> QED
      BY <2>1, <2>5, <2>7 DEF Held
  <2> HIDE DEF child, s
  <2>9. Pending(d)' <=> Along(child, d) \/ \E k \in DOMAIN stack' : Held(stack'[k], d)
    <3>1. Pending(d)' <=> (at' \in Listing /\ Along(dir', d)) \/ \E k \in DOMAIN stack' : Held(stack'[k], d)
      BY DEF Pending, Held, In, Along, Listing
    <3> QED
      BY <2>4, <2>6, <3>1
  <2>10. Pending(d) <=> \E k \in DOMAIN stack : Held(stack[k], d)
    BY <2>1 DEF Pending, Listing
  <2>11. (\E k \in DOMAIN stack : Held(stack[k], d)) <=>
           Along(child, d) \/ \E k \in DOMAIN stack' : Held(stack'[k], d)
    <3> DEFINE H(f) == Held(f, d)
    <3>1. H(stack[1]) <=> H(stack'[1]) \/ Along(child, d)
      BY <2>8
    <3> HIDE DEF H
    <3>2. (\E k \in DOMAIN stack : H(stack[k])) <=>
             Along(child, d) \/ \E k \in DOMAIN stack' : H(stack'[k])
      BY <2>1, <3>1
    <3> QED
      BY <3>2 DEF H
  <2>12. ~ PrintNames
    BY <2>1 DEF PrintNames
  <2> QED
    BY <2>9, <2>10, <2>11, <2>12
<1>11. CASE PopsFrame
  <2>1. /\ at = "descend" /\ at' = "descend"
        /\ 1 \in DOMAIN stack /\ stack[1].names = <<>>
        /\ \A k \in DOMAIN stack' : k + 1 \in DOMAIN stack /\ stack'[k] = stack[k + 1]
        /\ \A k \in DOMAIN stack : k # 1 => k - 1 \in DOMAIN stack' /\ stack'[k - 1] = stack[k]
    BY <1>11, StackPopped DEF PopsFrame, ReaderOK, ReaderTyped
  <2>2. ~ Held(stack[1], d)
    BY <2>1, EmptyList DEF Held
  <2>3. (\E k \in DOMAIN stack' : Held(stack'[k], d)) <=> \E k \in DOMAIN stack : Held(stack[k], d)
    <3> DEFINE H(f) == Held(f, d)
    <3>1. ~ H(stack[1])
      BY <2>2
    <3> HIDE DEF H
    <3>2. (\E k \in DOMAIN stack' : H(stack'[k])) <=> \E k \in DOMAIN stack : H(stack[k])
      BY <2>1, <3>1
    <3> QED
      BY <3>2 DEF H
  <2>4. /\ Pending(d)' <=> \E k \in DOMAIN stack' : Held(stack'[k], d)
        /\ Pending(d) <=> \E k \in DOMAIN stack : Held(stack[k], d)
        /\ ~ PrintNames
    BY <2>1 DEF Pending, Held, In, Along, Listing, PrintNames
  <2> QED
    BY <2>3, <2>4
<1> QED
  BY <1>7, <1>8, <1>9, <1>10, <1>11, DirMoves

-----------------------------------------------------------------------------
(* How often dir has listed a directory, and for which operands.            *)
ListedAs(d) == {k \in DOMAIN listings : listings[k].dir = d}
Led(d) == {i \in DOMAIN PlacesOf(read) : Leads(i, d) /\ (i < Turn \/ (i = Turn /\ ~ Pending(d)))}

Tally ==
  ~ Qids /\ ~ broken /\ ~ {"r", "n"} \subseteq read.opts =>
    \A d \in stable : IsDir(d) => Cardinality(ListedAs(d)) = Cardinality(Led(d))

LEMMA FiniteCounts ==
  ASSUME ReaderOK, NEW d
  PROVE  IsFiniteSet(ListedAs(d)) /\ IsFiniteSet(Led(d))
<1>1. DOMAIN listings = 1..Len(listings) /\ Len(listings) \in Nat
  BY LenProperties DEF ReaderOK, ReaderTyped
<1>2. IsFiniteSet(DOMAIN listings)
  BY <1>1, FS_Interval
<1> QED
  BY <1>2, DirPlace, FS_Subset DEF ListedAs, Led

(* A step that lists nothing leaves the count, and dir at its operand.      *)
LEMMA SameOperand ==
  ASSUME ReaderOK, TreeOK, ~ Qids, [Next]_vars, ~ NextOperand
  PROVE  /\ UNCHANGED places /\ Turn' = Turn /\ (at = "done" <=> at' = "done")
         /\ listings' = listings \/ PrintNames
<1>1. UNCHANGED places /\ (at = "done" <=> at' = "done")
  <2>1. CASE StaysThere \/ NotThere \/ PopsFrame
    BY <2>1 DEF StaysThere, NotThere, PopsFrame
  <2>2. CASE PrintNames
    BY <2>2, PrintFrames
  <2>3. CASE Descend
    BY <2>3, DescendFrames
  <2> QED
    BY <2>1, <2>2, <2>3, DirMoves
<1>2. read' = read
  BY KeepsRead
<1> QED
  BY <1>1, <1>2, SameTurn, OnlyPrintLists

LEMMA LeadsHere ==
  ASSUME ReaderOK, OnItsWay, ~ Qids, at \in Listing
  PROVE  Leads(Turn, dir)
<1>1. at # "done"
  BY DEF Listing
<1>2. /\ Along(Head(places).dir, dir) /\ Len(dir) = Len(Head(places).dir) + Len(stack)
      /\ stack # <<>> => "r" \in read.opts
  BY DEF OnItsWay
<1>3. /\ Len(stack) <= read.depth /\ read.depth \in Nat
      /\ Len(stack) \in Nat /\ Len(Head(places).dir) \in Nat
  BY <1>1, FramesTyped DEF ReaderOK, ReaderTyped, ReadJob
<1>4. stack = <<>> => Len(stack) = 0
  BY EmptySeq
<1>5. Head(places) = PlacesOf(read)[Turn]
  BY <1>1, DirPlace
<1>6. PICK o : o = PlacesOf(read)[Turn].dir /\ o = Head(places).dir
  BY <1>5
<1>7. Along(o, dir) /\ Len(dir) = Len(o) + Len(stack) /\ Len(o) \in Nat
  BY <1>2, <1>3, <1>6
<1>8. Len(dir) - Len(o) = Len(stack)
  BY <1>3, <1>7
<1>9. Len(stack) <= IF "r" \in read.opts THEN read.depth ELSE 0
  BY <1>2, <1>3, <1>4
<1> QED
  BY <1>6, <1>7, <1>8, <1>9 DEF Leads

LEMMA TallyStep ==
  ASSUME ReaderOK, TreeOK, ParentsStay, Collected, OnItsWay, AtMostOnce, Tally, [Next]_vars
  PROVE  Tally'
<1>1. read' = read /\ (Qids' <=> Qids)
  BY KeepsRead DEF Qids
<1>2. SUFFICES ASSUME ~ Qids, ~ broken', ~ {"r", "n"} \subseteq read.opts,
                      NEW d \in stable', IsDir(d)'
               PROVE  Cardinality(ListedAs(d)') = Cardinality(Led(d)')
  BY <1>1 DEF Tally
<1>3. ~ broken /\ d \in stable /\ IsDir(d)
  BY <1>2, KeepsRead, StableKept DEF IsDir
<1>4. /\ Cardinality(ListedAs(d)) = Cardinality(Led(d))
      /\ IsFiniteSet(ListedAs(d)) /\ IsFiniteSet(Led(d))
  BY <1>2, <1>3, FiniteCounts DEF Tally
<1>5. /\ DOMAIN PlacesOf(read) \subseteq Nat /\ Turn \in Nat
      /\ \A i \in DOMAIN PlacesOf(read) : Leads(i, d)' <=> Leads(i, d)
  BY <1>1, DirPlace DEF Leads, Along
<1>6. Led(d)' = {i \in DOMAIN PlacesOf(read) : Leads(i, d) /\ (i < Turn' \/ (i = Turn' /\ ~ Pending(d)'))}
  BY <1>1, <1>5 DEF Led
<1>7. CASE NextOperand
  <2>1. /\ at = "descend" /\ stack = <<>> /\ NextPlace /\ listings' = listings
    BY <1>7 DEF NextOperand
  <2>2. /\ Turn' = Turn + 1
        /\ Turn + 1 \in DOMAIN PlacesOf(read) =>
             at' = "open" /\ dir' = PlacesOf(read)[Turn + 1].dir
    BY <1>1, <1>2, <2>1, DirNext
  <2>3. ~ Pending(d)
    BY <2>1, EmptySeq DEF Pending, Listing
  <2>4. ASSUME Turn + 1 \in DOMAIN PlacesOf(read), Leads(Turn + 1, d) PROVE Pending(d)'
    BY <2>2, <2>4 DEF Pending, Listing, Leads, Along
  <2>5. Led(d)' = Led(d)
    <3>1. ASSUME NEW i \in DOMAIN PlacesOf(read), Leads(i, d)
          PROVE  (i < Turn' \/ (i = Turn' /\ ~ Pending(d)')) <=> (i < Turn \/ (i = Turn /\ ~ Pending(d)))
      <4>1. i \in Nat
        BY <1>5
      <4> QED
        BY <1>5, <2>2, <2>3, <2>4, <3>1, <4>1
    <3> QED
      BY <1>6, <3>1 DEF Led
  <2>6. ListedAs(d)' = ListedAs(d)
    BY <2>1 DEF ListedAs
  <2> QED
    BY <1>4, <2>5, <2>6
<1>8. CASE ~ NextOperand /\ at = "done"
  <2>1. Turn' = Turn /\ listings' = listings
    BY <1>2, <1>8, SameOperand DEF PrintNames
  <2>2. \A i \in DOMAIN PlacesOf(read) : i < Turn
    BY <1>8, DirPlace
  <2>3. Led(d)' = Led(d) /\ ListedAs(d)' = ListedAs(d)
    BY <1>6, <2>1, <2>2 DEF Led, ListedAs
  <2> QED
    BY <1>4, <2>3
<1>9. CASE ~ NextOperand /\ at # "done"
  <2>1. Turn' = Turn /\ (listings' = listings \/ PrintNames)
    BY <1>2, <1>9, SameOperand
  <2>2. CASE PrintNames /\ d = dir
    <3>1. at \in Listing /\ Turn \in DOMAIN PlacesOf(read)
      BY <1>9, <2>2, DirPlace DEF PrintNames, Listing
    <3>2. Leads(Turn, d)
      BY <1>2, <2>2, <3>1, LeadsHere
    <3>3. Pending(d) /\ ~ Pending(d)'
      BY <1>2, <1>3, <1>9, <2>2, <3>2, PendingStep
    <3>4. Led(d)' = Led(d) \cup {Turn} /\ Turn \notin Led(d)
      BY <1>5, <1>6, <2>1, <3>1, <3>2, <3>3 DEF Led
    <3>5. listings' # listings
      <4> DEFINE f == [dir |-> dir, names |-> names]
      <4>1. listings' = Append(listings, f)
        BY <1>2, <2>2 DEF PrintNames
      <4>2. f \in Frame /\ listings \in Seq(Frame)
        BY DEF Frame, ReaderOK, ReaderTyped
      <4> HIDE DEF f
      <4>3. Len(listings') = Len(listings) + 1 /\ Len(listings) \in Nat
        BY <4>1, <4>2, AppendProperties, LenProperties
      <4>4. Len(listings) + 1 # Len(listings)
        BY <4>3
      <4> QED
        BY <4>3, <4>4
    <3>6. ListedAs(d)' = ListedAs(d) \cup {Len(listings) + 1} /\ Len(listings) + 1 \notin ListedAs(d)
      BY <2>2, <3>5, ListingMade DEF ListedAs
    <3>7. /\ Cardinality(Led(d)') = Cardinality(Led(d)) + 1
          /\ Cardinality(ListedAs(d)') = Cardinality(ListedAs(d)) + 1
      BY <1>4, <3>4, <3>6, FS_AddElement
    <3> QED
      BY <1>4, <3>7
  <2>3. CASE ~ (PrintNames /\ d = dir)
    <3>1. Leads(Turn, d) => (Pending(d)' <=> Pending(d))
      BY <1>2, <1>3, <1>9, <2>3, PendingStep
    <3>2. Led(d)' = Led(d)
      BY <1>6, <2>1, <3>1 DEF Led
    <3>3. ListedAs(d)' = ListedAs(d)
      <4>1. CASE listings' = listings
        BY <4>1 DEF ListedAs
      <4>2. CASE PrintNames /\ listings' # listings
        BY <2>3, <4>2, ListingMade DEF ListedAs
      <4> QED
        BY <2>1, <4>1, <4>2
    <3> QED
      BY <1>4, <3>2, <3>3
  <2> QED
    BY <2>2, <2>3
<1> QED
  BY <1>7, <1>8, <1>9

ListingOK == NamesOK /\ Collected /\ OnItsWay /\ AtMostOnce /\ Tally

LEMMA ListingAtStart ==
  ASSUME Init
  PROVE  ListingOK
<1>1. /\ ReaderOK /\ TreeOK /\ places = PlacesOf(read) /\ at = OpensAt(places) /\ dir = DirAt(places)
      /\ names = <<>> /\ stack = <<>> /\ listings = <<>>
  BY ReaderAtStart, DirectoryAtStart DEF Init
<1>2. DOMAIN stack = {} /\ DOMAIN listings = {} /\ Len(stack) = 0
  BY <1>1, EmptySeq
<1>3. ~ Qids => at \in {"open", "done"} /\ (at = "open" => places # <<>> /\ dir = Head(places).dir)
  BY <1>1 DEF OpensAt, DirAt, ReaderOK, InPlace, InModules
<1>4. NamesOK
  BY <1>1, <1>2, EmptyList DEF NamesOK
<1>5. Collected
  BY <1>2, <1>3 DEF Collected
<1>6. OnItsWay
  <2>1. ASSUME ~ Qids, at = "open"
        PROVE  Along(Head(places).dir, dir) /\ Len(dir) = Len(Head(places).dir) + Len(stack)
    <3>1. dir = Head(places).dir /\ dir \in Paths /\ Len(dir) \in Nat
      BY <1>1, <1>3, <2>1, FramesTyped
    <3> QED
      BY <1>2, <3>1, AlongSteps
  <2> QED
    BY <1>1, <1>2, <1>3, <2>1 DEF OnItsWay, Listing
<1>7. AtMostOnce
  BY <1>2 DEF AtMostOnce
<1>8. Tally
  <2>1. SUFFICES ASSUME ~ Qids, NEW d PROVE Cardinality(ListedAs(d)) = Cardinality(Led(d))
    BY DEF Tally
  <2>2. Turn = 1
    <3>1. Len(places) \in Nat
      BY <1>1, LenProperties DEF ReaderOK, ReaderTyped
    <3> QED
      BY <1>1, <3>1 DEF Turn
  <2>3. ASSUME NEW i \in Led(d) PROVE FALSE
    <3>1. DOMAIN PlacesOf(read) = 1..Len(PlacesOf(read)) /\ Len(PlacesOf(read)) \in Nat
      BY <1>1, Places, LenProperties DEF ReaderOK, ReaderTyped
    <3>2. i = Turn /\ Leads(Turn, d) /\ ~ Pending(d) /\ i \in DOMAIN PlacesOf(read)
      BY <2>2, <2>3, <3>1 DEF Led
    <3>3. at # "done"
      BY <1>1, <3>2, DirPlace
    <3>4. at = "open" /\ dir = PlacesOf(read)[Turn].dir
      BY <1>1, <1>3, <2>1, <3>3, DirPlace
    <3> QED
      BY <3>2, <3>4 DEF Pending, Leads, Listing
  <2>4. Led(d) = {} /\ ListedAs(d) = {}
    BY <1>2, <2>3 DEF ListedAs
  <2> QED
    BY <2>4
<1> QED
  BY <1>4, <1>5, <1>6, <1>7, <1>8 DEF ListingOK

LEMMA ListingStep ==
  ASSUME ReaderOK, ReaderOK', TreeOK, ParentsStay, ListingOK, [Next]_vars
  PROVE  ListingOK'
BY NamesStep, CollectedStep, OnItsWayStep, AtMostOnceStep, TallyStep DEF ListingOK

(* At the end no operand is left, and the counts are what was to be shown.  *)
LEMMA ListingAtEnd ==
  ASSUME ReaderOK, TreeOK, ListingOK
  PROVE  DirListsStable
<1>1. SUFFICES ASSUME ~ Qids, at = "done", ~ broken
               PROVE  /\ \A l \in Range(listings) :
                           ("s" \notin read.opts => Sorted(l.names)) /\ Complete(l)
                      /\ ~ {"r", "n"} \subseteq read.opts =>
                           \A d \in stable : IsDir(d) =>
                             Cardinality({k \in DOMAIN listings : listings[k].dir = d})
                               = Cardinality(Operands(d))
  BY DEF DirListsStable
<1>2. ASSUME NEW l \in Range(listings)
      PROVE  ("s" \notin read.opts => Sorted(l.names)) /\ Complete(l)
  <2>1. PICK k \in DOMAIN listings : listings[k] = l
    BY <1>2 DEF Range
  <2>2. "s" \notin read.opts => Sorted(l.names)
    BY <2>1 DEF ListingOK, NamesOK
  <2>3. ASSUME NEW p \in stable, p # <<>>, Front(p) = l.dir
        PROVE  Cardinality({i \in DOMAIN l.names : l.names[i] = Last(p)}) = 1
    <3>1. p = Append(Front(p), Last(p)) /\ Last(p) \in Name
      BY <2>3, PathsOfTree, PathEnds
    <3>2. One(In(listings[k].names, Last(p)))
      BY <1>1, <2>1, <2>3, <3>1 DEF ListingOK, Collected
    <3>3. PICK i : In(l.names, Last(p)) = {i}
      BY <2>1, <3>2 DEF One
    <3>4. Cardinality(In(l.names, Last(p))) = 1
      BY <3>3, FS_Singleton
    <3> QED
      BY <3>4 DEF In
  <2> QED
    BY <2>2, <2>3 DEF Complete
<1>3. ASSUME ~ {"r", "n"} \subseteq read.opts, NEW d \in stable, IsDir(d)
      PROVE  Cardinality({k \in DOMAIN listings : listings[k].dir = d}) = Cardinality(Operands(d))
  <2>1. Cardinality(ListedAs(d)) = Cardinality(Led(d))
    BY <1>1, <1>3 DEF ListingOK, Tally
  <2>2. d \in Paths /\ \A i \in DOMAIN PlacesOf(read) : i < Turn /\ PlacesOf(read)[i].dir \in Paths
    BY <1>1, DirPlace, PathsOfTree
  <2>3. ASSUME NEW i \in DOMAIN PlacesOf(read)
        PROVE  d \in ReachedFrom(PlacesOf(read)[i].dir) <=> Leads(i, d)
    <3>1. PICK o \in Paths : o = PlacesOf(read)[i].dir
      BY <2>2
    <3>2. IsPrefix(o, d) <=> Along(o, d)
      BY <2>2, PrefixIs
    <3>3. d \in ReachedFrom(o) <=> Along(o, d) /\ Len(d) - Len(o) <= IF "r" \in read.opts THEN read.depth ELSE 0
      BY <1>3, <3>2 DEF ReachedFrom
    <3> QED
      BY <3>1, <3>3 DEF Leads
  <2>4. Operands(d) = Led(d)
    BY <2>2, <2>3 DEF Operands, Led
  <2> QED
    BY <2>1, <2>4 DEF ListedAs
<1> QED
  BY <1>1, <1>2, <1>3

(* dir prints every directory it comes to in order, with each name that was *)
(* there all the time once; with -r it comes to each directory that was     *)
(* there all the time and is not too deep, once for each operand that leads *)
(* to it: whatever is made and deleted meanwhile, before dir comes to it,   *)
(* while it reads it, or between its reading and its way down.              *)
THEOREM DirIsComplete == Spec => []DirListsStable
<1>1. Init => ParentsStay /\ ListingOK
  BY ParentsAtStart, ListingAtStart
<1>2. ReaderOK /\ ReaderOK' /\ TreeOK /\ ParentsStay /\ ListingOK /\ [Next]_vars
        => (ParentsStay /\ ListingOK)'
  BY ParentsStep, ListingStep
<1>3. ReaderOK /\ TreeOK /\ ListingOK => DirListsStable
  BY ListingAtEnd
<1> QED
  BY <1>1, <1>2, <1>3, DirectoryInvariant, ReaderInvariant, PTL DEF Spec
===============================================================================
