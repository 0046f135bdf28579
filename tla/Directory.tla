------------------------------ MODULE Directory -----------------------------
(***************************************************************************)
(* A tree of directories as the RBF file manager keeps it, and the commands *)
(* that change it: makdir, del, deldir and touch.  Several of them run at   *)
(* once; one name given to one of them is several kernel calls.             *)
(*                                                                         *)
(* An entry of a directory has a slot.  Deleting frees the slot, creating   *)
(* takes the first free one, and the directory never gets shorter: this is  *)
(* what the commands of Scan, which read slot after slot, are exposed to.   *)
(***************************************************************************)
EXTENDS Naturals, Sequences, FiniteSets, SequencesExt

CONSTANTS
  Name,        \* names of entries: numbers, in the order of strcmp()
  MaxDepth,    \* bound on the length of a path
  MaxSlots,    \* bound on the slots of a directory: the disk is full then
  Writer       \* the commands that run at once

Free == 0      \* a deleted entry
Dot == 1       \* the entries "." and "..", in slot 1

ASSUME DirectoryAssumption ==
  /\ Name \subseteq Nat \ {Free, Dot} /\ IsFiniteSet(Name)
  /\ MaxDepth \in Nat /\ MaxSlots \in Nat \ {0}

Paths == UNION {[1..k -> Name] : k \in 0..MaxDepth}
Entry == [kind: {"file", "dir"}, slot: 1..MaxSlots, size: 0..MaxSlots]

(* A tree as the file manager keeps it: what is in a directory has a slot   *)
(* of its own there, behind the dot.                                        *)
WellFormed(t) ==
  /\ DOMAIN t \subseteq Paths /\ t \in [DOMAIN t -> Entry]
  /\ \A p \in DOMAIN t \ {<<>>} :
       /\ Front(p) \in DOMAIN t /\ t[Front(p)].kind = "dir"
       /\ t[p].slot \in 2..t[Front(p)].size
  /\ \A p, q \in DOMAIN t \ {<<>>} : Front(p) = Front(q) /\ t[p].slot = t[q].slot => p = q

(* A line of input: what it is as a name, <<>> for an empty line and        *)
(* NoPath for one that names nothing, and what it is as an answer: a yes or *)
(* no for each 7 characters, which is what one fgets() of an answer takes.  *)
NoPath == <<Free>>
Line == [path: Paths \cup {NoPath}, chunks: Seq({"y", "n"})]

(* An argument is an option or, with option "name", a path; options that    *)
(* only choose the mode of a call (-x, -f, -e) are left out.  hasFile: the   *)
(* file given to -z= can be opened.                                         *)
Argument == [option: {"name", "-p", "-c", "-q", "-z", "-z=", "-?", "-k"}, path: Paths]
Job == [program: {"makdir", "del", "deldir", "touch"}, args: Seq(Argument),
        stdin: Seq(Line), file: Seq(Line), hasFile: BOOLEAN]

Known(program) ==
  CASE program = "makdir" -> {"-p", "-q", "-z", "-z="}
    [] program = "del" -> {"-p", "-q", "-z", "-z="}
    [] program = "deldir" -> {"-z", "-z="}
    [] program = "touch" -> {"-c", "-q"}

VARIABLES
  tree,      \* the paths that exist, with kind, slot and, for a directory, size
  stable,    \* history: the paths that have existed all the time
  job,       \* the command line of each writer
  pc,        \* "argument", "answer", "stat", "make", "delete", "open", "create", "done"
  left,      \* arguments to come
  opts,      \* options seen so far
  from,      \* where names are listed: "none", "stdin", "file"
  stdin,     \* lines to come from standard input
  file,      \* and from the file of -z=
  todo,      \* paths to deal with for the present name
  named,     \* a name has been given
  status,    \* exit status so far
  asked      \* history: the line of standard input the last answer came from

files == <<tree, stable>>
input == <<stdin, file>>
command == <<job, pc, left, opts, from, stdin, file, todo, named, status, asked>>
directoryVars == <<files, command>>

DirectoryInit(found, jobs) ==
  /\ tree = found
  /\ stable = DOMAIN found
  /\ job = jobs
  /\ pc = [w \in Writer |-> "argument"]
  /\ left = [w \in Writer |-> job[w].args]
  /\ opts = [w \in Writer |-> {}]
  /\ from = [w \in Writer |-> "none"]
  /\ stdin = [w \in Writer |-> job[w].stdin]
  /\ file = [w \in Writer |-> job[w].file]
  /\ todo = [w \in Writer |-> <<>>]
  /\ named = [w \in Writer |-> FALSE]
  /\ status = [w \in Writer |-> 0]
  /\ asked = [w \in Writer |-> 0]

-----------------------------------------------------------------------------
(* The file manager. *)
IsDir(p) == p \in DOMAIN tree /\ tree[p].kind = "dir"
IsFile(p) == p \in DOMAIN tree /\ tree[p].kind = "file"
Children(d) == {p \in DOMAIN tree : p # <<>> /\ Front(p) = d}
FreeSlots(d) == (2..MaxSlots) \ {tree[p].slot : p \in Children(d)}

EntryAt(d, s) ==
  IF s = 1 THEN Dot
  ELSE IF \E p \in Children(d) : tree[p].slot = s
         THEN Last(CHOOSE p \in Children(d) : tree[p].slot = s)
         ELSE Free

CanCreate(p) ==
  /\ p \notin DOMAIN tree /\ Len(p) \in 1..MaxDepth /\ p \in Paths
  /\ IsDir(Front(p)) /\ FreeSlots(Front(p)) # {}

Created(p, kind) ==
  LET d == Front(p)
      s == CHOOSE s \in FreeSlots(d) : \A t \in FreeSlots(d) : s <= t
      new == [kind |-> kind, slot |-> s, size |-> IF kind = "dir" THEN 1 ELSE 0]
  IN /\ tree' = [q \in DOMAIN tree \cup {p} |->
                  IF q = p THEN new
                  ELSE IF q = d /\ s > tree[d].size THEN [tree[d] EXCEPT !.size = s]
                  ELSE tree[q]]
     /\ UNCHANGED stable

Removed(p) ==
  /\ tree' = [q \in DOMAIN tree \ {p} |-> tree[q]]
  /\ stable' = stable \ {p}

-----------------------------------------------------------------------------
(* main(): arguments from left to right, an option counts for the names     *)
(* behind it; the list of names comes last.                                 *)
Is(w, program) == job[w].program = program
Now(w) == Head(todo[w])
Listed(w) == IF from[w] = "stdin" THEN stdin[w] ELSE IF from[w] = "file" THEN file[w] ELSE <<>>

Exit(w, s) ==
  /\ pc' = [pc EXCEPT ![w] = "done"]
  /\ status' = [status EXCEPT ![w] = s]

Option(w) ==
  /\ pc[w] = "argument" /\ left[w] # <<>> /\ Head(left[w]).option # "name"
  /\ left' = [left EXCEPT ![w] = Tail(@)]
  /\ LET o == Head(left[w]).option
     IN \/ /\ o \in Known(job[w].program) \ {"-z", "-z="}
           /\ opts' = [opts EXCEPT ![w] = @ \cup {o}]
           /\ UNCHANGED <<from, pc, status>>
        \/ /\ o \in Known(job[w].program) \cap {"-z", "-z="}
           /\ o = "-z=" => job[w].hasFile \/ Is(w, "deldir")
           /\ from' = [from EXCEPT ![w] = IF o = "-z" THEN "stdin"
                                          ELSE IF job[w].hasFile THEN "file" ELSE "none"]
           /\ UNCHANGED <<opts, pc, status>>
        \/ /\ \/ o \notin Known(job[w].program) \cup {"-?"}
              \/ o = "-z=" /\ ~ job[w].hasFile /\ ~ Is(w, "deldir")
           /\ Exit(w, 1)
           /\ UNCHANGED <<opts, from>>
        \/ /\ o = "-?"
           /\ Exit(w, 0)
           /\ UNCHANGED <<opts, from>>
  /\ UNCHANGED <<files, job, input, todo, named, asked>>

Components(p) == [k \in 1..Len(p) |-> SubSeq(p, 1, k)]

(* What a command does first with a name; makdir -p goes down the path. *)
Begin(w, p) ==
  /\ todo' = [todo EXCEPT ![w] =
                IF Is(w, "makdir") /\ "-p" \in opts[w] /\ p \notin {NoPath, <<>>}
                  THEN Components(p) ELSE <<p>>]
  /\ pc' = [pc EXCEPT ![w] =
              CASE Is(w, "makdir") -> "stat"
                [] Is(w, "touch") -> "open"
                [] Is(w, "del") /\ "-p" \in opts[w] -> "answer"
                [] OTHER -> "delete"]
  /\ named' = [named EXCEPT ![w] = TRUE]

TakeName(w) ==
  /\ pc[w] = "argument" /\ left[w] # <<>> /\ Head(left[w]).option = "name"
  /\ left' = [left EXCEPT ![w] = Tail(@)]
  /\ Begin(w, Head(left[w]).path)
  /\ UNCHANGED <<files, job, opts, from, input, status, asked>>

TakeLine(w) ==
  /\ pc[w] = "argument" /\ left[w] = <<>> /\ Listed(w) # <<>>
  /\ IF from[w] = "stdin"
       THEN stdin' = [stdin EXCEPT ![w] = Tail(@)] /\ UNCHANGED file
       ELSE file' = [file EXCEPT ![w] = Tail(@)] /\ UNCHANGED stdin
  /\ IF Head(Listed(w)).path = <<>>
       THEN UNCHANGED <<todo, pc, named>>
       ELSE Begin(w, Head(Listed(w)).path)
  /\ UNCHANGED <<files, job, left, opts, from, status, asked>>

(* Without a name and without a list the command has failed; deldir does    *)
(* not take an empty list for one.                                          *)
Finish(w) ==
  /\ pc[w] = "argument" /\ left[w] = <<>> /\ Listed(w) = <<>>
  /\ Exit(w, IF ~ named[w] /\ (from[w] = "none" \/ Is(w, "deldir")) THEN 1 ELSE status[w])
  /\ UNCHANGED <<files, job, left, opts, from, input, todo, named, asked>>

(* One path is dealt with; touch without -q stops at the first failure. *)
Done(w, s) ==
  /\ todo' = [todo EXCEPT ![w] = Tail(@)]
  /\ status' = [status EXCEPT ![w] = IF s = 0 THEN @ ELSE 1]
  /\ pc' = [pc EXCEPT ![w] =
              IF Len(todo[w]) > 1 THEN "stat"
              ELSE IF Is(w, "touch") /\ s = 1 /\ "-q" \notin opts[w] THEN "done"
              ELSE "argument"]

Goto(w, where) ==
  /\ pc' = [pc EXCEPT ![w] = where]
  /\ UNCHANGED <<todo, status>>

-----------------------------------------------------------------------------
(* del -p: fgets() of 8 bytes takes 7 characters of an answer, the rest of  *)
(* the line stays in the input.                                             *)
Rest(lines) ==
  IF Len(Head(lines).chunks) <= 1 THEN Tail(lines)
  ELSE <<[path |-> NoPath, chunks |-> Tail(Head(lines).chunks)]>> \o Tail(lines)

(* Mutant of Yes: anything but a no deletes, the end of the input too. *)
NotNo(lines) == lines = <<>> \/ Head(lines).chunks = <<>> \/ Head(Head(lines).chunks) # "n"

Yes(lines) == lines # <<>> /\ Head(lines).chunks # <<>> /\ Head(Head(lines).chunks) = "y"

Answer(w) ==
  /\ pc[w] = "answer"
  /\ asked' = [asked EXCEPT ![w] = Len(job[w].stdin) - Len(stdin[w]) + 1]
  /\ stdin' = [stdin EXCEPT ![w] = IF @ = <<>> THEN @ ELSE Rest(@)]
  /\ IF Yes(stdin[w]) THEN Goto(w, "delete") ELSE Done(w, 0)
  /\ UNCHANGED <<files, job, left, opts, from, file, named>>

(* unlinkx() deletes files, _os_delete() with FAM_DIR empty directories. *)
Delete(w) ==
  /\ pc[w] = "delete"
  /\ \/ /\ IF Is(w, "del") THEN IsFile(Now(w))
           ELSE IsDir(Now(w)) /\ Now(w) # <<>> /\ Children(Now(w)) = {}
        /\ Removed(Now(w)) /\ Done(w, 0)
     \/ /\ ~ IF Is(w, "del") THEN IsFile(Now(w))
             ELSE IsDir(Now(w)) /\ Now(w) # <<>> /\ Children(Now(w)) = {}
        /\ UNCHANGED files /\ Done(w, 1)
  /\ UNCHANGED <<job, left, opts, from, input, named, asked>>

(* Mutant of Stat: whatever is there counts as the directory. *)
StatAnything(w) ==
  /\ pc[w] = "stat"
  /\ IF Now(w) \in DOMAIN tree THEN Done(w, 0) ELSE Goto(w, "make")
  /\ UNCHANGED <<files, job, left, opts, from, input, named, asked>>

(* make_one(): a directory that is there is as good as a new one. *)
Stat(w) ==
  /\ pc[w] = "stat"
  /\ CASE IsDir(Now(w)) -> Done(w, 0)
       [] IsFile(Now(w)) -> Done(w, 1)
       [] OTHER -> Goto(w, "make")
  /\ UNCHANGED <<files, job, left, opts, from, input, named, asked>>

Make(w) ==
  /\ pc[w] = "make"
  /\ IF CanCreate(Now(w)) THEN Created(Now(w), "dir") /\ Done(w, 0)
     ELSE UNCHANGED files /\ Done(w, 1)
  /\ UNCHANGED <<job, left, opts, from, input, named, asked>>

(* touch_one(): the date may not be written; the file is there all the same. *)
Open(w) ==
  /\ pc[w] = "open"
  /\ CASE IsFile(Now(w)) -> \E s \in {0, 1} : Done(w, s)
       [] ~ IsFile(Now(w)) /\ "-c" \in opts[w] -> Done(w, 1)
       [] OTHER -> Goto(w, "create")
  /\ UNCHANGED <<files, job, left, opts, from, input, named, asked>>

Create(w) ==
  /\ pc[w] = "create"
  /\ IF CanCreate(Now(w)) THEN Created(Now(w), "file") /\ \E s \in {0, 1} : Done(w, s)
     ELSE UNCHANGED files /\ Done(w, 1)
  /\ UNCHANGED <<job, left, opts, from, input, named, asked>>

Write(w) ==
  \/ Option(w) \/ TakeName(w) \/ TakeLine(w) \/ Finish(w)
  \/ Answer(w) \/ Delete(w) \/ Stat(w) \/ Make(w) \/ Open(w) \/ Create(w)

-----------------------------------------------------------------------------
DirectoryTypeOK ==
  /\ WellFormed(tree)
  /\ stable \subseteq DOMAIN tree
  /\ \A w \in Writer :
       /\ pc[w] \in {"argument", "answer", "stat", "make", "delete", "open", "create", "done"}
       /\ opts[w] \subseteq {"-p", "-c", "-q"} /\ from[w] \in {"none", "stdin", "file"}
       /\ Range(todo[w]) \subseteq Paths \cup {NoPath}
       /\ named[w] \in BOOLEAN /\ status[w] \in {0, 1} /\ asked[w] \in Nat

(* The names a command was given as arguments. *)
Argued(w) == {a.path : a \in {b \in Range(job[w].args) : b.option = "name"}}

(* makdir "create[s] a directory", makdir.c:20, with -p "all missing        *)
(* components": when it returns 0 and nobody deletes, every directory it    *)
(* was given is there, whoever made it and whatever touch made meanwhile.   *)
Given(w) ==
  Argued(w)
    \cup {l.path : l \in {m \in Range(job[w].stdin) : from[w] = "stdin" /\ m.path # <<>>}}
    \cup {l.path : l \in {m \in Range(job[w].file) : from[w] = "file" /\ m.path # <<>>}}

Asks(w, o) == \E i \in DOMAIN job[w].args : job[w].args[i].option = o

MakdirHonest ==
  (\A v \in Writer : ~ Is(v, "del") /\ ~ Is(v, "deldir")) =>
    \A w \in Writer : Is(w, "makdir") /\ pc[w] = "done" /\ status[w] = 0 /\ ~ Asks(w, "-?")
                        => \A p \in Given(w) : IsDir(p)

(* "-p ask before deleting", del.c:18: a file goes only when there was a    *)
(* line at its question, which begins with a yes as long as no line goes on *)
(* with a yes behind its seventh character.  When the names are listed on   *)
(* the same input, it is the line behind the name: they take turns, also    *)
(* when some lines are empty or answers go on behind the seventh character. *)
LateYes(w) ==
  \E i \in DOMAIN job[w].stdin : \E c \in DOMAIN job[w].stdin[i].chunks :
    c > 1 /\ job[w].stdin[i].chunks[c] = "y"

DeletedOnlyOnYes ==
  [][\A w \in Writer :
       /\ Is(w, "del") /\ "-p" \in opts[w] /\ pc[w] = "delete" /\ pc'[w] # pc[w]
       /\ DOMAIN tree' # DOMAIN tree
       => LET typed == job[w].stdin
          IN /\ asked[w] \in DOMAIN typed
             /\ LateYes(w) \/ IsPrefix(<<"y">>, typed[asked[w]].chunks)
             /\ \/ Now(w) \in Argued(w) \/ from[w] = "file"
                \/ asked[w] > 1 /\ typed[asked[w] - 1].path = Now(w)]_directoryVars
=============================================================================
