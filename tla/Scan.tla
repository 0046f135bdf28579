-------------------------------- MODULE Scan --------------------------------
(***************************************************************************)
(* The commands that read directories while others change them: qid over    *)
(* the data directory, the execution directory and the modules in memory,   *)
(* and dir, also down the tree.  Both read a block of entries at a time and *)
(* go back to the names later, when the files may be gone.                  *)
(***************************************************************************)
EXTENDS Directory, Identify

CONSTANTS
  Situations,  \* what there is at the start: tree, memory and command lines
  BlockSize,   \* entries in a block: DIRBLKSIZ / sizeof (struct dirent)
  DataDir,     \* the data directory
  ExecDir,     \* the execution directory
  Content,     \* what a file of a name holds, a File of Identify
  Address,     \* where modules may be in memory: the places of the module directory
  MaxModules,  \* entries of the module directory qid has room for: 256
  MaxSwaps,    \* bound on the changes of memory
  Faults       \* what may fail in this instance

(* opts of qid: "a" all places, "x" execution directory, "m" memory; wanted *)
(* is what its patterns match.  opts of dir: "a" all files, "s" unsorted,   *)
(* "r" recursive, "n" no descent; operands are the directories named, none  *)
(* for the data directory; depth is the number of -r=, 32 without.          *)
ReadJob == [program: {"qid", "dir"}, opts: SUBSET {"a", "x", "m", "s", "r", "n"},
            wanted: SUBSET Name, operands: Seq(Paths), depth: Nat]

ASSUME ScanAssumption ==
  /\ \A s \in Situations :
       /\ WellFormed(s.tree)
       /\ s.memory \in [Address -> Name \cup {Free}]
       /\ s.read \in ReadJob /\ s.jobs \in [Writer -> Job]
  /\ BlockSize \in Nat \ {0} /\ MaxSwaps \in Nat /\ MaxModules \in Nat
  /\ DataDir \in Paths /\ ExecDir \in Paths
  /\ Address \subseteq Nat /\ IsFiniteSet(Address)
  /\ Content \in [Name -> File]
  /\ Faults \subseteq {"read", "modules", "memory"}

VARIABLES
  read,      \* the command line of the reader
  at,        \* "open", "read", "entry", "print", "descend", "done", and in memory
             \* "module", "report", "match", "again", "name", "show"
  places,    \* what is left to look through, the present one first
  dir,       \* the directory being read
  pos,       \* the next slot to read
  block,     \* the rest of the block read last
  ended,     \* the last block was a short one, or none
  names,     \* dir: the list add_name() has built
  stack,     \* dir: for each open list_directory(), its directory and the names to go down to
  reports,   \* qid: what it has printed
  listings,  \* dir: the directories it has printed
  result,    \* the exit status so far
  memory,    \* the modules in memory
  snapshot,  \* qid: the addresses left of its copy of the module directory
  header,    \* qid: the module whose header it has read last
  display,   \* qid: the name that matched
  title,     \* qid: the name as read again to be printed
  intact,    \* what is at the present address has not changed since that header was read
  swaps,     \* changes of memory
  ever,      \* history: what has been at each address
  broken,    \* history: not all of a directory was read, or there was no room for a name
  lost       \* history: the module directory could not be read

output == <<reports, listings, result>>
residents == <<memory, swaps, ever>>
inspection == <<snapshot, header, display, title, intact, lost>>
scanVars == <<read, at, places, dir, pos, block, ended, names, stack, output, residents, inspection, broken>>
vars == <<directoryVars, scanVars>>

Place == [where: {"disk", "exec", "mem", "path"}, dir: Paths]
At(where, d) == [where |-> where, dir |-> d]

(* main() of qid and of dir. *)
PlacesOf(r) ==
  LET disk == <<At("disk", DataDir)>>
      exec == <<At("exec", ExecDir)>>
      mem == <<At("mem", DataDir)>>
  IN CASE r.program = "dir" ->
            IF r.operands = <<>> THEN <<At("path", DataDir)>>
            ELSE [i \in DOMAIN r.operands |-> At("path", r.operands[i])]
       [] r.program = "qid" /\ "a" \in r.opts -> disk \o exec \o mem
       [] r.program = "qid" /\ "a" \notin r.opts /\ r.opts \cap {"x", "m"} = {} -> disk
       [] OTHER -> (IF "x" \in r.opts THEN exec ELSE <<>>) \o (IF "m" \in r.opts THEN mem ELSE <<>>)

OpensAt(ps) == IF ps = <<>> THEN "done" ELSE IF Head(ps).where = "mem" THEN "module" ELSE "open"
DirAt(ps) == IF ps = <<>> THEN DataDir ELSE Head(ps).dir

Residents(m) == {<<a, m[a]>> : a \in Address}

Init ==
  /\ \E s \in Situations :
       DirectoryInit(s.tree, s.jobs) /\ read = s.read /\ memory = s.memory
  /\ places = PlacesOf(read)
  /\ at = OpensAt(places) /\ dir = DirAt(places)
  /\ pos = 1 /\ block = <<>> /\ ended = FALSE
  /\ names = <<>> /\ stack = <<>>
  /\ reports = <<>> /\ listings = <<>> /\ result = 0
  /\ swaps = 0 /\ ever = Residents(memory)
  /\ snapshot = {} /\ header = Free /\ display = Free /\ title = Free /\ intact = FALSE
  /\ broken = FALSE /\ lost = FALSE

Qids == read.program = "qid"
Where == Head(places).where
Sub(d, e) == IF e = Dot THEN d ELSE Append(d, e)

NextPlace ==
  /\ places' = Tail(places)
  /\ at' = OpensAt(Tail(places)) /\ dir' = DirAt(Tail(places))

-----------------------------------------------------------------------------
(* Reading a directory. *)
OpenDir ==
  /\ at = "open"
  /\ IF IsDir(dir)
       THEN /\ at' = "read" /\ pos' = 1 /\ ended' = FALSE /\ names' = <<>>
            /\ UNCHANGED <<places, dir, result>>
       ELSE /\ result' = IF Qids \/ stack = <<>> THEN 1 ELSE result
            /\ IF Qids THEN NextPlace ELSE at' = "descend" /\ UNCHANGED <<places, dir>>
            /\ UNCHANGED <<pos, ended, names>>
  /\ UNCHANGED <<directoryVars, read, block, stack,
                 reports, listings, residents, inspection, broken>>

SlotsNow == IF IsDir(dir) THEN tree[dir].size ELSE 0

(* A block holds BlockSize entries, the last one of a directory fewer. *)
ReadBlock ==
  /\ at = "read" /\ ~ ended
  /\ LET n == IF pos > SlotsNow THEN 0 ELSE Least(BlockSize, SlotsNow - pos + 1)
     IN /\ block' = [i \in 1..n |-> EntryAt(dir, pos + i - 1)]
        /\ ended' = (n < BlockSize)
  /\ pos' = pos + BlockSize
  /\ at' = "entry"
  /\ UNCHANGED <<directoryVars, read, places, dir, names, stack,
                 output, residents, inspection, broken>>

(* A failed read is taken for the end of the directory. *)
ReadFails ==
  /\ at = "read" /\ ~ ended /\ "read" \in Faults
  /\ ended' = TRUE /\ broken' = TRUE
  /\ UNCHANGED <<directoryVars, read, at, places, dir, pos, block, names, stack,
                 output, residents, inspection>>

NextBlock ==
  /\ at = "entry" /\ block = <<>>
  /\ at' = "read"
  /\ UNCHANGED <<directoryVars, read, places, dir, pos, block, ended, names, stack,
                 output, residents, inspection, broken>>

EndOfDirectory ==
  /\ at = "read" /\ ended
  /\ IF Qids THEN NextPlace ELSE at' = "print" /\ UNCHANGED <<places, dir>>
  /\ UNCHANGED <<directoryVars, read, pos, block, ended, names, stack,
                 output, residents, inspection, broken>>

(* scan_directory(): an entry that matches is opened and identified; it may *)
(* have gone since its block was read, or be a directory.                   *)
Report(name, address, answer, pieces) ==
  /\ reports' = Append(reports, [where |-> Where, dir |-> dir, name |-> name, address |-> address,
                                 says |-> answer.says, pieces |-> pieces])
  /\ result' = IF answer.status = 0 THEN result ELSE 1
  /\ UNCHANGED listings

(* Mutant of QidEntry: a deleted entry is taken for the end of the block. *)
QidEntryStops ==
  /\ at = "entry" /\ Qids /\ block # <<>>
  /\ LET e == Head(block)
     IN /\ IF e \in {Free, Dot} \/ e \notin read.wanted
             THEN UNCHANGED output
             ELSE Report(e, 0, IF IsFile(Sub(dir, e)) THEN Qid(Content[e]) ELSE Failed, <<>>)
        /\ block' = IF e = Free THEN <<>> ELSE Tail(block)
  /\ UNCHANGED <<directoryVars, read, at, places, dir, pos, ended, names, stack,
                 residents, inspection, broken>>

QidEntry ==
  /\ at = "entry" /\ Qids /\ block # <<>>
  /\ LET e == Head(block)
     IN IF e \in {Free, Dot} \/ e \notin read.wanted
          THEN UNCHANGED output
          ELSE Report(e, 0, IF IsFile(Sub(dir, e)) THEN Qid(Content[e]) ELSE Failed, <<>>)
  /\ block' = Tail(block)
  /\ UNCHANGED <<directoryVars, read, at, places, dir, pos, ended, names, stack,
                 residents, inspection, broken>>

-----------------------------------------------------------------------------
(* scan_memory(): a copy of the module directory first, as much as there is *)
(* room for, then each module of it.  Every piece is an F$CpyMem of its own.  *)
Snapshot ==
  /\ at = "module"
  /\ snapshot' = {a \in Address : a <= MaxModules /\ memory[a] # Free}
  /\ IF snapshot' = {} THEN NextPlace ELSE at' = "report" /\ UNCHANGED <<places, dir>>
  /\ UNCHANGED <<directoryVars, read, pos, block, ended, names, stack, output, residents, broken>>
  /\ UNCHANGED <<header, display, title, intact, lost>>

ModulesFail ==
  /\ at = "module" /\ "modules" \in Faults
  /\ NextPlace
  /\ result' = 1 /\ lost' = TRUE
  /\ UNCHANGED <<directoryVars, read, pos, block, ended, names, stack,
                 reports, listings, residents, broken>>
  /\ UNCHANGED <<snapshot, header, display, title, intact>>

Present == Min(snapshot)

NextModule ==
  /\ snapshot' = snapshot \ {Present}
  /\ IF snapshot' = {} THEN NextPlace ELSE at' = "report" /\ UNCHANGED <<places, dir>>

ReadHeader(next) ==
  /\ header' = memory[Present] /\ intact' = TRUE
  /\ at' = next
  /\ UNCHANGED <<snapshot, places, dir>>

(* What is read by an offset of that header: what belongs to it, or, once   *)
(* something else is there, anything, or nothing.                           *)
Finds == IF intact THEN {header} ELSE Name \cup {Free}

Header ==
  /\ at = "report"
  /\ IF memory[Present] # Free THEN ReadHeader("match")
     ELSE NextModule /\ UNCHANGED <<header, intact>>
  /\ UNCHANGED <<directoryVars, read, pos, block, ended, names, stack, output, residents, broken>>
  /\ UNCHANGED <<display, title, lost>>

(* Mutant of Match: a module that does not match is looked at again. *)
MatchAgain ==
  /\ at = "match"
  /\ \E n \in Finds \cap read.wanted : display' = n
  /\ at' = "again"
  /\ UNCHANGED <<directoryVars, read, places, dir, pos, block, ended, names, stack,
                 output, residents, broken>>
  /\ UNCHANGED <<snapshot, header, title, intact, lost>>

Match ==
  /\ at = "match"
  /\ \E n \in Finds :
       IF n \in read.wanted
         THEN display' = n /\ at' = "again" /\ UNCHANGED <<snapshot, places, dir>>
         ELSE NextModule /\ UNCHANGED display
  /\ UNCHANGED <<directoryVars, read, pos, block, ended, names, stack, output, residents, broken>>
  /\ UNCHANGED <<header, title, intact, lost>>

(* identify() reads everything again; what is no module there fails. *)
HeaderAgain ==
  /\ at = "again"
  /\ IF memory[Present] # Free THEN ReadHeader("name") /\ UNCHANGED output
     ELSE /\ Report(display, Present, Failed, <<>>)
          /\ NextModule /\ UNCHANGED <<header, intact>>
  /\ UNCHANGED <<directoryVars, read, pos, block, ended, names, stack, residents, broken>>
  /\ UNCHANGED <<display, title, lost>>

NameAgain ==
  /\ at = "name"
  /\ title' \in Finds
  /\ at' = "show"
  /\ UNCHANGED <<directoryVars, read, places, dir, pos, block, ended, names, stack,
                 output, residents, broken>>
  /\ UNCHANGED <<snapshot, header, display, intact, lost>>

(* The fields of the type, in the long form.  The names some of them lead   *)
(* to are read after them and taken with them here: of a module that has    *)
(* changed nothing is promised from there on anyway.                        *)
Show ==
  /\ at = "show"
  /\ \E fields \in Finds :
       Report(display, Present, Says("module", 0, 0, "none"), <<header, title, fields>>)
  /\ NextModule
  /\ UNCHANGED <<directoryVars, read, pos, block, ended, names, stack, residents, broken>>
  /\ UNCHANGED <<header, display, title, intact, lost>>

(* Other processes load and unlink modules while qid looks at them. *)
Swap ==
  /\ swaps < MaxSwaps /\ at \in {"module", "report", "match", "again", "name", "show"}
  /\ \E a \in Address, m \in Name \cup {Free} :
       /\ m # memory[a]
       /\ memory' = [memory EXCEPT ![a] = m]
       /\ intact' = (intact /\ (snapshot # {} => a # Present))
  /\ swaps' = swaps + 1
  /\ ever' = ever \cup Residents(memory')
  /\ UNCHANGED <<directoryVars, read, at, places, dir, pos, block, ended, names, stack,
                 output, broken>>
  /\ UNCHANGED <<snapshot, header, display, title, lost>>

-----------------------------------------------------------------------------
(* The names of a list that come before a name: the first ones that are     *)
(* less by strcmp().                                                        *)
Before(list, n) ==
  CHOOSE i \in 0..Len(list) :
    /\ \A j \in 1..i : list[j] < n
    /\ i = Len(list) \/ ~ list[i + 1] < n

(* Mutant of AddName: a list that is not empty keeps its first name. *)
AddNameBehind(list, n) ==
  LET i == IF "s" \in read.opts \/ list = <<>> THEN 0 ELSE IF Before(list, n) = 0 THEN 1 ELSE Before(list, n)
  IN SubSeq(list, 1, i) \o <<n>> \o SubSeq(list, i + 1, Len(list))

(* add_name(): in order, or in front of the list. *)
AddName(list, n) ==
  LET i == IF "s" \in read.opts THEN 0 ELSE Before(list, n)
  IN SubSeq(list, 1, i) \o <<n>> \o SubSeq(list, i + 1, Len(list))

Shown(e) == e # Free /\ (e = Dot => "a" \in read.opts /\ "r" \notin read.opts)

DirEntry ==
  /\ at = "entry" /\ ~ Qids /\ block # <<>>
  /\ LET e == Head(block)
     IN names' = IF Shown(e) THEN AddName(names, e) ELSE names
  /\ block' = Tail(block)
  /\ UNCHANGED <<directoryVars, read, at, places, dir, pos, ended, stack,
                 output, residents, inspection, broken>>

(* Without memory for a name, add_name() leaves it out and says nothing. *)
NoMemory ==
  /\ at = "entry" /\ ~ Qids /\ block # <<>> /\ "memory" \in Faults
  /\ Shown(Head(block))
  /\ block' = Tail(block)
  /\ broken' = TRUE
  /\ UNCHANGED <<directoryVars, read, at, places, dir, pos, ended, names, stack,
                 output, residents, inspection>>

(* Mutant of PrintNames: one level deeper than -r= says. *)
PrintNamesDeeper ==
  /\ at = "print"
  /\ listings' = Append(listings, [dir |-> dir, names |-> names])
  /\ stack' = IF "r" \in read.opts /\ Len(stack) <= read.depth
              THEN <<[dir |-> dir, names |-> names]>> \o stack
              ELSE stack
  /\ at' = "descend"
  /\ UNCHANGED <<directoryVars, read, places, dir, pos, block, ended, names,
                 reports, result, residents, inspection, broken>>

(* The rest of list_directory(): with -n -r the name of the directory only; *)
(* else the names, and with -r the way down, as deep as -r= allows.         *)
PrintNames ==
  /\ at = "print"
  /\ IF {"r", "n"} \subseteq read.opts
       THEN UNCHANGED <<listings, stack>>
       ELSE /\ listings' = Append(listings, [dir |-> dir, names |-> names])
            /\ stack' = IF "r" \in read.opts /\ Len(stack) < read.depth
                        THEN <<[dir |-> dir, names |-> names]>> \o stack
                        ELSE stack
  /\ at' = "descend"
  /\ UNCHANGED <<directoryVars, read, places, dir, pos, block, ended, names,
                 reports, result, residents, inspection, broken>>

(* entry_is_directory() asks for the kind of a name when its turn comes. *)
Descend ==
  /\ at = "descend" /\ stack # <<>> /\ Head(stack).names # <<>>
  /\ LET top == Head(stack)
         child == Sub(top.dir, Head(top.names))
     IN /\ stack' = <<[top EXCEPT !.names = Tail(@)]>> \o Tail(stack)
        /\ IF IsDir(child) THEN at' = "open" /\ dir' = child ELSE UNCHANGED <<at, dir>>
  /\ UNCHANGED <<directoryVars, read, places, pos, block, ended, names,
                 output, residents, inspection, broken>>

Ascend ==
  /\ at = "descend"
  /\ \/ /\ stack # <<>> /\ Head(stack).names = <<>>
        /\ stack' = Tail(stack)
        /\ UNCHANGED <<at, places, dir>>
     \/ /\ stack = <<>> /\ NextPlace
        /\ UNCHANGED stack
  /\ UNCHANGED <<directoryVars, read, pos, block, ended, names,
                 output, residents, inspection, broken>>

Read ==
  \/ OpenDir \/ ReadBlock \/ NextBlock \/ EndOfDirectory
  \/ QidEntry \/ Snapshot \/ Header \/ Match \/ HeaderAgain \/ NameAgain \/ Show
  \/ DirEntry \/ PrintNames \/ Descend \/ Ascend

Fail == ReadFails \/ ModulesFail \/ NoMemory

WriteStep(w) == Write(w) /\ UNCHANGED scanVars

Next == Read \/ Fail \/ Swap \/ \E w \in Writer : WriteStep(w)

Spec == Init /\ [][Next]_vars

(* Every command goes on; nothing makes a read fail or a module move. *)
FairSpec == Spec /\ WF_vars(Read) /\ \A w \in Writer : WF_vars(WriteStep(w))

-----------------------------------------------------------------------------
TypeOK ==
  /\ DirectoryTypeOK
  /\ read \in ReadJob
  /\ at \in {"open", "read", "entry", "print", "descend", "module", "report",
             "match", "again", "name", "show", "done"}
  /\ Range(places) \subseteq Place /\ dir \in Paths
  /\ Range(block) \subseteq Name \cup {Free, Dot} /\ Len(block) <= BlockSize
  /\ Range(names) \subseteq Name \cup {Dot}
  /\ Len(stack) <= read.depth /\ result \in {0, 1}
  /\ memory \in [Address -> Name \cup {Free}] /\ Residents(memory) \subseteq ever
  /\ snapshot \subseteq Address /\ {header, display, title} \subseteq Name \cup {Free}
  /\ intact \in BOOLEAN /\ broken \in BOOLEAN /\ lost \in BOOLEAN

(* A file that was there all the time and whose name matches is reported    *)
(* exactly once, however many entries are deleted and made around it and    *)
(* in whichever block it is; the same for a module that stayed in memory.   *)
Times(where, name, address) ==
  Cardinality({i \in DOMAIN reports : reports[i].where = where /\ reports[i].name = name
                                        /\ reports[i].address = address})

DiskReported ==
  \A i \in DOMAIN PlacesOf(read) :
    LET p == PlacesOf(read)[i]
    IN p.where # "mem" =>
         \A n \in read.wanted : Append(p.dir, n) \in stable => Times(p.where, n, 0) = 1

Been(a) == {r \in ever : r[1] = a}

MemoryReported ==
  (\E i \in DOMAIN PlacesOf(read) : PlacesOf(read)[i].where = "mem") =>
    \A a \in Address :
      a <= MaxModules /\ Cardinality(Been(a)) = 1 /\ memory[a] \in read.wanted
        => Times("mem", memory[a], a) = 1

(* A header qid prints from memory was there, and it is printed with the    *)
(* name and the fields of another module only if what is at its address has *)
(* changed.  The exit status is that of the reports: 0 only when none of    *)
(* them failed and the module directory was read.                           *)
Truthful ==
  /\ \A r \in Range(reports) : r.where = "mem" /\ r.says = "module" =>
       /\ <<r.address, r.pieces[1]>> \in ever
       /\ Cardinality(Been(r.address)) = 1 => Range(r.pieces) = {r.name}
  /\ result = 0 => ~ lost /\ \A r \in Range(reports) : r.says \in {"module", "rof", "elf"}

QidReportsStable ==
  Qids /\ at = "done" =>
    Truthful /\ (~ lost => MemoryReported) /\ (~ broken => DiskReported)

(* dir prints each directory in order (README of dir: -s keeps another),    *)
(* with every name that was there all the time once, and with -r every      *)
(* directory that was there all the time, as deep as -r= allows, once for   *)
(* each operand that leads to it.                                           *)
Sorted(list) == \A i, j \in DOMAIN list : i < j => list[i] <= list[j]

Complete(l) ==
  \A p \in stable : p # <<>> /\ Front(p) = l.dir =>
    Cardinality({i \in DOMAIN l.names : l.names[i] = Last(p)}) = 1

ReachedFrom(o) ==
  {d \in stable : IsDir(d) /\ IsPrefix(o, d)
                    /\ Len(d) - Len(o) <= IF "r" \in read.opts THEN read.depth ELSE 0}

Operands(d) == {i \in DOMAIN PlacesOf(read) : d \in ReachedFrom(PlacesOf(read)[i].dir)}

DirListsStable ==
  ~ Qids /\ at = "done" /\ ~ broken =>
    /\ \A l \in Range(listings) : ("s" \notin read.opts => Sorted(l.names)) /\ Complete(l)
    /\ ~ {"r", "n"} \subseteq read.opts =>
         \A d \in stable : IsDir(d) =>
           Cardinality({k \in DOMAIN listings : listings[k].dir = d}) = Cardinality(Operands(d))

(* Every command ends, also dir -r in a tree that others are changing. *)
Termination == <>(at = "done" /\ \A w \in Writer : pc[w] = "done")
=============================================================================
