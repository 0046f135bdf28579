----------------------------- MODULE ModuleDir ------------------------------
(***************************************************************************)
(* The tools that take and give back the link counts the kernel keeps:      *)
(* load, link, unlink, save, dump -m for memory modules, iniz and deiniz    *)
(* for devices, which go the same way through attach() and detach().        *)
(* Several of them run at once; a call of one name is several kernel calls, *)
(* and between two of them the others run.                                  *)
(*                                                                         *)
(* save also writes a file: with -x through _os_open(), _os_delete(),       *)
(* _os_create() and one _os_write(), without it through fopen(), fwrite()   *)
(* and an fclose() that writes what the stdio buffer still holds and whose  *)
(* result nobody looks at. Of a file the model keeps two pieces: what       *)
(* fwrite() has written when it returns, and what is left to fclose().      *)
(***************************************************************************)
EXTENDS Naturals, Sequences, FiniteSets

CONSTANTS
  Process,      \* the commands that may run at once
  Object,       \* modules and devices
  File,         \* the files save may write
  Jobs,         \* command lines, see Job
  Present,      \* the link counts before: 0 for an object that is not there
  NewDevice,    \* objects that attach() can make present
  NoFile,       \* what a file holds that is not there
  Small,        \* modules that fit in the stdio buffer: fwrite() writes none of it
  Faults,       \* the kernel calls that may fail without a reason in the model
  MaxRuns       \* bound on the commands run in one behaviour

Command == {"load", "link", "unlink", "save", "dump", "iniz", "deiniz"}

(* One call: the object, and for save the file. *)
Call == [object: Object, file: File]

(* go: load -i; rewrite: save -r; exec: save -x. *)
Job == [command: Command, calls: Seq(Call), go: BOOLEAN, rewrite: BOOLEAN, exec: BOOLEAN]

(* What the two pieces of a file hold: the file that was there before, an   *)
(* object that was saved, or nothing yet. A file that is not there has none. *)
Piece == {"cut", "old"} \cup Object
Content == [1..2 -> Piece]
Whole(piece) == [i \in 1..2 |-> piece]

ASSUME ModuleDirAssumption ==
  /\ IsFiniteSet(Process)
  /\ Jobs \subseteq Job /\ Jobs # {}
  /\ Present \in [Object -> Nat]
  /\ NewDevice \subseteq Object
  /\ Small \subseteq Object
  /\ NoFile \notin Content
  /\ Faults \subseteq {"link", "load", "unlink", "open", "delete", "create", "write"}
  /\ MaxRuns \in Nat


(* The save that created or emptied a file last: the objects the processes  *)
(* with an open path to it are saving since, and what it said in the end.   *)
Made == [by: Process, object: Object, exec: BOOLEAN, from: SUBSET Object,
         said: {"nothing", "saved", "failed"}]
NotMade == [said |-> "nobody"]

VARIABLES
  count,    \* the kernel's link counts, 0 when an object is not in memory
  text,     \* what each file holds, NoFile when it is not there
  job,      \* the command line of each process
  pc,       \* "idle", "call", "release", "check", "delete", "create", "write", "close"
  left,     \* the calls a process has not finished
  status,   \* its exit status so far
  before,   \* history: the count of the object when its call began
  kept,     \* history: links that calls left behind
  writers,  \* the processes whose open path leads to the file of that name
  made,     \* history: the save that created each file, see Made
  runs      \* number of commands started

tool == <<job, pc, left, status, before, runs>>
disk == <<text, writers, made>>
vars == <<count, tool, kept, disk>>

Init ==
  /\ count = Present
  /\ text \in [File -> {NoFile, Whole("old")}]
  /\ job = [p \in Process |-> CHOOSE j \in Jobs : TRUE]
  /\ pc = [p \in Process |-> "idle"]
  /\ left = [p \in Process |-> <<>>]
  /\ status = [p \in Process |-> 0]
  /\ before = [p \in Process |-> 0]
  /\ kept = [o \in Object |-> 0]
  /\ writers = [f \in File |-> {}]
  /\ made = [f \in File |-> NotMade]
  /\ runs = 0

Now(p) == Head(left[p])

-----------------------------------------------------------------------------
(* main(): one call after the other; a failure is remembered in the status, *)
(* and only load without -i stops at it.                                    *)

Return(p, s) ==
  /\ status' = [status EXCEPT ![p] = IF s = 0 THEN @ ELSE 1]
  /\ LET rest == IF job[p].command = "load" /\ s # 0 /\ ~ job[p].go
                 THEN <<>> ELSE Tail(left[p])
     IN /\ left' = [left EXCEPT ![p] = rest]
        /\ pc' = [pc EXCEPT ![p] = IF rest = <<>> THEN "idle" ELSE "call"]
  /\ UNCHANGED <<job, before, runs>>

Goto(p, where) ==
  /\ pc' = [pc EXCEPT ![p] = where]
  /\ UNCHANGED <<job, left, status, runs>>

Run(p) ==
  /\ pc[p] = "idle"
  /\ runs < MaxRuns
  /\ runs' = runs + 1
  /\ job' \in {[job EXCEPT ![p] = j] : j \in Jobs}
  /\ left' = [left EXCEPT ![p] = job'[p].calls]
  /\ pc' = [pc EXCEPT ![p] = IF left'[p] = <<>> THEN "idle" ELSE "call"]
  /\ status' = [status EXCEPT ![p] = IF left'[p] = <<>> THEN 1 ELSE 0]
  /\ UNCHANGED <<count, before, kept, disk>>

-----------------------------------------------------------------------------
(* _os_link() and attach() fail for an object that is not there; attach()   *)
(* makes a known device present.                                            *)
Found(p) ==
  \/ count[Now(p).object] > 0
  \/ job[p].command \in {"iniz", "deiniz"} /\ Now(p).object \in NewDevice

(* dump passes its uninitialized type and attributes to _os_link(), which   *)
(* may then not find the module.                                            *)
LinkFails(p) ==
  /\ pc[p] = "call" /\ job[p].command # "load"
  /\ ~ Found(p) \/ job[p].command = "dump" \/ "link" \in Faults
  /\ Return(p, 1)
  /\ UNCHANGED <<count, kept, disk>>

Taken(p) == count' = [count EXCEPT ![Now(p).object] = @ + 1]

Kept(p) == kept' = [kept EXCEPT ![Now(p).object] = @ + 1]

(* link and iniz return with the link they took, and so does dump -m, which *)
(* has no call that gives the link back; before it prints the module it     *)
(* returns 1 for an offset that lies outside.                               *)
TakeAndKeep(p) ==
  /\ pc[p] = "call" /\ job[p].command \in {"link", "iniz", "dump"}
  /\ Found(p)
  /\ Taken(p)
  /\ Kept(p)
  /\ \E s \in {0, 1} : (s = 1 => job[p].command = "dump") /\ Return(p, s)
  /\ UNCHANGED disk

(* Mutant of Take: the object is looked up and not linked. *)
TakeUncounted(p) ==
  /\ pc[p] = "call" /\ job[p].command \in {"unlink", "deiniz", "save"}
  /\ Found(p)
  /\ before' = [before EXCEPT ![p] = count[Now(p).object]]
  /\ IF job[p].command = "save"
       THEN Goto(p, "check") /\ Kept(p)
       ELSE Goto(p, "release") /\ UNCHANGED kept
  /\ UNCHANGED <<count, disk>>

(* unlink, deiniz and save take a link to get at the object. *)
Take(p) ==
  /\ pc[p] = "call" /\ job[p].command \in {"unlink", "deiniz", "save"}
  /\ Found(p)
  /\ Taken(p)
  /\ before' = [before EXCEPT ![p] = count[Now(p).object]]
  /\ IF job[p].command = "save"
       THEN Goto(p, "check") /\ Kept(p)
       ELSE Goto(p, "release") /\ UNCHANGED kept
  /\ UNCHANGED disk

(* Mutant of Release: the call gives back two links, its own and another's. *)
ReleaseTwo(p) ==
  /\ pc[p] = "release"
  /\ count' = [count EXCEPT ![Now(p).object] = IF @ > 1 THEN @ - 2 ELSE 0]
  /\ Return(p, 0)
  /\ UNCHANGED <<kept, disk>>

(* _os_unlink() or detach(): the link taken by the call itself goes.        *)
Release(p) ==
  /\ pc[p] = "release"
  /\ count' = [count EXCEPT ![Now(p).object] = @ - 1]
  /\ Return(p, 0)
  /\ UNCHANGED <<kept, disk>>

(* It fails, and the link the call took stays behind. *)
ReleaseFails(p) ==
  /\ pc[p] = "release"
  /\ "unlink" \in Faults
  /\ Kept(p)
  /\ Return(p, 1)
  /\ UNCHANGED <<count, disk>>

Load(p) ==
  /\ pc[p] = "call" /\ job[p].command = "load"
  /\ Taken(p)
  /\ Kept(p)
  /\ Return(p, 0)
  /\ UNCHANGED disk

LoadFails(p) ==
  /\ pc[p] = "call" /\ job[p].command = "load"
  /\ "load" \in Faults
  /\ Return(p, 1)
  /\ UNCHANGED <<count, kept, disk>>

-----------------------------------------------------------------------------
(* save: the file named by -f= or by the module.                            *)

Target(p) == text[Now(p).file]

(* The look for an existing file, which may also find none because it may   *)
(* not be read. With -r the plain form does not look.                       *)
CheckFile(p) ==
  /\ pc[p] = "check"
  /\ UNCHANGED <<count, kept, disk>>
  /\ \/ /\ Target(p) # NoFile /\ ~ job[p].rewrite
        /\ Return(p, 1)
     \/ /\ Target(p) # NoFile /\ job[p].rewrite /\ job[p].exec
        /\ Goto(p, "delete") /\ UNCHANGED before
     \/ /\ Target(p) = NoFile \/ "open" \in Faults \/ (job[p].rewrite /\ ~ job[p].exec)
        /\ Goto(p, "create") /\ UNCHANGED before

(* save -x -r deletes the file it saw: whoever has it open writes on where  *)
(* no name leads to.                                                        *)
DeleteFile(p) ==
  /\ pc[p] = "delete"
  /\ Target(p) # NoFile
  /\ text' = [text EXCEPT ![Now(p).file] = NoFile]
  /\ writers' = [writers EXCEPT ![Now(p).file] = {}]
  /\ made' = [made EXCEPT ![Now(p).file] = NotMade]
  /\ Goto(p, "create") /\ UNCHANGED before
  /\ UNCHANGED <<count, kept>>

DeleteFails(p) ==
  /\ pc[p] = "delete"
  /\ Target(p) = NoFile \/ "delete" \in Faults
  /\ Return(p, 1)
  /\ UNCHANGED <<count, kept, disk>>

(* A new path to the file, which is empty now. *)
Emptied(p) ==
  /\ text' = [text EXCEPT ![Now(p).file] = Whole("cut")]
  /\ writers' = [writers EXCEPT ![Now(p).file] = @ \cup {p}]
  /\ made' = [made EXCEPT ![Now(p).file] =
               [by |-> p, object |-> Now(p).object, exec |-> job[p].exec,
                from |-> {Now(q).object : q \in writers'[Now(p).file]}, said |-> "nothing"]]

(* Mutant of CreateFile: -x creates like fopen(), over what is there. *)
CreateAnyway(p) ==
  /\ pc[p] = "create"
  /\ Emptied(p)
  /\ Goto(p, "write") /\ UNCHANGED before
  /\ UNCHANGED <<count, kept>>

(* _os_create() refuses an existing file, fopen(, "wb") empties it. *)
CreateFile(p) ==
  /\ pc[p] = "create"
  /\ job[p].exec => Target(p) = NoFile
  /\ Emptied(p)
  /\ Goto(p, "write") /\ UNCHANGED before
  /\ UNCHANGED <<count, kept>>

CreateFails(p) ==
  /\ pc[p] = "create"
  /\ (job[p].exec /\ Target(p) # NoFile) \/ "create" \in Faults
  /\ Return(p, 1)
  /\ UNCHANGED <<count, kept, disk>>

(* Pieces of the image go to the file of that name, or, when another save   *)
(* -x -r has deleted it, to where nobody sees them.                         *)
Put(p, pieces) ==
  text' = [text EXCEPT ![Now(p).file] =
             IF p \in writers[Now(p).file]
               THEN [i \in 1..2 |-> IF i \in pieces THEN Now(p).object ELSE @[i]] ELSE @]

(* The path is closed, and the call returns with or without an error. *)
Finish(p, s) ==
  /\ writers' = [writers EXCEPT ![Now(p).file] = @ \ {p}]
  /\ made' = [made EXCEPT ![Now(p).file] =
               IF p \in writers[Now(p).file] /\ @.by = p
                 THEN [@ EXCEPT !.said = IF s = 0 THEN "saved" ELSE "failed"] ELSE @]
  /\ Return(p, s)
  /\ UNCHANGED <<count, kept>>

(* _os_write() of the image. *)
WriteImage(p) ==
  /\ pc[p] = "write" /\ job[p].exec
  /\ Put(p, {1, 2})
  /\ Finish(p, 0)

(* What fwrite() writes of a module that does not fit in its buffer. *)
Flushed(p) == IF Now(p).object \in Small THEN {} ELSE {1}

WriteBuffered(p) ==
  /\ pc[p] = "write" /\ ~ job[p].exec
  /\ Put(p, Flushed(p))
  /\ Goto(p, "close") /\ UNCHANGED <<before, count, kept, writers, made>>

(* Mutant of WriteFails: fwrite() is as little looked at as fclose() is. *)
WriteUnchecked(p) ==
  /\ pc[p] = "write" /\ "write" \in Faults
  /\ job[p].exec \/ Flushed(p) # {}
  /\ \E pieces \in {{}, {1}} : Put(p, pieces)
  /\ Finish(p, IF job[p].exec THEN 1 ELSE 0)

(* An error or a short count of either call, with some of it written. *)
WriteFails(p) ==
  /\ pc[p] = "write" /\ "write" \in Faults
  /\ job[p].exec \/ Flushed(p) # {}
  /\ \E pieces \in {{}, {1}} : Put(p, pieces)
  /\ Finish(p, 1)

(* fclose() writes the rest if it can; the call returns 0 either way.       *)
CloseFile(p) ==
  /\ pc[p] = "close"
  /\ \E pieces \in {{}, {1}, {1, 2}} :
       /\ "write" \in Faults \/ pieces = {1, 2}
       /\ Put(p, pieces \ Flushed(p))
  /\ Finish(p, 0)

Step(p) ==
  \/ Run(p)
  \/ LinkFails(p) \/ TakeAndKeep(p) \/ Take(p) \/ Release(p) \/ ReleaseFails(p)
  \/ Load(p) \/ LoadFails(p)
  \/ CheckFile(p) \/ DeleteFile(p) \/ DeleteFails(p) \/ CreateFile(p) \/ CreateFails(p)
  \/ WriteImage(p) \/ WriteBuffered(p) \/ WriteFails(p) \/ CloseFile(p)

Next == \E p \in Process : Step(p)

Spec == Init /\ [][Next]_vars

-----------------------------------------------------------------------------
(* The processes between the two kernel calls of unlink or deiniz. *)
Holding(o) == {p \in Process : pc[p] = "release" /\ Now(p).object = o}

TypeOK ==
  /\ count \in [Object -> Nat]
  /\ text \in [File -> Content \cup {NoFile}]
  /\ job \in [Process -> Jobs]
  /\ pc \in [Process -> {"idle", "call", "release", "check", "delete", "create", "write", "close"}]
  /\ left \in [Process -> Seq(Call)]
  /\ status \in [Process -> {0, 1}]
  /\ before \in [Process -> Nat]
  /\ kept \in [Object -> Nat]
  /\ writers \in [File -> SUBSET Process]
  /\ made \in [File -> Made \cup {NotMade}]
  /\ runs \in 0..MaxRuns
  /\ \A p \in Process : pc[p] # "idle" <=> left[p] # <<>>

(* However many commands run at once, the count of an object is what it was *)
(* at the start, plus the links that load, link, iniz, save and dump left   *)
(* behind or unlink and deiniz failed to give back, plus one for each       *)
(* unlink and deiniz under way: none is lost or given back twice.           *)
CountExact ==
  \A o \in Object : count[o] = Present[o] + kept[o] + Cardinality(Holding(o))

(* unlink "unlink[s] modules from memory", unlink.c:12, and deiniz          *)
(* "detach[es] devices", deiniz.c:6: a call that nothing interrupts leaves  *)
(* a linked object with a lower count than it found.                        *)
Releases ==
  [][\A p \in Process :
       /\ pc[p] = "release" /\ left'[p] # left[p]
       /\ before[p] > 0 /\ Cardinality(Process) = 1
       => count'[Now(p).object] < before[p]]_vars

(* "-r rewrite files", save.c:11: without -r no step of save empties or     *)
(* changes a file that is there, unless this very call created it.          *)
OldFilesKept ==
  [][\A p \in Process :
       /\ job[p].command = "save" /\ ~ job[p].rewrite
       /\ pc'[p] # pc[p] \/ left'[p] # left[p]
       => \A f \in File :
            text[f] # NoFile /\ p \notin writers[f] => text'[f] = text[f]]_vars

(* "saved", save.c:92. When the save that created or emptied a file last    *)
(* said so, the file is there and holds nothing but pieces of objects that  *)
(* were being saved to it since, its own if it was alone; a save -x left    *)
(* all of it. Of a plain save only what fclose() had to write may lack,     *)
(* because nobody looks at fclose(), save.c:90: the end of the module, or   *)
(* all of one that fits in the buffer.                                      *)
SaveHonest ==
  \A f \in File : made[f].said = "saved" =>
    /\ text[f] # NoFile
    /\ text[f][1] \in made[f].from \cup
         (IF made[f].object \in Small /\ ~ made[f].exec THEN {"cut"} ELSE {})
    /\ text[f][2] \in made[f].from \cup (IF made[f].exec THEN {} ELSE {"cut"})
=============================================================================
