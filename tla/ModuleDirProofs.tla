-------------------------- MODULE ModuleDirProofs ---------------------------
(***************************************************************************)
(* Theorems about ModuleDir, for every finite set of processes and every    *)
(* set of objects, command lines and faults.                                *)
(***************************************************************************)
EXTENDS ModuleDir, FiniteSetTheorems, SequenceTheorems, TLAPS

(* The part of TypeOK about the processes. *)
ControlOK ==
  /\ job \in [Process -> Jobs]
  /\ pc \in [Process -> {"idle", "call", "release", "check", "delete", "create", "write", "close"}]
  /\ left \in [Process -> Seq(Call)]
  /\ status \in [Process -> {0, 1}]
  /\ before \in [Process -> Nat]
  /\ runs \in 0..MaxRuns
  /\ \A p \in Process : pc[p] # "idle" <=> left[p] # <<>>

(* The part about the kernel. *)
KernelOK ==
  /\ count \in [Object -> Nat]
  /\ kept \in [Object -> Nat]

(* The part about the files. *)
DiskOK ==
  /\ text \in [File -> Content \cup {NoFile}]
  /\ writers \in [File -> SUBSET Process]
  /\ made \in [File -> Made \cup {NotMade}]

LEMMA TypeParts == TypeOK <=> ControlOK /\ KernelOK /\ DiskOK
  BY DEF TypeOK, ControlOK, KernelOK, DiskOK

(* Nobody but p moves. *)
Alone(p) == \A q \in Process \ {p} : pc'[q] = pc[q] /\ left'[q] = left[q]

LEMMA Working ==
  ASSUME ControlOK, NEW p \in Process, pc[p] # "idle"
  PROVE  /\ left[p] # <<>>
         /\ Now(p) \in Call
         /\ Now(p).object \in Object
         /\ Now(p).file \in File
         /\ Tail(left[p]) \in Seq(Call)
<1>1. left[p] # <<>> /\ left[p] \in Seq(Call)
  BY DEF ControlOK
<1>2. Now(p) \in Call /\ Tail(left[p]) \in Seq(Call)
  BY <1>1, HeadTailProperties DEF Now
<1> QED
  BY <1>1, <1>2 DEF Call

-----------------------------------------------------------------------------
(* What the helpers of the steps leave behind. *)

LEMMA ReturnControl ==
  ASSUME ControlOK, NEW p \in Process, pc[p] # "idle", NEW s \in {0, 1}, Return(p, s)
  PROVE  ControlOK' /\ Alone(p) /\ pc'[p] \in {"idle", "call"}
<1> DEFINE rest == IF job[p].command = "load" /\ s # 0 /\ ~ job[p].go
                   THEN <<>> ELSE Tail(left[p])
<1>1. rest \in Seq(Call)
  BY Working, EmptySeq
<1>2. /\ left' = [left EXCEPT ![p] = rest]
      /\ pc' = [pc EXCEPT ![p] = IF rest = <<>> THEN "idle" ELSE "call"]
      /\ status' = [status EXCEPT ![p] = IF s = 0 THEN @ ELSE 1]
      /\ UNCHANGED <<job, before, runs>>
  BY DEF Return
<1> HIDE DEF rest
<1>3. left'[p] = rest /\ pc'[p] = (IF rest = <<>> THEN "idle" ELSE "call")
  BY <1>2 DEF ControlOK
<1>4. Alone(p)
  BY <1>2 DEF Alone, ControlOK
<1>5. status' \in [Process -> {0, 1}]
  BY <1>2 DEF ControlOK
<1> QED
  BY <1>1, <1>2, <1>3, <1>4, <1>5 DEF ControlOK, Alone

LEMMA GotoControl ==
  ASSUME ControlOK, NEW p \in Process, pc[p] # "idle",
         NEW where \in {"release", "check", "delete", "create", "write", "close"}, Goto(p, where),
         before' \in [Process -> Nat]
  PROVE  ControlOK' /\ Alone(p) /\ pc'[p] = where /\ left' = left
  BY DEF Goto, ControlOK, Alone

LEMMA TakenTyped ==
  ASSUME KernelOK, NEW p \in Process, Now(p).object \in Object
  PROVE  /\ Taken(p) => count' \in [Object -> Nat]
         /\ Kept(p) => kept' \in [Object -> Nat]
  BY DEF KernelOK, Taken, Kept

-----------------------------------------------------------------------------
(* The processes between two kernel calls. *)

LEMMA HoldingFinite ==
  ASSUME NEW o \in Object
  PROVE  IsFiniteSet(Holding(o)) /\ Cardinality(Holding(o)) \in Nat
<1>1. Holding(o) \in SUBSET Process
  BY DEF Holding
<1> QED
  BY <1>1, ModuleDirAssumption, FS_Subset, FS_CardinalityType

LEMMA HoldingSame ==
  ASSUME NEW p \in Process, Alone(p), pc[p] # "release", pc'[p] # "release", NEW o \in Object
  PROVE  Holding(o)' = Holding(o)
  BY DEF Holding, Alone, Now

(* A call that got its object between the two is one more. *)
LEMMA HoldingEnter ==
  ASSUME NEW p \in Process, Alone(p), pc[p] # "release", pc'[p] = "release",
         left'[p] = left[p], NEW o \in Object
  PROVE  Cardinality(Holding(o)') =
           Cardinality(Holding(o)) + IF o = Now(p).object THEN 1 ELSE 0
<1>1. p \notin Holding(o)
  BY DEF Holding
<1>2. Holding(o)' = Holding(o) \cup (IF o = Now(p).object THEN {p} ELSE {})
  BY DEF Holding, Alone, Now
<1>3. CASE o = Now(p).object
  BY <1>1, <1>2, <1>3, HoldingFinite, FS_AddElement
<1>4. CASE o # Now(p).object
  <2>1. Holding(o)' = Holding(o)
    BY <1>2, <1>4
  <2> QED
    BY <2>1, <1>4, HoldingFinite
<1> QED
  BY <1>3, <1>4

(* A call that gave it back is one less. *)
LEMMA HoldingLeave ==
  ASSUME NEW p \in Process, Alone(p), pc[p] = "release", pc'[p] # "release", NEW o \in Object
  PROVE  Cardinality(Holding(o)') =
           Cardinality(Holding(o)) - IF o = Now(p).object THEN 1 ELSE 0
<1>1. p \in Holding(o) <=> o = Now(p).object
  BY DEF Holding
<1>2. Holding(o)' = Holding(o) \ {p}
  BY DEF Holding, Alone, Now
<1>3. CASE o = Now(p).object
  BY <1>1, <1>2, <1>3, HoldingFinite, FS_RemoveElement
<1>4. CASE o # Now(p).object
  <2>1. Holding(o)' = Holding(o)
    BY <1>1, <1>2, <1>4
  <2> QED
    BY <2>1, <1>4, HoldingFinite
<1> QED
  BY <1>3, <1>4

-----------------------------------------------------------------------------
(* A step that takes and gives back nothing. *)
LEMMA NothingCounted ==
  ASSUME CountExact, NEW p \in Process, Alone(p), pc[p] # "release", pc'[p] # "release",
         UNCHANGED <<count, kept>>
  PROVE  CountExact'
  BY HoldingSame DEF CountExact

(* A link that is left behind on purpose. *)
LEMMA LinkKept ==
  ASSUME KernelOK, CountExact, NEW p \in Process, Alone(p), pc[p] # "release", pc'[p] # "release",
         Now(p).object \in Object, Taken(p), Kept(p)
  PROVE  CountExact'
<1> SUFFICES ASSUME NEW o \in Object
             PROVE  count'[o] = Present[o] + kept'[o] + Cardinality(Holding(o)')
  BY DEF CountExact
<1>1. count[o] = Present[o] + kept[o] + Cardinality(Holding(o))
  BY DEF CountExact
<1>2. Present[o] \in Nat /\ kept[o] \in Nat /\ count[o] \in Nat /\ Cardinality(Holding(o)) \in Nat
  BY HoldingFinite, ModuleDirAssumption DEF KernelOK
<1>3. /\ count'[o] = count[o] + IF o = Now(p).object THEN 1 ELSE 0
      /\ kept'[o] = kept[o] + IF o = Now(p).object THEN 1 ELSE 0
  BY DEF Taken, Kept, KernelOK
<1>4. Cardinality(Holding(o)') = Cardinality(Holding(o))
  BY HoldingSame
<1> QED
  BY <1>1, <1>2, <1>3, <1>4

-----------------------------------------------------------------------------
LEMMA AtStart == Init => ControlOK /\ KernelOK /\ CountExact
<1> SUFFICES ASSUME Init PROVE ControlOK /\ KernelOK /\ CountExact
  OBVIOUS
<1>1. ControlOK
  <2>1. (CHOOSE j \in Jobs : TRUE) \in Jobs
    BY ModuleDirAssumption
  <2> QED
    BY <2>1, EmptySeq, ModuleDirAssumption DEF Init, ControlOK
<1>2. KernelOK
  BY ModuleDirAssumption DEF Init, KernelOK
<1>3. CountExact
  <2> SUFFICES ASSUME NEW o \in Object
               PROVE  count[o] = Present[o] + kept[o] + Cardinality(Holding(o))
    BY DEF CountExact
  <2>1. Holding(o) = {}
    BY DEF Init, Holding
  <2>2. Present[o] \in Nat
    BY ModuleDirAssumption
  <2> QED
    BY <2>1, <2>2, FS_EmptySet DEF Init
<1> QED
  BY <1>1, <1>2, <1>3

(* A command starts. *)
LEMMA RunStep ==
  ASSUME ControlOK, KernelOK, CountExact, NEW p \in Process, Run(p)
  PROVE  ControlOK' /\ KernelOK' /\ CountExact'
<1>1. PICK j \in Jobs : job' = [job EXCEPT ![p] = j]
  BY DEF Run
<1>2. j.calls \in Seq(Call)
  BY ModuleDirAssumption DEF Job
<1>3. job'[p] = j /\ job' \in [Process -> Jobs]
  BY <1>1 DEF ControlOK
<1>4. left'[p] = j.calls /\ left' = [left EXCEPT ![p] = j.calls]
  BY <1>3 DEF Run, ControlOK
<1>5. pc' = [pc EXCEPT ![p] = IF j.calls = <<>> THEN "idle" ELSE "call"]
  BY <1>4 DEF Run
<1>6. pc'[p] = IF j.calls = <<>> THEN "idle" ELSE "call"
  BY <1>5 DEF ControlOK
<1>7. ControlOK'
  <2>1. status' \in [Process -> {0, 1}]
    BY DEF Run, ControlOK
  <2>2. runs' \in 0..MaxRuns
    BY ModuleDirAssumption DEF Run, ControlOK
  <2> QED
    BY <1>2, <1>3, <1>4, <1>5, <1>6, <2>1, <2>2 DEF Run, ControlOK
<1>8. Alone(p)
  BY <1>4, <1>5 DEF Alone, ControlOK
<1>9. UNCHANGED <<count, kept>> /\ pc[p] = "idle"
  BY DEF Run
<1> QED
  BY <1>6, <1>7, <1>8, <1>9, NothingCounted DEF KernelOK

(* A step that takes and gives back no link. *)
LEMMA QuietStep ==
  ASSUME ControlOK, KernelOK, CountExact, NEW p \in Process, pc[p] \notin {"idle", "release"},
         UNCHANGED <<count, kept>>,
         \/ \E s \in {0, 1} : Return(p, s)
         \/ \E where \in {"delete", "create", "write", "close"} : Goto(p, where) /\ UNCHANGED before
  PROVE  ControlOK' /\ KernelOK' /\ CountExact' /\ Alone(p)
<1>1. ControlOK' /\ Alone(p) /\ pc'[p] # "release"
  <2>1. CASE \E s \in {0, 1} : Return(p, s)
    BY <2>1, ReturnControl
  <2>2. CASE \E where \in {"delete", "create", "write", "close"} : Goto(p, where) /\ UNCHANGED before
    BY <2>2, GotoControl DEF ControlOK
  <2> QED
    BY <2>1, <2>2
<1> QED
  BY <1>1, NothingCounted DEF KernelOK

(* link, iniz, dump and load. *)
LEMMA KeepStep ==
  ASSUME ControlOK, KernelOK, CountExact, NEW p \in Process, TakeAndKeep(p) \/ Load(p)
  PROVE  ControlOK' /\ KernelOK' /\ CountExact'
<1>1. pc[p] = "call" /\ Taken(p) /\ Kept(p) /\ \E s \in {0, 1} : Return(p, s)
  BY DEF TakeAndKeep, Load
<1>2. Now(p).object \in Object
  BY <1>1, Working
<1>3. ControlOK' /\ Alone(p) /\ pc'[p] \in {"idle", "call"}
  BY <1>1, ReturnControl
<1>4. KernelOK'
  BY <1>1, <1>2, TakenTyped DEF KernelOK
<1> QED
  BY <1>1, <1>2, <1>3, <1>4, LinkKept

(* unlink, deiniz and save take their link. *)
LEMMA TakeStep ==
  ASSUME ControlOK, KernelOK, CountExact, NEW p \in Process, Take(p)
  PROVE  ControlOK' /\ KernelOK' /\ CountExact'
<1>1. pc[p] = "call" /\ Taken(p)
  BY DEF Take
<1>2. Now(p).object \in Object /\ count[Now(p).object] \in Nat
  BY <1>1, Working DEF KernelOK
<1>3. before' \in [Process -> Nat]
  BY <1>2 DEF Take, ControlOK
<1>4. CASE job[p].command = "save"
  <2>1. Goto(p, "check") /\ Kept(p)
    BY <1>4 DEF Take
  <2>2. ControlOK' /\ Alone(p) /\ pc'[p] = "check"
    BY <1>1, <1>3, <2>1, GotoControl
  <2>3. KernelOK'
    BY <1>1, <1>2, <2>1, TakenTyped DEF KernelOK
  <2> QED
    BY <1>1, <1>2, <2>1, <2>2, <2>3, LinkKept
<1>5. CASE job[p].command # "save"
  <2>1. Goto(p, "release") /\ UNCHANGED kept
    BY <1>5 DEF Take
  <2>2. ControlOK' /\ Alone(p) /\ pc'[p] = "release" /\ left' = left
    BY <1>1, <1>3, <2>1, GotoControl
  <2>3. KernelOK'
    BY <1>1, <1>2, <2>1, TakenTyped DEF KernelOK
  <2>4. CountExact'
    <3> SUFFICES ASSUME NEW o \in Object
                 PROVE  count'[o] = Present[o] + kept'[o] + Cardinality(Holding(o)')
      BY DEF CountExact
    <3>1. count[o] = Present[o] + kept[o] + Cardinality(Holding(o))
      BY DEF CountExact
    <3>2. Present[o] \in Nat /\ kept[o] \in Nat /\ Cardinality(Holding(o)) \in Nat
      BY HoldingFinite, ModuleDirAssumption DEF KernelOK
    <3>3. count'[o] = count[o] + IF o = Now(p).object THEN 1 ELSE 0
      BY <1>1 DEF Taken, KernelOK
    <3>4. Cardinality(Holding(o)') = Cardinality(Holding(o)) + IF o = Now(p).object THEN 1 ELSE 0
      BY <1>1, <2>2, HoldingEnter
    <3> QED
      BY <2>1, <3>1, <3>2, <3>3, <3>4
  <2> QED
    BY <2>2, <2>3, <2>4
<1> QED
  BY <1>4, <1>5

(* The link a call took itself goes: there is one, or it would not be there. *)
LEMMA ReleaseStep ==
  ASSUME ControlOK, KernelOK, CountExact, NEW p \in Process, Release(p)
  PROVE  ControlOK' /\ KernelOK' /\ CountExact'
<1>1. pc[p] = "release" /\ Return(p, 0) /\ UNCHANGED kept
      /\ count' = [count EXCEPT ![Now(p).object] = @ - 1]
  BY DEF Release
<1>2. Now(p).object \in Object
  BY <1>1, Working
<1>3. ControlOK' /\ Alone(p) /\ pc'[p] \in {"idle", "call"}
  BY <1>1, ReturnControl
<1>4. ASSUME NEW o \in Object
      PROVE  /\ count'[o] = Present[o] + kept'[o] + Cardinality(Holding(o)')
             /\ count'[o] \in Nat
  <2>1. count[o] = Present[o] + kept[o] + Cardinality(Holding(o))
    BY DEF CountExact
  <2>2. Present[o] \in Nat /\ kept[o] \in Nat
    BY ModuleDirAssumption DEF KernelOK
  <2>3. count'[o] = count[o] - IF o = Now(p).object THEN 1 ELSE 0
    BY <1>1 DEF KernelOK
  <2>4. Cardinality(Holding(o)') = Cardinality(Holding(o)) - IF o = Now(p).object THEN 1 ELSE 0
    BY <1>1, <1>3, HoldingLeave
  <2>5. Cardinality(Holding(o)) \in Nat /\ (o = Now(p).object => Cardinality(Holding(o)) # 0)
    <3>1. o = Now(p).object => p \in Holding(o)
      BY <1>1 DEF Holding
    <3> QED
      BY <3>1, HoldingFinite, FS_EmptySet
  <2> QED
    BY <1>1, <2>1, <2>2, <2>3, <2>4, <2>5
<1>5. count' \in [Object -> Nat]
  <2>1. count' = [o \in Object |-> count'[o]]
    BY <1>1 DEF KernelOK
  <2> QED
    BY <2>1, <1>4
<1> QED
  BY <1>1, <1>3, <1>4, <1>5 DEF KernelOK, CountExact

(* The link a call could not give back counts as left behind. *)
LEMMA ReleaseFailsStep ==
  ASSUME ControlOK, KernelOK, CountExact, NEW p \in Process, ReleaseFails(p)
  PROVE  ControlOK' /\ KernelOK' /\ CountExact'
<1>1. pc[p] = "release" /\ Return(p, 1) /\ Kept(p) /\ UNCHANGED count
  BY DEF ReleaseFails
<1>2. Now(p).object \in Object
  BY <1>1, Working
<1>3. ControlOK' /\ Alone(p) /\ pc'[p] \in {"idle", "call"}
  BY <1>1, ReturnControl
<1>4. KernelOK'
  BY <1>1, <1>2, TakenTyped DEF KernelOK
<1>5. ASSUME NEW o \in Object
      PROVE  count'[o] = Present[o] + kept'[o] + Cardinality(Holding(o)')
  <2>1. count[o] = Present[o] + kept[o] + Cardinality(Holding(o))
    BY DEF CountExact
  <2>2. Present[o] \in Nat /\ kept[o] \in Nat /\ Cardinality(Holding(o)) \in Nat
    BY HoldingFinite, ModuleDirAssumption DEF KernelOK
  <2>3. kept'[o] = kept[o] + IF o = Now(p).object THEN 1 ELSE 0
    BY <1>1 DEF Kept, KernelOK
  <2>4. Cardinality(Holding(o)') = Cardinality(Holding(o)) - IF o = Now(p).object THEN 1 ELSE 0
    BY <1>1, <1>3, HoldingLeave
  <2> QED
    BY <1>1, <2>1, <2>2, <2>3, <2>4
<1> QED
  BY <1>3, <1>4, <1>5 DEF CountExact

LEMMA CountStep ==
  ASSUME ControlOK, KernelOK, CountExact, NEW p \in Process, Step(p)
  PROVE  ControlOK' /\ KernelOK' /\ CountExact'
<1>1. CASE Run(p)
  BY <1>1, RunStep
<1>2. CASE TakeAndKeep(p) \/ Load(p)
  BY <1>2, KeepStep
<1>3. CASE Take(p)
  BY <1>3, TakeStep
<1>4. CASE Release(p)
  BY <1>4, ReleaseStep
<1>5. CASE ReleaseFails(p)
  BY <1>5, ReleaseFailsStep
<1>6. CASE LinkFails(p) \/ LoadFails(p)
  <2>1. pc[p] \notin {"idle", "release"} /\ Return(p, 1) /\ UNCHANGED <<count, kept>>
    BY <1>6 DEF LinkFails, LoadFails
  <2> QED
    BY <2>1, QuietStep
<1>7. CASE CheckFile(p) \/ DeleteFile(p) \/ DeleteFails(p) \/ CreateFile(p) \/ CreateFails(p)
  <2>1. /\ pc[p] \notin {"idle", "release"} /\ UNCHANGED <<count, kept>>
        /\ \/ Return(p, 1)
           \/ \E where \in {"delete", "create", "write"} : Goto(p, where) /\ UNCHANGED before
    BY <1>7 DEF CheckFile, DeleteFile, DeleteFails, CreateFile, CreateFails
  <2> QED
    BY <2>1, QuietStep
<1>8. CASE WriteImage(p) \/ WriteFails(p) \/ CloseFile(p)
  <2>1. /\ pc[p] \notin {"idle", "release"} /\ UNCHANGED <<count, kept>>
        /\ \E s \in {0, 1} : Return(p, s)
    BY <1>8 DEF WriteImage, WriteFails, CloseFile, Finish
  <2> QED
    BY <2>1, QuietStep
<1>9. CASE WriteBuffered(p)
  <2>1. /\ pc[p] \notin {"idle", "release"} /\ UNCHANGED <<count, kept>>
        /\ Goto(p, "close") /\ UNCHANGED before
    BY <1>9 DEF WriteBuffered
  <2> QED
    BY <2>1, QuietStep
<1> QED
  BY <1>1, <1>2, <1>3, <1>4, <1>5, <1>6, <1>7, <1>8, <1>9 DEF Step

-----------------------------------------------------------------------------
(* What is known of a file. Whoever has it open is about to write or close  *)
(* and saves one of the objects it is being made from; the pieces are of    *)
(* those; and the save that made it has written its first piece when it     *)
(* comes to fclose(), unless all of the module is in the buffer.            *)
PiecesOK(f) ==
  made[f] # NotMade =>
    /\ text[f] \in Content
    /\ \A i \in 1..2 : text[f][i] \in made[f].from \cup {"cut"}

WritersOK(f) ==
  \A q \in writers[f] :
    /\ pc[q] \in {"write", "close"}
    /\ Now(q).file = f
    /\ made[f] # NotMade /\ Now(q).object \in made[f].from

MakerOK(f) ==
  made[f] # NotMade /\ made[f].by \in writers[f] =>
    /\ made[f].said = "nothing"
    /\ Now(made[f].by).object = made[f].object
    /\ job[made[f].by].exec = made[f].exec
    /\ pc[made[f].by] = "close" =>
         text[f][1] \in made[f].from \/ (made[f].object \in Small /\ ~ made[f].exec)

HonestOK(f) ==
  made[f].said = "saved" =>
    /\ text[f] # NoFile
    /\ text[f][1] \in made[f].from \cup
         (IF made[f].object \in Small /\ ~ made[f].exec THEN {"cut"} ELSE {})
    /\ text[f][2] \in made[f].from \cup (IF made[f].exec THEN {} ELSE {"cut"})

FileOK(f) == PiecesOK(f) /\ WritersOK(f) /\ MakerOK(f) /\ HonestOK(f)

(* Only a plain save comes to fclose(), only save -r to _os_delete(). *)
ModeOK ==
  \A q \in Process : /\ pc[q] = "close" => ~ job[q].exec
                     /\ pc[q] = "delete" => job[q].rewrite

(* Nothing is different for a file that the process of a step has not open  *)
(* and whose name the step leaves alone.                                    *)
LEMMA Elsewhere ==
  ASSUME DiskOK, NEW p \in Process, Alone(p), \A q \in Process \ {p} : job'[q] = job[q],
         NEW f \in File, FileOK(f), p \notin writers[f],
         text'[f] = text[f], writers'[f] = writers[f], made'[f] = made[f]
  PROVE  FileOK(f)'
<1>1. \A q \in writers[f] : pc'[q] = pc[q] /\ left'[q] = left[q] /\ job'[q] = job[q]
  BY DEF Alone, DiskOK
<1>2. PiecesOK(f)'
  BY DEF PiecesOK, FileOK
<1>3. WritersOK(f)'
  BY <1>1 DEF WritersOK, FileOK, Now
<1>4. MakerOK(f)'
  BY <1>1 DEF MakerOK, FileOK, Now
<1>5. HonestOK(f)'
  BY DEF HonestOK, FileOK
<1> QED
  BY <1>2, <1>3, <1>4, <1>5 DEF FileOK

(* A step of a process that has no file open and touches none. *)
LEMMA NoDiskStep ==
  ASSUME DiskOK, NEW p \in Process, Alone(p), \A q \in Process \ {p} : job'[q] = job[q],
         \A f \in File : FileOK(f), pc[p] \notin {"write", "close"}, UNCHANGED disk
  PROVE  DiskOK' /\ \A f \in File : FileOK(f)'
<1>1. ASSUME NEW f \in File PROVE FileOK(f)'
  <2>1. p \notin writers[f]
    BY DEF FileOK, WritersOK
  <2> QED
    BY <2>1, Elsewhere DEF disk
<1> QED
  BY <1>1 DEF DiskOK, disk

(* save -x -r deletes the file. *)
LEMMA DeleteStep ==
  ASSUME DiskOK, ControlOK, NEW p \in Process, Alone(p), UNCHANGED job,
         \A f \in File : FileOK(f), DeleteFile(p)
  PROVE  DiskOK' /\ \A f \in File : FileOK(f)'
<1>1. Now(p).file \in File /\ pc[p] = "delete"
  BY Working DEF DeleteFile
<1>2. DiskOK'
  BY <1>1 DEF DeleteFile, DiskOK
<1>3. ASSUME NEW f \in File, f = Now(p).file PROVE FileOK(f)'
  <2>1. writers'[f] = {} /\ made'[f] = NotMade
    BY <1>3 DEF DeleteFile, DiskOK
  <2> QED
    BY <2>1 DEF FileOK, PiecesOK, WritersOK, MakerOK, HonestOK, NotMade
<1>4. ASSUME NEW f \in File, f # Now(p).file PROVE FileOK(f)'
  <2>1. p \notin writers[f]
    BY <1>1 DEF FileOK, WritersOK
  <2>2. text'[f] = text[f] /\ writers'[f] = writers[f] /\ made'[f] = made[f]
    BY <1>4 DEF DeleteFile, DiskOK
  <2> QED
    BY <2>1, <2>2, Elsewhere
<1> QED
  BY <1>2, <1>3, <1>4

(* A file is created or emptied. *)
LEMMA CreateStep ==
  ASSUME DiskOK, ControlOK, ControlOK', NEW p \in Process, Alone(p), UNCHANGED <<job, left>>,
         \A f \in File : FileOK(f), CreateFile(p), pc'[p] = "write"
  PROVE  DiskOK' /\ \A f \in File : FileOK(f)'
<1> DEFINE g == Now(p).file
           new == [by |-> p, object |-> Now(p).object, exec |-> job[p].exec,
                   from |-> {Now(q).object : q \in writers'[g]}, said |-> "nothing"]
<1>1. g \in File /\ Now(p).object \in Object /\ job[p].exec \in BOOLEAN
  BY Working, ModuleDirAssumption DEF CreateFile, ControlOK, Job
<1>2. /\ text' = [text EXCEPT ![g] = Whole("cut")]
      /\ writers' = [writers EXCEPT ![g] = @ \cup {p}]
      /\ made' = [made EXCEPT ![g] = new]
  BY DEF CreateFile, Emptied
<1>3. Whole("cut") \in Content
  BY DEF Whole, Content, Piece
<1>4. /\ writers'[g] = writers[g] \cup {p}
      /\ \A q \in writers'[g] : q \in Process /\ Now(q).object \in Object
  <2>1. \A q \in writers[g] : pc[q] # "idle" /\ q \in Process
    BY <1>1 DEF FileOK, WritersOK, DiskOK
  <2>2. \A q \in writers[g] : Now(q).object \in Object
    BY <2>1, Working
  <2> QED
    BY <1>1, <1>2, <2>1, <2>2 DEF DiskOK
<1>5. new \in Made
  BY <1>1, <1>4 DEF Made
<1>6. new # NotMade
  <2>1. new.said # NotMade.said
    BY DEF NotMade
  <2> QED
    BY <2>1
<1>7. /\ new.by = p /\ new.object = Now(p).object /\ new.exec = job[p].exec
      /\ new.said = "nothing" /\ new.from = {Now(q).object : q \in writers'[g]}
  OBVIOUS
<1> HIDE DEF new
<1>8. DiskOK'
  BY <1>1, <1>2, <1>3, <1>5 DEF DiskOK
<1>9. ASSUME NEW f \in File, f = g PROVE FileOK(f)'
  <2>1. text'[f] = Whole("cut") /\ made'[f] = new
    BY <1>1, <1>2, <1>9 DEF DiskOK
  <2>2. PiecesOK(f)'
    BY <1>3, <2>1 DEF PiecesOK, Whole
  <2>3. WritersOK(f)'
    <3> SUFFICES ASSUME NEW q \in writers'[f]
                 PROVE  /\ pc'[q] \in {"write", "close"} /\ Now(q)'.file = f
                        /\ made'[f] # NotMade /\ Now(q)'.object \in made'[f].from
      BY DEF WritersOK
    <3>1. Now(q)' = Now(q)
      BY DEF Now
    <3>2. CASE q = p
      BY <1>4, <1>6, <1>7, <1>9, <2>1, <3>1, <3>2
    <3>3. CASE q # p
      <4>1. q \in writers[g] /\ q \in Process
        BY <1>4, <1>9, <3>3
      <4>2. pc'[q] = pc[q]
        BY <3>3, <4>1 DEF Alone
      <4>3. pc[q] \in {"write", "close"} /\ Now(q).file = g
        BY <1>1, <4>1 DEF FileOK, WritersOK
      <4> QED
        BY <1>6, <1>7, <1>9, <2>1, <3>1, <4>2, <4>3
    <3> QED
      BY <3>2, <3>3
  <2>4. MakerOK(f)'
    BY <1>7, <2>1 DEF MakerOK, Now
  <2>5. HonestOK(f)'
    BY <1>7, <2>1 DEF HonestOK
  <2> QED
    BY <2>2, <2>3, <2>4, <2>5 DEF FileOK
<1>10. ASSUME NEW f \in File, f # g PROVE FileOK(f)'
  <2>1. p \notin writers[f]
    BY <1>10 DEF FileOK, WritersOK
  <2>2. text'[f] = text[f] /\ writers'[f] = writers[f] /\ made'[f] = made[f]
    BY <1>2, <1>10 DEF DiskOK
  <2> QED
    BY <2>1, <2>2, Elsewhere
<1> QED
  BY <1>8, <1>9, <1>10

-----------------------------------------------------------------------------
(* What a write leaves of the pieces. *)
LEMMA PutPieces ==
  ASSUME DiskOK, NEW p \in Process, NEW pieces, Put(p, pieces),
         Now(p).file \in File, Now(p).object \in Object,
         \A f \in File : FileOK(f)
  PROVE  /\ text' \in [File -> Content \cup {NoFile}]
         /\ \A f \in File : f # Now(p).file \/ p \notin writers[f] => text'[f] = text[f]
         /\ \A f \in File : f = Now(p).file /\ p \in writers[f] =>
              /\ text'[f] \in Content
              /\ \A i \in 1..2 :
                   text'[f][i] = IF i \in pieces THEN Now(p).object ELSE text[f][i]
<1> DEFINE g == Now(p).file
           t == [i \in 1..2 |-> IF i \in pieces THEN Now(p).object ELSE text[g][i]]
<1>1. text' = [text EXCEPT ![g] = IF p \in writers[g] THEN t ELSE @]
  BY DEF Put, DiskOK
<1>2. p \in writers[g] => t \in Content
  <2> SUFFICES ASSUME p \in writers[g] PROVE t \in Content
    OBVIOUS
  <2>1. made[g] # NotMade
    BY DEF FileOK, WritersOK
  <2>2. text[g] \in Content
    BY <2>1 DEF FileOK, PiecesOK
  <2> QED
    BY <2>2 DEF Content, Piece
<1>3. \A i \in 1..2 : t[i] = IF i \in pieces THEN Now(p).object ELSE text[g][i]
  OBVIOUS
<1> HIDE DEF t
<1> QED
  BY <1>1, <1>2, <1>3 DEF DiskOK

LEMMA NoFileOut == \A c \in Content : c # NoFile
  BY ModuleDirAssumption

(* A plain save comes from fwrite(). *)
LEMMA BufferStep ==
  ASSUME DiskOK, ControlOK, NEW p \in Process, Alone(p), UNCHANGED <<job, left>>,
         \A f \in File : FileOK(f), WriteBuffered(p), pc'[p] = "close"
  PROVE  DiskOK' /\ \A f \in File : FileOK(f)'
<1>1. Now(p).file \in File /\ Now(p).object \in Object
  BY Working DEF WriteBuffered
<1>2. /\ Put(p, Flushed(p)) /\ UNCHANGED <<writers, made>> /\ ~ job[p].exec
  BY DEF WriteBuffered
<1>3. DiskOK'
  BY <1>1, <1>2, PutPieces DEF DiskOK
<1>4. ASSUME NEW f \in File, f = Now(p).file, p \in writers[f] PROVE FileOK(f)'
  <2>1. /\ text'[f] \in Content
        /\ \A i \in 1..2 : text'[f][i] = IF i \in Flushed(p) THEN Now(p).object ELSE text[f][i]
    BY <1>1, <1>2, <1>4, PutPieces
  <2>2. made'[f] = made[f] /\ writers'[f] = writers[f]
    BY <1>2
  <2>3. \A q \in writers[f] : q \in Process /\ Now(q)' = Now(q) /\ (q # p => pc'[q] = pc[q])
    BY DEF DiskOK, Alone, Now
  <2>4. made[f] # NotMade /\ Now(p).object \in made[f].from
    BY <1>4 DEF FileOK, WritersOK
  <2>5. PiecesOK(f)'
    BY <2>1, <2>2, <2>4 DEF PiecesOK, FileOK
  <2>6. WritersOK(f)'
    BY <2>2, <2>3 DEF WritersOK, FileOK
  <2>7. MakerOK(f)'
    <3>1. made[f].by = p => Now(p).object \in Small \/ text'[f][1] \in made[f].from
      BY <2>1, <2>4 DEF Flushed
    <3>2. made[f].by \in writers[f] /\ made[f].by # p /\ pc[made[f].by] = "close" =>
            text'[f][1] \in made[f].from \/ (made[f].object \in Small /\ ~ made[f].exec)
      BY <2>1, <2>4 DEF FileOK, MakerOK
    <3> QED
      BY <1>2, <2>2, <2>3, <3>1, <3>2 DEF MakerOK, FileOK
  <2>8. HonestOK(f)'
    BY <2>1, <2>2, <2>4, NoFileOut DEF HonestOK, FileOK
  <2> QED
    BY <2>5, <2>6, <2>7, <2>8 DEF FileOK
<1>5. ASSUME NEW f \in File, f # Now(p).file \/ p \notin writers[f] PROVE FileOK(f)'
  <2>1. p \notin writers[f]
    BY <1>5 DEF FileOK, WritersOK
  <2> QED
    BY <1>1, <1>2, <1>5, <2>1, PutPieces, Elsewhere
<1> QED
  BY <1>3, <1>4, <1>5

(* A save that has its file open writes the last of it and returns. Where   *)
(* it says 0 it has written all, or all but what fclose() had left.         *)
LEMMA FinishStep ==
  ASSUME DiskOK, ControlOK, NEW p \in Process, Alone(p), UNCHANGED job,
         pc[p] \in {"write", "close"}, ModeOK,
         \A f \in File : FileOK(f), NEW pieces, Put(p, pieces),
         NEW s \in {0, 1}, Finish(p, s),
         s = 0 => pieces = {1, 2} \/ pc[p] = "close"
  PROVE  DiskOK' /\ \A f \in File : FileOK(f)'
<1> DEFINE g == Now(p).file
<1>1. g \in File /\ Now(p).object \in Object
  BY Working
<1>2. /\ writers' = [writers EXCEPT ![g] = @ \ {p}]
      /\ made' = [made EXCEPT ![g] =
                   IF p \in writers[g] /\ @.by = p
                     THEN [@ EXCEPT !.said = IF s = 0 THEN "saved" ELSE "failed"] ELSE @]
  BY DEF Finish
<1> HIDE DEF g
<1>3. ASSUME p \in writers[g]
      PROVE  /\ made[g] # NotMade /\ made[g] \in Made /\ Now(p).object \in made[g].from
             /\ text[g] \in Content
  BY <1>1, <1>3 DEF FileOK, WritersOK, PiecesOK, DiskOK, g
<1>4. PICK m \in Made \cup {NotMade} :
        /\ made' = [made EXCEPT ![g] = m]
        /\ p \in writers[g] /\ made[g].by = p =>
             m = [made[g] EXCEPT !.said = IF s = 0 THEN "saved" ELSE "failed"]
        /\ ~ (p \in writers[g] /\ made[g].by = p) => m = made[g]
  <2>1. CASE p \in writers[g] /\ made[g].by = p
    <3>1. [made[g] EXCEPT !.said = IF s = 0 THEN "saved" ELSE "failed"] \in Made
      BY <1>3, <2>1 DEF Made
    <3> QED
      BY <1>1, <1>2, <2>1, <3>1 DEF DiskOK
  <2>2. CASE ~ (p \in writers[g] /\ made[g].by = p)
    BY <1>1, <1>2, <2>2 DEF DiskOK
  <2> QED
    BY <2>1, <2>2
<1>5. DiskOK'
  <2>1. text' \in [File -> Content \cup {NoFile}]
    BY <1>1, PutPieces DEF g
  <2>2. writers' \in [File -> SUBSET Process]
    BY <1>1, <1>2 DEF DiskOK
  <2> QED
    BY <1>1, <1>4, <2>1, <2>2 DEF DiskOK
<1>6. ASSUME NEW f \in File, f = g, p \in writers[f] PROVE FileOK(f)'
  <2>1. /\ text'[f] \in Content
        /\ \A i \in 1..2 : text'[f][i] = IF i \in pieces THEN Now(p).object ELSE text[f][i]
    BY <1>1, <1>6, PutPieces DEF g
  <2>2. made'[f] = m /\ writers'[f] = writers[f] \ {p}
    BY <1>1, <1>2, <1>4, <1>6 DEF DiskOK
  <2>3. /\ m # NotMade /\ m.by = made[f].by /\ m.object = made[f].object
        /\ m.exec = made[f].exec /\ m.from = made[f].from
        /\ m.said = IF made[f].by = p THEN IF s = 0 THEN "saved" ELSE "failed" ELSE made[f].said
    <3>1. CASE made[f].by = p
      <4>1. m = [made[f] EXCEPT !.said = IF s = 0 THEN "saved" ELSE "failed"]
        BY <1>4, <1>6, <3>1
      <4>2. /\ m.by = made[f].by /\ m.object = made[f].object
            /\ m.exec = made[f].exec /\ m.from = made[f].from
            /\ m.said = IF s = 0 THEN "saved" ELSE "failed"
        BY <1>3, <1>6, <4>1 DEF Made
      <4>3. m.said # NotMade.said
        BY <4>2 DEF NotMade
      <4> QED
        BY <3>1, <4>2, <4>3
    <3>2. CASE made[f].by # p
      BY <1>3, <1>4, <1>6, <3>2
    <3> QED
      BY <3>1, <3>2
  <2>4. \A q \in writers[f] \ {p} : q \in Process /\ pc'[q] = pc[q] /\ Now(q)' = Now(q)
    BY DEF DiskOK, Alone, Now
  <2>5. made[f] # NotMade /\ Now(p).object \in made[f].from
    BY <1>3, <1>6
  <2>6. PiecesOK(f)'
    BY <2>1, <2>2, <2>3, <2>5 DEF PiecesOK, FileOK
  <2>7. WritersOK(f)'
    BY <2>2, <2>3, <2>4 DEF WritersOK, FileOK
  <2>8. MakerOK(f)'
    <3>1. made[f].by \in writers[f] /\ made[f].by # p /\ pc[made[f].by] = "close" =>
            text'[f][1] \in made[f].from \/ (made[f].object \in Small /\ ~ made[f].exec)
      BY <2>1, <2>5 DEF FileOK, MakerOK
    <3> QED
      BY <2>2, <2>3, <2>4, <2>5, <3>1 DEF MakerOK, FileOK
  <2>9. HonestOK(f)'
    <3>1. CASE made[f].by = p /\ s = 0
      <4>1. MakerOK(f)
        BY DEF FileOK
      <4>2. made[f].exec = job[p].exec
        BY <1>6, <2>5, <3>1, <4>1 DEF MakerOK
      <4>3. CASE pieces = {1, 2}
        BY <2>1, <2>2, <2>3, <2>5, <4>3, NoFileOut DEF HonestOK
      <4>4. CASE pc[p] = "close"
        <5>1. ~ made[f].exec
          BY <4>2, <4>4 DEF ModeOK
        <5>2. text[f][1] \in made[f].from \/ made[f].object \in Small
          BY <1>6, <2>5, <3>1, <4>1, <4>4 DEF MakerOK
        <5>3. \A i \in 1..2 : text[f][i] \in made[f].from \cup {"cut"}
          BY <2>5 DEF FileOK, PiecesOK
        <5> QED
          BY <2>1, <2>2, <2>3, <2>5, <5>1, <5>2, <5>3, NoFileOut DEF HonestOK
      <4> QED
        BY <3>1, <4>3, <4>4
    <3>2. CASE made[f].by = p /\ s # 0
      BY <2>2, <2>3, <3>2 DEF HonestOK
    <3>3. CASE made[f].by # p
      BY <2>1, <2>2, <2>3, <2>5, <3>3, NoFileOut DEF HonestOK, FileOK
    <3> QED
      BY <3>1, <3>2, <3>3
  <2> QED
    BY <2>6, <2>7, <2>8, <2>9 DEF FileOK
<1>7. ASSUME NEW f \in File, f # g \/ p \notin writers[f] PROVE FileOK(f)'
  <2>1. p \notin writers[f]
    BY <1>7 DEF FileOK, WritersOK, g
  <2>2. text'[f] = text[f] /\ writers'[f] = writers[f] /\ made'[f] = made[f]
    BY <1>1, <1>2, <1>4, <1>7, <2>1, PutPieces DEF DiskOK, g
  <2> QED
    BY <2>1, <2>2, Elsewhere
<1> QED
  BY <1>5, <1>6, <1>7

-----------------------------------------------------------------------------
(* The inductive invariant: the types of the files need what is known of    *)
(* the processes that have them open, and those need the types.             *)
FilesOK == DiskOK /\ ModeOK /\ \A f \in File : FileOK(f)

IInv == ControlOK /\ KernelOK /\ CountExact /\ FilesOK

LEMMA IInvImplies == IInv => TypeOK /\ CountExact /\ SaveHonest
  BY TypeParts DEF IInv, FilesOK, FileOK, HonestOK, SaveHonest

LEMMA IInvInit == Init => IInv
<1> SUFFICES ASSUME Init PROVE FilesOK
  BY AtStart DEF IInv
<1>1. Whole("old") \in Content
  BY DEF Whole, Content, Piece
<1>2. DiskOK
  BY <1>1 DEF Init, DiskOK
<1>3. ModeOK
  BY DEF Init, ModeOK
<1>4. \A f \in File : FileOK(f)
  BY DEF Init, FileOK, PiecesOK, WritersOK, MakerOK, HonestOK, NotMade
<1> QED
  BY <1>2, <1>3, <1>4 DEF FilesOK

(* Which process moved, and what its step does to the control of others. *)
LEMMA StepAlone ==
  ASSUME ControlOK, NEW p \in Process, Step(p)
  PROVE  /\ Alone(p)
         /\ \A q \in Process \ {p} : job'[q] = job[q]
         /\ ~ Run(p) => UNCHANGED job
<1>1. CASE Run(p)
  <2>1. PICK j \in Jobs : job' = [job EXCEPT ![p] = j]
    BY <1>1 DEF Run
  <2> QED
    BY <1>1, <2>1 DEF Run, Alone, ControlOK
<1>2. CASE \E s \in {0, 1} : Return(p, s)
  BY <1>2 DEF Return, Alone, ControlOK
<1>3. CASE \E where \in {"release", "check", "delete", "create", "write", "close"} : Goto(p, where)
  BY <1>3 DEF Goto, Alone, ControlOK
<1>4. ASSUME ~ Run(p)
      PROVE  \/ \E s \in {0, 1} : Return(p, s)
             \/ \E where \in {"release", "check", "delete", "create", "write", "close"} : Goto(p, where)
  BY <1>4 DEF Step, LinkFails, TakeAndKeep, Take, Release, ReleaseFails, Load, LoadFails,
     CheckFile, DeleteFile, DeleteFails, CreateFile, CreateFails, WriteImage, WriteBuffered,
     WriteFails, CloseFile, Finish
<1> QED
  BY <1>1, <1>2, <1>3, <1>4

LEMMA ModeStep ==
  ASSUME ControlOK, ModeOK, NEW p \in Process, Step(p)
  PROVE  ModeOK'
<1>1. Alone(p) /\ \A q \in Process \ {p} : job'[q] = job[q]
  BY StepAlone
<1>2. (pc'[p] = "close" => ~ job'[p].exec) /\ (pc'[p] = "delete" => job'[p].rewrite)
  <2>1. CASE Run(p)
    BY <2>1 DEF Run, ControlOK
  <2>2. CASE WriteBuffered(p)
    BY <2>2 DEF WriteBuffered, Goto, ControlOK
  <2>3. CASE CheckFile(p)
    BY <2>3 DEF CheckFile, Goto, Return, ControlOK
  <2>4. ASSUME ~ Run(p), ~ WriteBuffered(p), ~ CheckFile(p)
        PROVE  pc'[p] \notin {"close", "delete"}
    BY <2>4 DEF Step, LinkFails, TakeAndKeep, Take, Release, ReleaseFails, Load, LoadFails,
       DeleteFile, DeleteFails, CreateFile, CreateFails, WriteImage,
       WriteFails, CloseFile, Finish, Return, Goto, ControlOK
  <2> QED
    BY <2>1, <2>2, <2>3, <2>4
<1> QED
  BY <1>1, <1>2 DEF ModeOK, Alone

LEMMA FilesStep ==
  ASSUME ControlOK, ControlOK', FilesOK, NEW p \in Process, Step(p)
  PROVE  FilesOK'
<1>1. Alone(p) /\ (\A q \in Process \ {p} : job'[q] = job[q]) /\ (~ Run(p) => UNCHANGED job)
  BY StepAlone
<1>2. DiskOK /\ ModeOK /\ \A f \in File : FileOK(f)
  BY DEF FilesOK
<1>3. DiskOK' /\ \A f \in File : FileOK(f)'
  <2>1. CASE \/ Run(p) \/ LinkFails(p) \/ TakeAndKeep(p) \/ Take(p) \/ Release(p)
             \/ ReleaseFails(p) \/ Load(p) \/ LoadFails(p)
             \/ CheckFile(p) \/ DeleteFails(p) \/ CreateFails(p)
    <3>1. UNCHANGED disk /\ pc[p] \notin {"write", "close"}
      BY <2>1 DEF Run, LinkFails, TakeAndKeep, Take, Release, ReleaseFails, Load, LoadFails,
         CheckFile, DeleteFails, CreateFails
    <3> QED
      BY <1>1, <1>2, <3>1, NoDiskStep
  <2>2. CASE DeleteFile(p)
    <3>1. UNCHANGED job
      BY <2>2 DEF DeleteFile, Goto
    <3> QED
      BY <1>1, <1>2, <2>2, <3>1, DeleteStep
  <2>3. CASE CreateFile(p)
    <3>1. UNCHANGED <<job, left>> /\ pc'[p] = "write"
      BY <2>3 DEF CreateFile, Goto, ControlOK
    <3> QED
      BY <1>1, <1>2, <2>3, <3>1, CreateStep
  <2>4. CASE WriteBuffered(p)
    <3>1. UNCHANGED <<job, left>> /\ pc'[p] = "close"
      BY <2>4 DEF WriteBuffered, Goto, ControlOK
    <3> QED
      BY <1>1, <1>2, <2>4, <3>1, BufferStep
  <2>5. CASE WriteImage(p)
    <3>1. pc[p] = "write" /\ Put(p, {1, 2}) /\ Finish(p, 0) /\ UNCHANGED job
      BY <2>5 DEF WriteImage, Finish, Return
    <3> QED
      BY <1>1, <1>2, <3>1, FinishStep
  <2>6. CASE WriteFails(p)
    <3>1. PICK pieces \in {{}, {1}} : Put(p, pieces)
      BY <2>6 DEF WriteFails
    <3>2. pc[p] = "write" /\ Finish(p, 1) /\ UNCHANGED job
      BY <2>6 DEF WriteFails, Finish, Return
    <3> QED
      BY <1>1, <1>2, <3>1, <3>2, FinishStep
  <2>7. CASE CloseFile(p)
    <3>1. PICK pieces \in {{}, {1}, {1, 2}} : Put(p, pieces \ Flushed(p))
      BY <2>7 DEF CloseFile
    <3>2. pc[p] = "close" /\ Finish(p, 0) /\ UNCHANGED job
      BY <2>7 DEF CloseFile, Finish, Return
    <3> QED
      BY <1>1, <1>2, <3>1, <3>2, FinishStep
  <2> QED
    BY <2>1, <2>2, <2>3, <2>4, <2>5, <2>6, <2>7 DEF Step
<1> QED
  BY <1>2, <1>3, ModeStep DEF FilesOK

LEMMA IInvStep == IInv /\ [Next]_vars => IInv'
<1> SUFFICES ASSUME IInv, [Next]_vars PROVE IInv'
  OBVIOUS
<1>1. CASE UNCHANGED vars
  <2>1. /\ UNCHANGED <<count, kept, job, pc, left, status, before, runs, text, writers, made>>
    BY <1>1 DEF vars, tool, disk
  <2>2. ControlOK' /\ KernelOK' /\ CountExact'
    BY <2>1 DEF IInv, ControlOK, KernelOK, CountExact, Holding, Now
  <2>3. DiskOK' /\ ModeOK'
    BY <2>1 DEF IInv, FilesOK, DiskOK, ModeOK
  <2>4. ASSUME NEW f \in File PROVE FileOK(f)'
    <3>1. FileOK(f)
      BY DEF IInv, FilesOK
    <3>2. PiecesOK(f)' /\ HonestOK(f)'
      BY <2>1, <3>1 DEF FileOK, PiecesOK, HonestOK
    <3>3. WritersOK(f)'
      BY <2>1, <3>1 DEF FileOK, WritersOK, Now
    <3>4. MakerOK(f)'
      BY <2>1, <3>1 DEF FileOK, MakerOK, Now
    <3> QED
      BY <3>2, <3>3, <3>4 DEF FileOK
  <2> QED
    BY <2>2, <2>3, <2>4 DEF IInv, FilesOK
<1>2. ASSUME NEW p \in Process, Step(p) PROVE IInv'
  BY <1>2, CountStep, FilesStep DEF IInv
<1> QED
  BY <1>1, <1>2 DEF Next

LEMMA Invariant == Spec => []IInv
  BY IInvInit, IInvStep, PTL DEF Spec

-----------------------------------------------------------------------------
(* Types, and the exact count, which the type of the counts itself needs:   *)
(* a call gives back only a link it has taken, so no count falls below 0.   *)
THEOREM ModuleDirInvariant == Spec => []TypeOK
  BY Invariant, IInvImplies, PTL

(* No link is lost and none is given back twice, however many commands run  *)
(* at once: _os_link(), attach(), _os_unlink() and detach() are paired on   *)
(* every path of unlink.c and deiniz.c, or the link stays behind.           *)
THEOREM CountsAreExact == Spec => []CountExact
  BY Invariant, IInvImplies, PTL

(* What a file holds when the save that made it last has said "saved",      *)
(* whatever other saves do to the same name: the checks of save.c:16-94     *)
(* together let nothing slip but what fclose() had to write.                *)
THEOREM SavesAreHonest == Spec => []SaveHonest
  BY Invariant, IInvImplies, PTL

(* Where every save without -r is a save -x: the plain form looks for the   *)
(* file and empties it in two calls, save.c:74-79.                          *)
SavesCreate == \A j \in Jobs : j.command = "save" /\ ~ j.rewrite => j.exec

(* A save -x without -r changes no file that was there and that it did not  *)
(* create itself, whatever other processes do between its calls.            *)
THEOREM OldFilesAreKept ==
  ASSUME SavesCreate
  PROVE  Spec => OldFilesKept
<1>1. IInv /\ [Next]_vars =>
        [\A p \in Process :
           /\ job[p].command = "save" /\ ~ job[p].rewrite
           /\ pc'[p] # pc[p] \/ left'[p] # left[p]
           => \A f \in File :
                text[f] # NoFile /\ p \notin writers[f] => text'[f] = text[f]]_vars
  <2> SUFFICES ASSUME IInv, [Next]_vars, NEW p \in Process,
                      job[p].command = "save", ~ job[p].rewrite,
                      pc'[p] # pc[p] \/ left'[p] # left[p],
                      NEW f \in File, text[f] # NoFile, p \notin writers[f]
               PROVE  text'[f] = text[f]
    OBVIOUS
  <2>1. ControlOK /\ DiskOK /\ ModeOK
    BY DEF IInv, FilesOK
  <2>2. PICK q \in Process : Step(q)
    BY DEF vars, tool, disk, Next
  <2>3. q = p
    <3>1. Alone(q)
      BY <2>1, <2>2, StepAlone
    <3> QED
      BY <3>1 DEF Alone
  <2>4. job[p].exec
    BY <2>1 DEF SavesCreate, ControlOK
  <2>5. CASE CreateFile(p)
    BY <2>1, <2>4, <2>5 DEF CreateFile, Emptied, Target, DiskOK
  <2>6. CASE WriteImage(p) \/ WriteBuffered(p) \/ WriteFails(p) \/ CloseFile(p)
    <3>1. \E pieces \in SUBSET {1, 2} : Put(p, pieces)
      BY <2>6 DEF WriteImage, WriteBuffered, WriteFails, CloseFile, Flushed
    <3> QED
      BY <2>1, <3>1 DEF Put, DiskOK
  <2>7. ~ DeleteFile(p)
    BY <2>1 DEF DeleteFile, ModeOK
  <2> QED
    BY <2>2, <2>3, <2>5, <2>6, <2>7
    DEF Step, Run, LinkFails, TakeAndKeep, Take, Release, ReleaseFails, Load, LoadFails,
        CheckFile, DeleteFails, CreateFails, disk
<1> QED
  BY <1>1, Invariant, PTL DEF Spec, OldFilesKept
=============================================================================
