----------------------------- MODULE CopyProofs -----------------------------
(***************************************************************************)
(* Theorems about Copy, for every command line, every volume and every      *)
(* choice of faults.                                                        *)
(***************************************************************************)
EXTENDS Copy, SequenceTheorems, TLAPS

LEMMA PrefixPointwise ==
  ASSUME NEW s \in Seq(Unit), NEW t \in Seq(Unit)
  PROVE  IsPrefix(s, t) <=> /\ Len(s) <= Len(t)
                            /\ \A i \in 1..Len(s) : s[i] = t[i]
  BY DEF IsPrefix

LEMMA AppendIsLonger ==
  ASSUME NEW s \in Seq(Unit), NEW u \in Unit
  PROVE  IsPrefix(s, Append(s, u))
<1> DEFINE t == Append(s, u)
<1>1. Len(s) \in Nat
  BY LenProperties
<1>2. t \in Seq(Unit) /\ Len(t) = Len(s) + 1 /\ \A i \in 1..Len(s) : t[i] = s[i]
  BY AppendProperties
<1> HIDE DEF t
<1>3. IsPrefix(s, t)
  BY <1>1, <1>2, PrefixPointwise
<1> QED
  BY <1>3 DEF t

LEMMA EntriesTyped ==
  ASSUME TypeOK, NEW k \in Lines
  PROVE  Src(k) \in Entry /\ Dst(k) \in Entry
<1>1. inv \in Invocation
  BY CopyAssumption DEF TypeOK
<1>2. inv.lines[k] \in Path /\ inv.target \in Path
  BY <1>1 DEF Invocation, Lines
<1>3. Target(inv, k) \in Path
  BY <1>2 DEF Target, Path
<1> QED
  BY <1>2, <1>3, StorageAssumption DEF Src, Dst, EntryOf, Entry, Path

LEMMA SameCommandLine == [Next]_vars => inv' = inv /\ orig' = orig
  BY DEF Next, Program, vars, prog, OpenFails, OpenSucceeds, Allocate, CopyUnit, CopyEnd,
         CopyFails, Flush, CloseFiles, OpenCheck, VerifyUnit, VerifyFails, VerifyEnd,
         Crash, OtherProgram, Finish

LEMMA SameNames ==
  ASSUME inv' = inv
  PROVE  /\ Lines' = Lines
         /\ \A k \in Lines : Src(k)' = Src(k) /\ Dst(k)' = Dst(k)
         /\ cur' = cur => Src(cur)' = Src(cur) /\ Dst(cur)' = Dst(cur)
  BY DEF Lines, Src, Dst, Target

(* What happens to the volume: a target is created or cut, or a unit is     *)
(* appended to the target or to a file that grows.                          *)
AppendedTo(e, u) ==
  /\ e \in Growing \/ (e = Dst(cur) /\ pc \in {"copy", "close"})
  /\ disk[e] \in Seq(Unit)
  /\ disk' = [disk EXCEPT ![e] = Append(@, u)]
  /\ UNCHANGED prog

LEMMA DiskStep ==
  ASSUME TypeOK, [Next]_vars
  PROVE  \/ disk' = disk
         \/ OpenSucceeds
         \/ \E e \in Entry, u \in Unit : AppendedTo(e, u)
<1>1. CASE OpenSucceeds
  BY <1>1
<1>2. CASE Flush
  <2>1. pc \in {"copy", "close"} /\ cur \in Lines /\ Exists(Dst(cur))
    BY <1>2 DEF Flush, TypeOK
  <2>2. Dst(cur) \in Entry
    BY <2>1, EntriesTyped
  <2>3. disk[Dst(cur)] \in Seq(Unit)
    BY <2>1, <2>2 DEF TypeOK, Volume, Exists
  <2>4. PICK u \in Unit : disk' = [disk EXCEPT ![Dst(cur)] = Append(@, u)]
    <3>1. obuf \in Seq(Unit) /\ obuf # <<>>
      BY <1>2 DEF Flush, Drain, TypeOK
    <3>2. Stored(Head(obuf)) \subseteq Unit
      BY <3>1, HeadTailProperties DEF Stored
    <3> QED
      BY <1>2, <3>2 DEF Flush, Drain
  <2> QED
    BY <1>2, <2>1, <2>2, <2>3, <2>4 DEF AppendedTo, Flush
<1>3. CASE OtherProgram
  <2>1. PICK e \in Entry, u \in Unit :
          e \in Growing /\ Exists(e) /\ disk' = [disk EXCEPT ![e] = Append(@, u)]
    BY <1>3, GrowingAssumption DEF OtherProgram, Grow
  <2>2. disk[e] \in Seq(Unit)
    BY <2>1 DEF TypeOK, Volume, Exists
  <2> QED
    BY <1>3, <2>1, <2>2 DEF AppendedTo, OtherProgram
<1> QED
  BY <1>1, <1>2, <1>3
  DEF Next, Program, vars, OpenFails, Allocate, CopyUnit, CopyEnd, CopyFails,
      CloseFiles, OpenCheck, VerifyUnit, VerifyFails, VerifyEnd, Crash

LEMMA CutVolume ==
  ASSUME TypeOK, OpenSucceeds
  PROVE  /\ cur \in Lines /\ disk' \in Volume /\ disk'[Dst(cur)] = <<>> /\ disk'[Dst(cur)] # NoFile
         /\ \A d \in Entry : d # Dst(cur) => disk'[d] = disk[d]
         /\ \A d \in Entry : Exists(d) => disk'[d] # NoFile
<1>0. cur \in Lines
  BY DEF OpenSucceeds, TypeOK
<1>1. Dst(cur) \in Entry
  BY <1>0, EntriesTyped
<1>2. <<>> \in Seq(Unit) /\ <<>> # NoFile
  BY EmptySeq, StorageAssumption
<1>3. /\ disk' = [disk EXCEPT ![Dst(cur)] = <<>>]
      /\ disk \in Volume
  BY DEF OpenSucceeds, Created, TypeOK
<1> QED
  BY <1>0, <1>1, <1>2, <1>3 DEF Volume, Exists

LEMMA AppendedVolume ==
  ASSUME TypeOK, NEW e \in Entry, NEW u \in Unit, AppendedTo(e, u)
  PROVE  /\ disk' \in Volume
         /\ \A d \in Entry : d # e => disk'[d] = disk[d]
         /\ disk'[e] = Append(disk[e], u) /\ disk'[e] \in Seq(Unit) /\ disk'[e] # NoFile
         /\ \A d \in Entry : Exists(d) => disk'[d] # NoFile
<1>1. Append(disk[e], u) \in Seq(Unit)
  BY AppendProperties DEF AppendedTo
<1>2. disk' = [disk EXCEPT ![e] = Append(disk[e], u)] /\ disk \in Volume
  BY DEF AppendedTo, TypeOK
<1> QED
  BY <1>1, <1>2, StorageAssumption DEF Volume, Exists

(* No file goes away. *)
LEMMA FilesStay ==
  ASSUME TypeOK, [Next]_vars
  PROVE  disk' \in Volume /\ \A d \in Entry : Exists(d) => disk'[d] # NoFile
<1>1. CASE disk' = disk
  BY <1>1 DEF TypeOK, Exists
<1>2. CASE OpenSucceeds
  BY <1>2, CutVolume
<1>3. CASE \E e \in Entry, u \in Unit : AppendedTo(e, u)
  BY <1>3, AppendedVolume
<1> QED
  BY <1>1, <1>2, <1>3, DiskStep

-----------------------------------------------------------------------------
LEMMA TypeAtStart == Init => TypeOK
<1> SUFFICES ASSUME Init PROVE TypeOK
  OBVIOUS
<1>1. inv \in Invocations /\ disk \in Initial /\ disk \in Volume /\ orig \in Initial
  BY CopyAssumption DEF Init
<1>2. inv.lines \in Seq(Path)
  BY <1>1, CopyAssumption DEF Invocation
<1>3. inv.lines # <<>> => 1 \in Lines
  BY <1>2, EmptySeq DEF Lines
<1>4. obuf \in Seq(Unit)
  BY EmptySeq DEF Init
<1>5. failed \in BOOLEAN
  BY Zenon DEF Init
<1> QED
  BY <1>1, <1>3, <1>4, <1>5 DEF Init, TypeOK

LEMMA TypeStep == TypeOK /\ [Next]_vars => TypeOK'
<1> SUFFICES ASSUME TypeOK, [Next]_vars PROVE TypeOK'
  OBVIOUS
<1> DEFINE HandlesOK == pc \notin {"open", "done", "crashed"} => Exists(Src(cur)) /\ Exists(Dst(cur))
           ControlOK ==
             /\ cur \in Nat \ {0} /\ pos \in Nat \ {0}
             /\ status \in {0, 1} /\ failed \in BOOLEAN
             /\ pc \in {"open", "memory", "copy", "close", "check", "verify", "done", "crashed"}
             /\ pc \notin {"done", "crashed"} => cur \in Lines
             /\ HandlesOK
<1>0. inv.lines \in Seq(Path) /\ Len(inv.lines) \in Nat
  BY CopyAssumption, LenProperties DEF TypeOK, Invocation
<1>e. \A k \in Lines : Src(k) \in Entry /\ Dst(k) \in Entry
  BY EntriesTyped
<1>u. /\ inv' = inv /\ orig' = orig /\ Lines' = Lines
      /\ cur' = cur => Src(cur)' = Src(cur) /\ Dst(cur)' = Dst(cur)
  BY SameCommandLine, SameNames
<1>d. disk' \in Volume /\ \A d \in Entry : Exists(d) => disk'[d] # NoFile
  BY FilesStay
<1>p. pc \notin {"done", "crashed"} => cur \in Lines
  BY DEF TypeOK
<1>f. ASSUME NEW s \in {0, 1}, Finish(s)
      PROVE  /\ cur' \in Nat \ {0} /\ pos' \in Nat \ {0}
             /\ status' \in {0, 1} /\ failed' \in BOOLEAN
             /\ pc' \in {"open", "done"} /\ (pc' = "open" => cur' \in Lines')
             /\ HandlesOK'
  <2>1. cur' = cur + 1 /\ pos' = 1 /\ cur \in Nat \ {0}
    BY <1>f DEF Finish, TypeOK
  <2>2. status' \in {0, 1}
    BY <1>f DEF Finish, TypeOK
  <2>3. failed' \in BOOLEAN
    BY <1>f, Zenon DEF Finish
  <2>4. pc' \in {"open", "done"} /\ (pc' = "open" => cur < Len(inv.lines))
    BY <1>f DEF Finish
  <2>5. pc' = "open" => cur' \in Lines'
    BY <1>0, <1>u, <2>1, <2>4 DEF Lines
  <2> QED
    BY <2>1, <2>2, <2>3, <2>4, <2>5
(* Everything but the buffer. *)
<1>c. ControlOK'
  <2>a. ASSUME UNCHANGED cur, failed' = failed \/ failed' = TRUE, pos' \in Nat \ {0}, status' = status,
               pc \notin {"done", "crashed"} \/ pc' = pc,
               pc' \in {"memory", "copy", "close", "check", "verify", "crashed", pc},
               pc' \notin {"open", "done", "crashed"} =>
                 disk'[Src(cur)] # NoFile /\ disk'[Dst(cur)] # NoFile
        PROVE  ControlOK'
    <3>1. failed' \in BOOLEAN
      BY <2>a, Zenon DEF TypeOK
    <3>2. HandlesOK'
      BY <2>a, <1>u DEF Exists
    <3> QED
      BY <2>a, <1>u, <1>p, <3>1, <3>2 DEF TypeOK
  <2>h. pc \notin {"open", "done", "crashed"} => disk'[Src(cur)] # NoFile /\ disk'[Dst(cur)] # NoFile
    BY <1>d, <1>e DEF TypeOK
  <2>1. CASE \E s \in {0, 1} : Finish(s)
    BY <2>1, <1>f
  <2>2. CASE OpenSucceeds
    <3>1. cur \in Lines
      BY <2>2, CutVolume
    <3>2. disk'[Src(cur)] # NoFile /\ disk'[Dst(cur)] # NoFile
      BY <2>2, <3>1, <1>e, CutVolume DEF OpenSucceeds, Exists
    <3> QED
      BY <2>2, <2>a, <3>2 DEF OpenSucceeds, TypeOK
  <2>3. CASE Allocate /\ pc' = "copy" /\ UNCHANGED <<inv, cur, pos, failed, status, orig>>
    BY <2>3, <2>a, <2>h DEF Allocate, TypeOK
  <2>4. CASE CopyUnit \/ CopyEnd \/ CopyFails
    <3>1. /\ pc = "copy" /\ pc' \in {"copy", "close"} /\ pos' \in Nat \ {0}
          /\ UNCHANGED <<cur, status>>
      <4>1. pos \in Nat \ {0}
        BY DEF TypeOK
      <4>2. CASE CopyUnit
        BY <4>1, <4>2 DEF CopyUnit
      <4>3. CASE CopyEnd
        BY <4>1, <4>3 DEF CopyEnd
      <4>4. CASE CopyFails
        BY <4>1, <4>4 DEF CopyFails
      <4> QED
        BY <2>4, <4>2, <4>3, <4>4
    <3>2. failed' = failed \/ failed' = TRUE
      BY <2>4, Zenon DEF CopyUnit, CopyEnd, CopyFails
    <3>3. disk'[Src(cur)] # NoFile /\ disk'[Dst(cur)] # NoFile
      BY <3>1, <2>h
    <3> QED
      BY <3>1, <3>2, <3>3, <2>a
  <2>5. CASE CloseFiles /\ pc' = "check" /\ UNCHANGED <<inv, cur, pos, failed, status, orig>>
    BY <2>5, <2>a, <2>h DEF CloseFiles, TypeOK
  <2>6. CASE OpenCheck /\ pc' = "verify" /\ pos' = 1 /\ UNCHANGED <<inv, cur, failed, status, orig>>
    BY <2>6, <2>a, <2>h DEF OpenCheck
  <2>7. CASE VerifyUnit
    BY <2>7, <2>a, <2>h DEF VerifyUnit, TypeOK
  <2>8. CASE Crash
    BY <2>8, <2>a DEF Crash, TypeOK
  <2>9. CASE UNCHANGED prog
    BY <2>9, <2>a, <2>h DEF prog, TypeOK
  <2> QED
    BY <2>1, <2>2, <2>3, <2>4, <2>5, <2>6, <2>7, <2>8, <2>9
    DEF Next, Program, vars, OpenFails, Allocate, CloseFiles, OpenCheck, VerifyFails,
        VerifyEnd, Flush, OtherProgram
<1>b. obuf' \in Seq(Unit)
  <2>1. CASE CopyUnit
    <3>1. disk[Src(cur)] \in Seq(Unit)
      BY <2>1, <1>p, <1>e DEF CopyUnit, TypeOK, Volume, Exists
    <3>2. disk[Src(cur)][pos] \in Unit
      BY <2>1, <3>1, ElementOfSeq DEF CopyUnit, TypeOK
    <3> QED
      BY <2>1, <3>2, AppendProperties DEF CopyUnit, TypeOK
  <2>2. CASE Flush
    BY <2>2, HeadTailProperties DEF Flush, Drain, TypeOK
  <2>3. CASE obuf' = obuf \/ obuf' = <<>>
    BY <2>3, EmptySeq DEF TypeOK
  <2> QED
    BY <2>1, <2>2, <2>3
    DEF Next, Program, vars, OpenFails, OpenSucceeds, Allocate, CopyEnd, CopyFails,
        CloseFiles, OpenCheck, VerifyUnit, VerifyFails, VerifyEnd, Crash, OtherProgram, Grow
<1> QED
  BY <1>u, <1>d, <1>c, <1>b DEF TypeOK

(* Types: among them that both files are there while the program works on   *)
(* them, one() in copy.c:24.                                                *)
THEOREM CopyInvariant == Spec => []TypeOK
<1> QED
  BY TypeAtStart, TypeStep, PTL DEF Spec

-----------------------------------------------------------------------------
(* Only the target is written: whatever fails, no source is cut off or      *)
(* removed, as long as no target is a source under another name, which      *)
(* copy.c:31 does not ask.                                                  *)
THEOREM SourcesAreKept == Spec => SourcesKept
<1>1. TypeOK /\ [Next]_vars =>
        [Apart =>
           \A k \in Lines :
             Exists(Src(k)) => Exists(Src(k))' /\ IsPrefix(disk[Src(k)], disk[Src(k)]')]_vars
  <2> SUFFICES ASSUME TypeOK, [Next]_vars, Apart, NEW k \in Lines, Exists(Src(k))
               PROVE  Exists(Src(k))' /\ IsPrefix(disk[Src(k)], disk[Src(k)]')
    OBVIOUS
  <2>1. Src(k)' = Src(k) /\ Src(k) \in Entry
    BY EntriesTyped, SameCommandLine, SameNames
  <2>2. Exists(Src(k))'
    BY <2>1, FilesStay DEF Exists
  <2>3. disk[Src(k)] \in Seq(Unit)
    BY <2>1 DEF TypeOK, Volume, Exists
  <2>4. disk[Src(k)]' = disk'[Src(k)]
    BY <2>1
  <2>5. IsPrefix(disk[Src(k)], disk'[Src(k)])
    <3>1. CASE disk'[Src(k)] = disk[Src(k)]
      BY <3>1, <2>3, PrefixPointwise, LenProperties
    <3>2. CASE OpenSucceeds
      <4>1. Src(k) # Dst(cur)
        <5>1. CASE inv.list
          BY <5>1, <3>2, CutVolume DEF Apart, Src, Dst, Target, EntryOf
        <5>2. CASE ~ inv.list
          <6>1. Len(inv.lines) = 1
            BY <5>2, CopyAssumption DEF TypeOK
          <6>2. k = 1
            BY <6>1 DEF Lines
          <6> QED
            BY <5>2, <6>2 DEF Apart, Dst, Target
        <5> QED
          BY <5>1, <5>2
      <4>2. disk'[Src(k)] = disk[Src(k)]
        BY <3>2, <4>1, <2>1, CutVolume
      <4> QED
        BY <3>1, <4>2
    <3>3. ASSUME NEW e \in Entry, NEW u \in Unit, AppendedTo(e, u)
          PROVE  IsPrefix(disk[Src(k)], disk'[Src(k)])
      <4>1. CASE e = Src(k)
        <5>1. disk'[Src(k)] = Append(disk[Src(k)], u) /\ disk'[Src(k)] \in Seq(Unit)
          BY <3>3, <4>1, AppendedVolume
        <5> QED
          BY <5>1, <2>3, AppendIsLonger
      <4>2. CASE e # Src(k)
        <5>1. disk'[Src(k)] = disk[Src(k)]
          BY <3>3, <4>2, <2>1, AppendedVolume
        <5> QED
          BY <3>1, <5>1
      <4> QED
        BY <4>1, <4>2
    <3> QED
      BY <3>1, <3>2, <3>3, DiskStep
  <2> QED
    BY <2>2, <2>4, <2>5
<1> QED
  BY <1>1, CopyInvariant, PTL DEF Spec, SourcesKept

-----------------------------------------------------------------------------
(* Lines not reached yet, and lines without a source, have their targets as *)
(* they were, and what has no file has none later.                          *)
Untouched(k) == disk[Dst(k)] = orig[Dst(k)]

TargetInv ==
  /\ inv.abort /\ status = 1 => pc = "done"
  /\ Independent =>
       \A k \in Lines :
         /\ k > cur \/ (k = cur /\ pc \in {"open", "done"}) => Untouched(k)
         /\ orig[Src(k)] = NoFile => disk[Src(k)] = NoFile /\ Untouched(k)

LEMMA TargetAtStart == Init => TargetInv
  BY DEF Init, TargetInv, Untouched

LEMMA TargetStep == TypeOK /\ TargetInv /\ [Next]_vars => TargetInv'
<1> SUFFICES ASSUME TypeOK, TargetInv, [Next]_vars PROVE TargetInv'
  OBVIOUS
<1>u. inv' = inv /\ orig' = orig /\ Lines' = Lines
      /\ \A k \in Lines : Src(k)' = Src(k) /\ Dst(k)' = Dst(k)
  BY SameCommandLine, SameNames
<1>e. \A k \in Lines : Src(k) \in Entry /\ Dst(k) \in Entry
  BY EntriesTyped
<1>t. cur \in Nat \ {0} /\ Lines \subseteq Nat /\ status \in {0, 1}
      /\ (pc \notin {"done", "crashed"} => cur \in Lines)
  BY DEF TypeOK, Lines
<1>1. (inv.abort /\ status = 1 => pc = "done")'
  <2>1. CASE \E s \in {0, 1} : Finish(s) /\ pc # "done"
    <3>1. PICK s \in {0, 1} : Finish(s)
      BY <2>1
    <3>2. inv.abort /\ s = 1 => pc' = "done"
      BY <3>1 DEF Finish
    <3>3. inv.abort /\ s = 0 => status' # 1
      BY <2>1, <3>1, <1>t DEF Finish, TargetInv
    <3> QED
      BY <1>u, <3>2, <3>3
  <2>2. CASE status' = status /\ (pc' = pc \/ pc # "done")
    BY <2>2, <1>u DEF TargetInv
  <2> QED
    BY <2>1, <2>2
    DEF Next, Program, vars, prog, OpenFails, OpenSucceeds, Allocate, CopyUnit, CopyEnd,
        CopyFails, Flush, CloseFiles, OpenCheck, VerifyUnit, VerifyFails, VerifyEnd,
        Crash, OtherProgram
<1> DEFINE Kept(k) ==
             /\ k > cur \/ (k = cur /\ pc \in {"open", "done"}) => Untouched(k)
             /\ orig[Src(k)] = NoFile => disk[Src(k)] = NoFile /\ Untouched(k)
<1>k. ASSUME NEW k \in Lines,
             disk'[Src(k)] = disk[Src(k)] \/ orig[Src(k)] # NoFile,
             \/ disk'[Dst(k)] = disk[Dst(k)]
             \/ /\ orig[Src(k)] # NoFile
                /\ ~ (k > cur' \/ (k = cur' /\ pc' \in {"open", "done"})),
             Kept(k),
             (k > cur \/ (k = cur /\ pc \in {"open", "done"}))'
               => k > cur \/ (k = cur /\ pc \in {"open", "done"})
      PROVE  Kept(k)'
  BY <1>k, <1>u DEF Untouched
<1>2. ASSUME Independent, NEW k \in Lines
      PROVE  Kept(k)'
  <2>1. k \in Nat /\ Src(k) \in Entry /\ Dst(k) \in Entry
    BY <1>t, <1>e
  <2>2. Kept(k)
    BY <1>2 DEF TargetInv
(* The program comes to a line by leaving the one before it. *)
  <2>3. (k > cur \/ (k = cur /\ pc \in {"open", "done"}))'
          => k > cur \/ (k = cur /\ pc \in {"open", "done"})
    <3>1. CASE \E s \in {0, 1} : Finish(s)
      BY <3>1, <1>t, <2>1 DEF Finish
    <3>2. CASE /\ cur' = cur
               /\ pc' = pc \/ pc' \notin {"open", "done"}
      BY <3>2
    <3> QED
      BY <3>1, <3>2
      DEF Next, Program, vars, prog, OpenFails, OpenSucceeds, Allocate, CopyUnit, CopyEnd,
          CopyFails, Flush, CloseFiles, OpenCheck, VerifyUnit, VerifyFails, VerifyEnd,
          Crash, OtherProgram
  <2> QED
    <3>1. CASE disk' = disk
      BY <3>1, <2>2, <2>3, <1>k
    <3>2. CASE OpenSucceeds
      <4>1. cur \in Lines /\ Dst(cur) # Src(k) /\ (Dst(cur) = Dst(k) => cur = k)
        BY <1>2, <3>2, CutVolume DEF Independent
      <4>2. disk'[Src(k)] = disk[Src(k)] /\ (cur # k => disk'[Dst(k)] = disk[Dst(k)])
        BY <2>1, <3>2, <4>1, CutVolume
      <4>3. cur = k => orig[Src(k)] # NoFile
        BY <2>2, <3>2 DEF OpenSucceeds, Exists
      <4>4. cur = k => ~ (k > cur' \/ (k = cur' /\ pc' \in {"open", "done"}))
        BY <3>2, <2>1 DEF OpenSucceeds
      <4> QED
        BY <2>2, <2>3, <4>2, <4>3, <4>4, <1>k
    <3>3. ASSUME NEW e \in Entry, NEW u \in Unit, AppendedTo(e, u)
          PROVE  Kept(k)'
      <4>1. UNCHANGED prog /\ disk[e] \in Seq(Unit)
        BY <3>3 DEF AppendedTo
      <4>2. orig[Src(k)] # NoFile \/ disk'[Src(k)] = disk[Src(k)]
        <5>1. orig[Src(k)] = NoFile => disk[Src(k)] = NoFile
          BY <2>2
        <5> QED
          BY <5>1, <4>1, <3>3, <2>1, AppendedVolume, StorageAssumption
      <4>3. CASE e # Dst(k)
        <5>1. disk'[Dst(k)] = disk[Dst(k)]
          BY <3>3, <4>3, <2>1, AppendedVolume
        <5> QED
          BY <2>2, <2>3, <4>2, <5>1, <1>k
      <4>4. CASE e = Dst(k)
        <5>1. e = Dst(cur) /\ pc \in {"copy", "close"} /\ cur \in Lines
          BY <1>2, <3>3, <4>4, <1>t DEF AppendedTo, Independent
        <5>2. cur = k
          BY <1>2, <4>4, <5>1 DEF Independent
        <5>3. orig[Src(k)] # NoFile
          BY <2>2, <5>1, <5>2 DEF TypeOK, Exists
        <5>4. ~ (k > cur' \/ (k = cur' /\ pc' \in {"open", "done"}))
          BY <2>1, <4>1, <5>1, <5>2 DEF prog
        <5> QED
          BY <2>2, <2>3, <5>3, <5>4, <1>k
      <4> QED
        BY <4>3, <4>4
    <3> QED
      BY <3>1, <3>2, <3>3, DiskStep
<1>3. Independent' = Independent
  BY <1>u DEF Independent
<1> QED
  BY <1>1, <1>2, <1>3, <1>u DEF TargetInv

(* A missing source, and with -a a line after the first failure, leaves the *)
(* old target as it was: fopen(source) comes before fopen(target),          *)
(* copy.c:30-31.                                                            *)
THEOREM OldTargetsAreKept == Spec => []OldTargetsKept
<1>1. TypeOK /\ TargetInv => OldTargetsKept
  <2> SUFFICES ASSUME TypeOK, TargetInv, Independent, NEW k \in Lines,
                      \/ orig[Src(k)] = NoFile
                      \/ k > cur
                      \/ inv.abort /\ status = 1 /\ k >= cur
               PROVE  disk[Dst(k)] = orig[Dst(k)]
    BY DEF OldTargetsKept
  <2>1. k \in Nat /\ cur \in Nat
    BY DEF TypeOK, Lines
  <2> QED
    BY <2>1 DEF TargetInv, Untouched
<1> QED
  BY <1>1, TargetAtStart, TargetStep, CopyInvariant, PTL DEF Spec

-----------------------------------------------------------------------------
(* Why a verified copy is whole: the target never holds more units than the *)
(* source, the comparison goes over all units of the source, and a source   *)
(* only grows.                                                              *)
Whole(k) ==
  /\ orig[Src(k)] # NoFile
  /\ Holds(Dst(k), orig[Src(k)])
  /\ IsPrefix(disk[Dst(k)], disk[Src(k)])

SourceInv ==
  Independent => \A k \in Lines : orig[Src(k)] # NoFile => Holds(Src(k), orig[Src(k)])

WorkInv ==
  Independent =>
    /\ pc = "open" => pos = 1
    /\ pc \in {"open", "memory", "check", "verify"} => obuf = <<>>
    /\ pc \in {"memory", "copy", "close"} =>
         /\ Len(disk[Dst(cur)]) + Len(obuf) = pos - 1
         /\ pos - 1 <= Len(disk[Src(cur)])
    /\ pc \in {"check", "verify"} => Len(disk[Dst(cur)]) <= Len(disk[Src(cur)])
    /\ pc = "verify" =>
         /\ pos - 1 <= Len(disk[Dst(cur)])
         /\ \A i \in 1..(pos - 1) : disk[Src(cur)][i] = disk[Dst(cur)][i]

DoneInv ==
  Independent =>
    /\ inv.verify /\ status = 0 => \A k \in Lines : k < cur => Whole(k)
    /\ pc = "done" /\ status = 0 => \A k \in Lines : k < cur

LEMMA PrefixTransitive ==
  ASSUME NEW s \in Seq(Unit), NEW t \in Seq(Unit), NEW u \in Seq(Unit),
         IsPrefix(s, t), IsPrefix(t, u)
  PROVE  IsPrefix(s, u)
<1>1. Len(s) \in Nat /\ Len(t) \in Nat /\ Len(u) \in Nat
  BY LenProperties
<1>2. /\ Len(s) <= Len(t) /\ \A i \in 1..Len(s) : s[i] = t[i]
      /\ Len(t) <= Len(u) /\ \A i \in 1..Len(t) : t[i] = u[i]
  BY PrefixPointwise
<1>3. Len(s) <= Len(u) /\ \A i \in 1..Len(s) : s[i] = u[i]
  BY <1>1, <1>2
<1> QED
  BY <1>3, PrefixPointwise

(* Between two lines that do not meet, a source only grows, and a target    *)
(* changes only while its own line is worked on.                            *)
LEMMA LineStep ==
  ASSUME TypeOK, [Next]_vars, Independent, NEW k \in Lines
  PROVE  /\ disk[Src(k)] \in Seq(Unit) =>
              disk'[Src(k)] \in Seq(Unit) /\ IsPrefix(disk[Src(k)], disk'[Src(k)])
         /\ k # cur \/ pc \notin {"open", "copy", "close"} => disk'[Dst(k)] = disk[Dst(k)]
<1>1. Src(k) \in Entry /\ Dst(k) \in Entry
  BY EntriesTyped
<1>2. CASE disk' = disk
  BY <1>2, PrefixPointwise, LenProperties
<1>3. CASE OpenSucceeds
  <2>1. cur \in Lines /\ pc = "open" /\ Dst(cur) # Src(k) /\ (Dst(cur) = Dst(k) => cur = k)
    BY <1>3, CutVolume DEF OpenSucceeds, Independent
  <2>2. disk'[Src(k)] = disk[Src(k)] /\ (cur # k => disk'[Dst(k)] = disk[Dst(k)])
    BY <1>1, <1>3, <2>1, CutVolume
  <2> QED
    BY <2>1, <2>2, PrefixPointwise, LenProperties
<1>4. ASSUME NEW e \in Entry, NEW u \in Unit, AppendedTo(e, u)
      PROVE  /\ disk[Src(k)] \in Seq(Unit) =>
                  disk'[Src(k)] \in Seq(Unit) /\ IsPrefix(disk[Src(k)], disk'[Src(k)])
             /\ k # cur \/ pc \notin {"open", "copy", "close"} => disk'[Dst(k)] = disk[Dst(k)]
  <2>1. k # cur \/ pc \notin {"open", "copy", "close"} => e # Dst(k)
    BY <1>4 DEF AppendedTo, Independent, TypeOK
  <2>2. CASE e = Src(k)
    BY <1>1, <1>4, <2>1, <2>2, AppendedVolume, AppendIsLonger
  <2>3. CASE e # Src(k)
    BY <1>1, <1>4, <2>1, <2>3, AppendedVolume, PrefixPointwise, LenProperties
  <2> QED
    BY <2>2, <2>3
<1> QED
  BY <1>2, <1>3, <1>4, DiskStep

LEMMA SourceStep == TypeOK /\ SourceInv /\ [Next]_vars => SourceInv'
<1> SUFFICES ASSUME TypeOK, SourceInv, [Next]_vars PROVE SourceInv'
  OBVIOUS
<1>u. inv' = inv /\ orig' = orig /\ Lines' = Lines
      /\ \A k \in Lines : Src(k)' = Src(k) /\ Dst(k)' = Dst(k)
  BY SameCommandLine, SameNames
<1>1. Independent' = Independent
  BY <1>u DEF Independent
<1>2. ASSUME Independent, NEW k \in Lines, orig[Src(k)] # NoFile
      PROVE  disk'[Src(k)] # NoFile /\ IsPrefix(orig[Src(k)], disk'[Src(k)])
  <2>1. Src(k) \in Entry
    BY EntriesTyped
  <2>2. orig[Src(k)] \in Seq(Unit) /\ disk[Src(k)] \in Seq(Unit) /\ IsPrefix(orig[Src(k)], disk[Src(k)])
    BY <1>2, <2>1, CopyAssumption DEF SourceInv, Holds, Exists, TypeOK, Volume
  <2>3. disk'[Src(k)] \in Seq(Unit) /\ IsPrefix(disk[Src(k)], disk'[Src(k)])
    BY <1>2, <2>2, LineStep
  <2> QED
    BY <2>2, <2>3, PrefixTransitive, StorageAssumption
<1> QED
  BY <1>u, <1>1, <1>2 DEF SourceInv, Holds, Exists

(* A line that was copied whole stays so. *)
LEMMA WholeStep ==
  ASSUME TypeOK, SourceInv, [Next]_vars, Independent, NEW k \in Lines, k < cur, Whole(k)
  PROVE  Whole(k)'
<1>u. inv' = inv /\ orig' = orig
      /\ Src(k)' = Src(k) /\ Dst(k)' = Dst(k)
  BY SameCommandLine, SameNames
<1>1. Src(k) \in Entry /\ Dst(k) \in Entry /\ k # cur
  BY EntriesTyped DEF TypeOK, Lines
<1>2. orig[Src(k)] # NoFile /\ disk[Dst(k)] # NoFile
      /\ IsPrefix(orig[Src(k)], disk[Dst(k)]) /\ IsPrefix(disk[Dst(k)], disk[Src(k)])
  BY DEF Whole, Holds, Exists
<1>3. disk'[Dst(k)] = disk[Dst(k)]
  BY <1>1, LineStep
<1>4. IsPrefix(disk[Dst(k)], disk'[Src(k)])
  <2>1. disk[Src(k)] \in Seq(Unit) /\ disk[Dst(k)] \in Seq(Unit)
    BY <1>1, <1>2 DEF TypeOK, Volume, SourceInv, Holds, Exists
  <2>2. disk'[Src(k)] \in Seq(Unit) /\ IsPrefix(disk[Src(k)], disk'[Src(k)])
    BY <2>1, LineStep
  <2> QED
    BY <1>2, <2>1, <2>2, PrefixTransitive
<1> QED
  BY <1>u, <1>2, <1>3, <1>4 DEF Whole, Holds, Exists

LEMMA WorkStep == TypeOK /\ WorkInv /\ [Next]_vars => WorkInv'
<1> SUFFICES ASSUME TypeOK, WorkInv, [Next]_vars PROVE WorkInv'
  OBVIOUS
<1>u. inv' = inv /\ orig' = orig /\ Lines' = Lines
      /\ (\A k \in Lines : Src(k)' = Src(k) /\ Dst(k)' = Dst(k))
      /\ (cur' = cur => Src(cur)' = Src(cur) /\ Dst(cur)' = Dst(cur))
  BY SameCommandLine, SameNames
<1>0. Independent' = Independent
  BY <1>u DEF Independent
<1> SUFFICES ASSUME Independent PROVE WorkInv'
  BY <1>0 DEF WorkInv
<1> DEFINE copying == {"memory", "copy", "close"}
           Work(where, p, src, dst, buf) ==
             /\ where = "open" => p = 1
             /\ where \in {"open", "memory", "check", "verify"} => buf = <<>>
             /\ where \in copying => Len(dst) + Len(buf) = p - 1 /\ p - 1 <= Len(src)
             /\ where \in {"check", "verify"} => Len(dst) <= Len(src)
             /\ where = "verify" =>
                  /\ p - 1 <= Len(dst)
                  /\ \A i \in 1..(p - 1) : src[i] = dst[i]
<1>w. Work(pc, pos, disk[Src(cur)], disk[Dst(cur)], obuf)
  BY DEF WorkInv
<1>1. ASSUME cur' = cur, Work(pc', pos', disk'[Src(cur)], disk'[Dst(cur)], obuf')
      PROVE  WorkInv'
  BY <1>u, <1>1 DEF WorkInv
<1>t. pos \in Nat \ {0} /\ obuf \in Seq(Unit) /\ Len(obuf) \in Nat
  BY LenProperties DEF TypeOK
<1>a. ASSUME pc \notin {"open", "done", "crashed"}
      PROVE  /\ cur \in Lines
             /\ disk[Src(cur)] \in Seq(Unit) /\ Len(disk[Src(cur)]) \in Nat
             /\ disk[Dst(cur)] \in Seq(Unit) /\ Len(disk[Dst(cur)]) \in Nat
  <2>1. cur \in Lines /\ Exists(Src(cur)) /\ Exists(Dst(cur))
    BY <1>a DEF TypeOK
  <2>2. Src(cur) \in Entry /\ Dst(cur) \in Entry
    BY <2>1, EntriesTyped
  <2>3. disk[Src(cur)] \in Seq(Unit) /\ disk[Dst(cur)] \in Seq(Unit)
    BY <2>1, <2>2 DEF TypeOK, Volume, Exists
  <2> QED
    BY <2>1, <2>3, LenProperties
<1>2. CASE \E s \in {0, 1} : Finish(s) /\ (obuf' = <<>> \/ (obuf' = obuf /\ pc \in {"open", "memory", "check", "verify"}))
  <2>1. obuf' = <<>> /\ pos' = 1 /\ pc' \in {"open", "done"}
    BY <1>2, <1>w DEF Finish
  <2> QED
    BY <2>1 DEF WorkInv
<1>3. CASE OpenSucceeds
  <2>1. cur \in Lines /\ disk'[Dst(cur)] = <<>> /\ Dst(cur) # Src(cur)
    BY <1>3, CutVolume DEF Independent
  <2>2. disk'[Src(cur)] = disk[Src(cur)] /\ disk[Src(cur)] \in Seq(Unit)
    BY <1>3, <2>1, CutVolume, EntriesTyped DEF OpenSucceeds, Exists, TypeOK, Volume
  <2>3. Len(disk[Src(cur)]) \in Nat /\ Len(<<>>) = 0
    BY <2>2, LenProperties, EmptySeq
  <2>4. pc = "open" /\ pc' = "memory" /\ UNCHANGED <<cur, pos, obuf>>
    BY <1>3 DEF OpenSucceeds
  <2>5. obuf' = <<>> /\ pos' = 1
    BY <2>4, <1>w
  <2> QED
    BY <1>1, <2>1, <2>2, <2>3, <2>4, <2>5
<1>4. CASE /\ UNCHANGED <<disk, cur, pos, obuf>>
           /\ \/ pc' = pc
              \/ pc \in copying /\ pc' \in {"copy", "close"}
  BY <1>1, <1>4, <1>w
<1>5. CASE CopyUnit
  <2>1. /\ pc = "copy" /\ pc' = "copy" /\ pos <= Len(disk[Src(cur)])
        /\ pos' = pos + 1 /\ UNCHANGED <<disk, cur>>
    BY <1>5 DEF CopyUnit
  <2>2. disk[Src(cur)][pos] \in Unit
    BY <2>1, <1>a, <1>t, ElementOfSeq
  <2>3. Len(obuf') = Len(obuf) + 1
    BY <1>5, <1>t, <2>2, AppendProperties DEF CopyUnit
  <2>4. Len(disk[Dst(cur)]) + Len(obuf) = pos - 1
    BY <2>1, <1>w
  <2> DEFINE ls == Len(disk[Src(cur)])
             ld == Len(disk[Dst(cur)])
             lb == Len(obuf)
             lc == Len(obuf')
  <2>5. ls \in Nat /\ ld \in Nat /\ lb \in Nat /\ pos \in Nat /\ pos <= ls /\ lc = lb + 1 /\ ld + lb = pos - 1
    BY <2>1, <2>3, <2>4, <1>a, <1>t
  <2>6. ASSUME ld + lc = pos /\ pos <= ls
        PROVE  Work(pc', pos', disk'[Src(cur)], disk'[Dst(cur)], obuf')
    <3>1. pos' - 1 = pos
      BY <2>1, <1>t
    <3> QED
      BY <2>1, <2>6, <3>1
  <2> HIDE DEF ls, ld, lb, lc
  <2>7. ld + lc = pos /\ pos <= ls
    BY <2>5
  <2> QED
    BY <1>1, <2>1, <2>6, <2>7
<1>6. ASSUME NEW e \in Entry, NEW u \in Unit, AppendedTo(e, u), e \in Growing, obuf' = obuf
      PROVE  WorkInv'
  <2>1. UNCHANGED <<pc, cur, pos, obuf>>
    BY <1>6 DEF AppendedTo, prog
  <2>2. CASE pc \in {"open", "done", "crashed"}
    BY <1>1, <1>w, <2>1, <2>2
  <2>3. CASE pc \notin {"open", "done", "crashed"}
    <3>1. disk'[Dst(cur)] = disk[Dst(cur)]
      BY <1>6, <1>a, <2>3, AppendedVolume, EntriesTyped DEF Independent
    <3>2. disk'[Src(cur)] \in Seq(Unit) /\ IsPrefix(disk[Src(cur)], disk'[Src(cur)])
      BY <1>a, <2>3, LineStep
    <3>3. /\ Len(disk'[Src(cur)]) \in Nat
          /\ Len(disk[Src(cur)]) <= Len(disk'[Src(cur)])
          /\ \A i \in 1..Len(disk[Src(cur)]) : disk[Src(cur)][i] = disk'[Src(cur)][i]
      BY <3>2, <1>a, <2>3, PrefixPointwise, LenProperties
    <3> DEFINE src == disk[Src(cur)]
               long == disk'[Src(cur)]
               dst == disk[Dst(cur)]
    <3>4. /\ Work(pc, pos, src, dst, obuf)
          /\ Len(src) \in Nat /\ Len(long) \in Nat /\ Len(dst) \in Nat /\ Len(src) <= Len(long)
          /\ \A i \in 1..Len(src) : src[i] = long[i]
      BY <1>w, <1>a, <2>3, <3>3
    <3>5. Work(pc', pos', disk'[Src(cur)], disk'[Dst(cur)], obuf') <=> Work(pc, pos, long, dst, obuf)
      BY <2>1, <3>1
    <3> HIDE DEF src, long, dst
    <3>6. Work(pc, pos, long, dst, obuf)
      <4>1. pc \in copying => pos - 1 <= Len(long)
        BY <3>4, <1>t
      <4>2. pc \in {"check", "verify"} => Len(dst) <= Len(long)
        BY <3>4, <1>t
      <4>3. pc = "verify" => pos - 1 <= Len(dst) /\ \A i \in 1..(pos - 1) : long[i] = dst[i]
        BY <3>4, <1>t
      <4> QED
        BY <3>4, <4>1, <4>2, <4>3
    <3> QED
      BY <1>1, <2>1, <3>5, <3>6
  <2> QED
    BY <2>2, <2>3
<1>7. CASE Flush
  <2>1. /\ pc \in {"copy", "close"} /\ obuf # <<>> /\ UNCHANGED <<pc, cur, pos>>
        /\ cur \in Lines /\ obuf' = Tail(obuf)
        /\ \E u \in Stored(Head(obuf)) : disk' = [disk EXCEPT ![Dst(cur)] = Append(@, u)]
    BY <1>7, <1>a DEF Flush, Drain, prog
  <2>2. Stored(Head(obuf)) \subseteq Unit
    BY <2>1, <1>t, HeadTailProperties DEF Stored
  <2>3. Src(cur) # Dst(cur) /\ Src(cur) \in Entry /\ Dst(cur) \in Entry
    BY <2>1, EntriesTyped DEF Independent
  <2>4. PICK u \in Unit : disk' = [disk EXCEPT ![Dst(cur)] = Append(@, u)]
    BY <2>1, <2>2
  <2>5. disk'[Src(cur)] = disk[Src(cur)] /\ disk'[Dst(cur)] = Append(disk[Dst(cur)], u)
    BY <2>3, <2>4 DEF TypeOK, Volume
  <2>6. Len(disk'[Dst(cur)]) = Len(disk[Dst(cur)]) + 1
    BY <2>1, <2>5, <1>a, AppendProperties
  <2>7. Len(obuf') = Len(obuf) - 1
    BY <2>1, <1>t, HeadTailProperties
  <2> DEFINE ls == Len(disk[Src(cur)])
             ld == Len(disk[Dst(cur)])
             le == Len(disk'[Dst(cur)])
             lb == Len(obuf)
             lc == Len(obuf')
  <2>8. ls \in Nat /\ ld \in Nat /\ lb \in Nat /\ pos \in Nat /\ le = ld + 1 /\ lc = lb - 1
        /\ ld + lb = pos - 1 /\ pos - 1 <= ls
    BY <2>1, <2>6, <2>7, <1>a, <1>t, <1>w
  <2>9. ASSUME le + lc = pos - 1
        PROVE  Work(pc', pos', disk'[Src(cur)], disk'[Dst(cur)], obuf')
    BY <2>1, <2>5, <2>8, <2>9
  <2> HIDE DEF ls, ld, le, lb, lc
  <2>10. le + lc = pos - 1
    BY <2>8
  <2> QED
    BY <1>1, <2>1, <2>9, <2>10
<1>8. CASE CloseFiles /\ pc' = "check" /\ UNCHANGED <<inv, cur, pos, failed, status, orig>>
  <2>1. pc = "close" /\ obuf' = <<>> /\ UNCHANGED <<disk, cur, pos>>
    BY <1>8 DEF CloseFiles
  <2> DEFINE ls == Len(disk[Src(cur)])
             ld == Len(disk[Dst(cur)])
             lb == Len(obuf)
  <2>2. ls \in Nat /\ ld \in Nat /\ lb \in Nat /\ pos \in Nat /\ ld + lb = pos - 1 /\ pos - 1 <= ls
    BY <2>1, <1>a, <1>t, <1>w
  <2>3. ASSUME ld <= ls
        PROVE  Work(pc', pos', disk'[Src(cur)], disk'[Dst(cur)], obuf')
    BY <1>8, <2>1, <2>3
  <2> HIDE DEF ls, ld, lb
  <2>4. ld <= ls
    BY <2>2
  <2> QED
    BY <1>1, <2>1, <2>3, <2>4
<1>9. CASE OpenCheck /\ pc' = "verify" /\ pos' = 1 /\ UNCHANGED <<inv, cur, failed, status, orig>>
  <2>1. pc = "check" /\ UNCHANGED <<disk, obuf, cur>>
    BY <1>9 DEF OpenCheck
  <2>2. obuf = <<>> /\ Len(disk[Dst(cur)]) <= Len(disk[Src(cur)]) /\ Len(disk[Dst(cur)]) \in Nat
    BY <2>1, <1>a, <1>w
  <2> QED
    BY <1>1, <1>9, <2>1, <2>2
<1>10. CASE VerifyUnit
  <2>1. /\ pc = "verify" /\ pc' = "verify" /\ pos' = pos + 1
        /\ UNCHANGED <<disk, obuf, cur>>
        /\ pos <= Len(disk[Dst(cur)])
        /\ disk[Src(cur)][pos] = disk[Dst(cur)][pos]
    BY <1>10 DEF VerifyUnit
  <2>2. \A i \in 1..(pos' - 1) : i = pos \/ i \in 1..(pos - 1)
    BY <2>1, <1>t
  <2>3. pos' - 1 = pos
    BY <2>1, <1>t
  <2>4. \A i \in 1..(pos' - 1) : disk[Src(cur)][i] = disk[Dst(cur)][i]
    BY <2>1, <2>2, <1>w
  <2> QED
    BY <1>1, <2>1, <2>3, <2>4, <1>w
<1>11. CASE Crash
  BY <1>11, <1>1 DEF Crash
<1> QED
  <2>1. CASE OtherProgram
    <3>1. PICK e \in Entry, u \in Unit :
            /\ e \in Growing /\ Exists(e) /\ disk' = [disk EXCEPT ![e] = Append(@, u)]
            /\ UNCHANGED prog /\ obuf' = obuf
      BY <2>1, GrowingAssumption DEF OtherProgram, Grow
    <3>2. AppendedTo(e, u)
      BY <3>1 DEF AppendedTo, TypeOK, Volume, Exists
    <3> QED
      BY <3>1, <3>2, <1>6
  <2> QED
    BY <1>2, <1>3, <1>4, <1>5, <1>7, <1>8, <1>9, <1>10, <1>11, <2>1
    DEF Next, Program, vars, prog, OpenFails, Allocate, CopyEnd, CopyFails, CloseFiles,
        OpenCheck, VerifyFails, VerifyEnd

(* No read error of a source: copy.c:54 takes one for the end of the file.   *)
ReadsSource == "read source" \notin Faults

(* What the comparison has seen when it ends makes the copy whole: the      *)
(* target is the source.                                                    *)
LEMMA VerifiedIsEqual ==
  ASSUME TypeOK, TargetInv, SourceInv, WorkInv, Independent,
         ReadsSource,
         VerifyEnd, ~ Finish(1)
  PROVE  \A k \in Lines : k = cur => Whole(k)'
<1>1. /\ pc = "verify" /\ pos > Len(disk[Src(cur)]) /\ disk' = disk /\ inv' = inv /\ orig' = orig
      /\ cur \in Lines /\ Exists(Src(cur)) /\ Exists(Dst(cur))
  BY DEF VerifyEnd, Finish, TypeOK, ReadsSource
<1>2. Src(cur) \in Entry /\ Dst(cur) \in Entry
  BY <1>1, EntriesTyped
<1> DEFINE src == disk[Src(cur)]
           dst == disk[Dst(cur)]
           old == orig[Src(cur)]
<1>3. old # NoFile
  BY <1>1 DEF TargetInv, Exists
<1>4. src \in Seq(Unit) /\ dst \in Seq(Unit) /\ old \in Seq(Unit) /\ IsPrefix(old, src)
  BY <1>1, <1>2, <1>3, CopyAssumption DEF TypeOK, Volume, Exists, SourceInv, Holds
<1>5. /\ pos > Len(src) /\ pos - 1 <= Len(dst) /\ Len(dst) <= Len(src) /\ pos \in Nat
      /\ \A i \in 1..(pos - 1) : src[i] = dst[i]
  BY <1>1 DEF WorkInv, TypeOK
<1> HIDE DEF src, dst, old
<1>6. Len(src) \in Nat /\ Len(dst) \in Nat
  BY <1>4, LenProperties
<1>7. Len(src) = pos - 1 /\ Len(dst) = pos - 1
  BY <1>5, <1>6
<1>8. IsPrefix(dst, src) /\ IsPrefix(src, dst)
  BY <1>4, <1>5, <1>7, PrefixPointwise
<1>9. IsPrefix(old, dst)
  BY <1>4, <1>8, PrefixTransitive
<1>10. orig[Src(cur)] # NoFile /\ Holds(Dst(cur), orig[Src(cur)]) /\ IsPrefix(disk[Dst(cur)], disk[Src(cur)])
  BY <1>1, <1>3, <1>8, <1>9 DEF src, dst, old, Holds
<1>11. \A k \in Lines : Src(k)' = Src(k) /\ Dst(k)' = Dst(k)
  BY <1>1, SameNames
<1> QED
  BY <1>1, <1>10, <1>11 DEF Whole, Holds, Exists

LEMMA DoneStep ==
  ASSUME ReadsSource
  PROVE  TypeOK /\ TargetInv /\ SourceInv /\ WorkInv /\ DoneInv /\ [Next]_vars => DoneInv'
<1> SUFFICES ASSUME TypeOK, TargetInv, SourceInv, WorkInv, DoneInv, [Next]_vars
             PROVE  DoneInv'
  OBVIOUS
<1>u. inv' = inv /\ orig' = orig /\ Lines' = Lines
      /\ \A k \in Lines : Src(k)' = Src(k) /\ Dst(k)' = Dst(k)
  BY SameCommandLine, SameNames
<1>0. Independent' = Independent
  BY <1>u DEF Independent
<1> SUFFICES ASSUME Independent, status' = 0 PROVE DoneInv'
  BY <1>0 DEF DoneInv
<1>t. cur \in Nat \ {0} /\ Lines = 1..Len(inv.lines) /\ Lines \subseteq Nat /\ Len(inv.lines) \in Nat
  BY CopyAssumption, LenProperties DEF TypeOK, Invocation, Lines
<1>s. CASE \/ /\ UNCHANGED <<cur, status>>
              /\ pc' = pc \/ pc' # "done"
           \/ Finish(0)
  <2>1. status = 0
    BY <1>s DEF Finish, TypeOK
  <2>2. ASSUME inv.verify, NEW k \in Lines, k < cur
        PROVE  Whole(k)'
    BY <2>1, <2>2, WholeStep DEF DoneInv
  <2>3. CASE UNCHANGED <<cur, status>> /\ (pc' = pc \/ pc' # "done")
    BY <1>u, <2>1, <2>2, <2>3 DEF DoneInv
  <2>4. CASE Finish(0)
    <3>1. cur' = cur + 1 /\ (pc' = "done" => ~ (cur < Len(inv.lines)))
      BY <2>4 DEF Finish
    <3>2. pc' = "done" => \A k \in Lines : k < cur'
      BY <3>1, <1>t
    <3>3. ASSUME inv.verify, NEW k \in Lines, k < cur'
          PROVE  Whole(k)'
      <4>1. k < cur \/ k = cur
        BY <3>1, <3>3, <1>t
      <4>2. CASE k < cur
        BY <2>2, <3>3, <4>2
      <4>3. CASE k = cur
        <5>1. VerifyEnd
          BY <2>4, <3>3, <3>1, <1>t
          DEF Next, Program, vars, prog, OpenFails, OpenSucceeds, Allocate, CopyUnit, CopyEnd,
              CopyFails, Flush, CloseFiles, OpenCheck, VerifyUnit, VerifyFails, Crash,
              OtherProgram, Finish
        <5>2. ~ Finish(1)
          BY DEF Finish
        <5> QED
          BY <4>3, <5>1, <5>2, VerifiedIsEqual
      <4> QED
        BY <4>1, <4>2, <4>3
    <3> QED
      BY <1>u, <3>2, <3>3 DEF DoneInv
  <2> QED
    BY <1>s, <2>3, <2>4
<1> QED
  <2>1. ~ Finish(1)
    BY DEF Finish
  <2> QED
    BY <1>s, <2>1
    DEF Next, Program, vars, prog, OpenFails, OpenSucceeds, Allocate, CopyUnit, CopyEnd,
        CopyFails, Flush, CloseFiles, OpenCheck, VerifyUnit, VerifyFails, VerifyEnd, Crash,
        OtherProgram

LEMMA WorkAtStart == Init => SourceInv /\ WorkInv /\ DoneInv
<1> SUFFICES ASSUME Init PROVE SourceInv /\ WorkInv /\ DoneInv
  OBVIOUS
<1>1. TypeOK
  BY TypeAtStart
<1>2. SourceInv
  <2>1. ASSUME NEW k \in Lines, orig[Src(k)] # NoFile
        PROVE  Holds(Src(k), orig[Src(k)])
    <3>1. orig[Src(k)] \in Seq(Unit) /\ disk[Src(k)] = orig[Src(k)]
      BY <1>1, <2>1, EntriesTyped DEF TypeOK, Volume, Init
    <3>2. IsPrefix(orig[Src(k)], orig[Src(k)])
      BY <3>1, PrefixPointwise, LenProperties
    <3> QED
      BY <2>1, <3>1, <3>2 DEF Holds, Exists
  <2> QED
    BY <2>1 DEF SourceInv
<1>3. WorkInv
  BY DEF Init, WorkInv
<1>4. DoneInv
  <2>1. \A k \in Lines : ~ (k < cur)
    BY DEF Init, Lines
  <2>2. pc = "done" => Lines = {}
    <3>1. pc = "done" => Len(inv.lines) = 0
      BY EmptySeq DEF Init
    <3> QED
      BY <3>1 DEF Lines
  <2> QED
    BY <2>1, <2>2 DEF DoneInv
<1> QED
  BY <1>2, <1>3, <1>4

(* copy -v that returns 0 has made every copy whole, whatever the medium    *)
(* does to what it is given and although fclose() is not asked, copy.c:54.  *)
(* A read error of the source is left out: copy takes it for the end.       *)
THEOREM VerifiedIsWhole ==
  ASSUME ReadsSource
  PROVE  Spec => []VerifiedCopiesWhole
<1>1. DoneInv => VerifiedCopiesWhole
  BY DEF DoneInv, VerifiedCopiesWhole, Whole
<1>2. TypeOK /\ TargetInv /\ SourceInv /\ WorkInv /\ DoneInv /\ [Next]_vars => DoneInv'
  BY DoneStep
<1> QED
  BY <1>1, <1>2, WorkAtStart, TargetAtStart, TargetStep, SourceStep, WorkStep, CopyInvariant,
     PTL DEF Spec
=============================================================================
