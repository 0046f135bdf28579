------------------------------ MODULE MvProofs ------------------------------
EXTENDS Mv, SequenceTheorems, TLAPS

LEMMA PrefixPointwise ==
  ASSUME NEW s \in Seq(Unit), NEW t \in Seq(Unit)
  PROVE  IsPrefix(s, t) <=> /\ Len(s) <= Len(t)
                            /\ \A i \in 1..Len(s) : s[i] = t[i]
  BY DEF IsPrefix

LEMMA EntriesTyped ==
  ASSUME TypeOK, NEW k \in Lines
  PROVE  Src(k) \in Entry /\ Dst(k) \in Entry
<1>1. inv \in Invocation
  BY MvAssumption DEF TypeOK
<1>2. inv.lines[k] \in Path /\ inv.target \in Path
  BY <1>1 DEF Invocation, Lines
<1>3. Target(inv, k) \in Path
  BY <1>2 DEF Target, Path
<1> QED
  BY <1>2, <1>3, StorageAssumption DEF Src, Dst, EntryOf, Entry, Path

LEMMA SameCommandLine == [Next]_vars => inv' = inv /\ orig' = orig
  BY DEF Next, Program, vars, prog, Start, RenameSucceeds, RenameFails, OpenFails,
         OpenSucceeds, CopyUnit, CopyEnd, CopyFails, Flush, CloseFiles, OpenCheck,
         VerifyUnit, VerifyFails, VerifyEnd, RemoveSource, RemoveFails, Crash,
         OtherProgram, Finish

LEMMA SameNames ==
  ASSUME inv' = inv
  PROVE  /\ Lines' = Lines
         /\ \A k \in Lines : Src(k)' = Src(k) /\ Dst(k)' = Dst(k)
         /\ cur' = cur => Src(cur)' = Src(cur) /\ Dst(cur)' = Dst(cur)
  BY DEF Lines, Src, Dst, Target

LEMMA AppendedVolume ==
  ASSUME disk \in Volume, NEW e, NEW u \in Unit,
         disk[e] \in Seq(Unit), disk' = [disk EXCEPT ![e] = Append(@, u)]
  PROVE  disk' \in Volume /\ \A d \in Entry : Exists(d) => Exists(d)'
<1>1. Append(disk[e], u) \in Seq(Unit)
  BY AppendProperties
<1>2. disk' \in Volume
  BY <1>1 DEF Volume
<1>3. ASSUME NEW d \in Entry, Exists(d) PROVE Exists(d)'
  <2>1. disk'[d] = IF d = e THEN Append(disk[e], u) ELSE disk[d]
    BY DEF Volume
  <2> QED
    BY <2>1, <1>1, <1>3, StorageAssumption DEF Exists
<1> QED
  BY <1>2, <1>3

LEMMA TypeStep == TypeOK /\ [Next]_vars => TypeOK'
<1> SUFFICES ASSUME TypeOK, [Next]_vars PROVE TypeOK'
  OBVIOUS
<1> USE DEF TypeOK, Volume, Opened
<1>0. inv.lines \in Seq(Path) /\ Len(inv.lines) \in Nat
  BY MvAssumption DEF Invocation
<1>e. \A k \in Lines : Src(k) \in Entry /\ Dst(k) \in Entry
  BY EntriesTyped
<1>s. /\ inv' = inv /\ Lines' = Lines
      /\ cur' = cur => Src(cur)' = Src(cur) /\ Dst(cur)' = Dst(cur)
  BY SameCommandLine, SameNames
<1>f. ASSUME NEW s \in {0, 1}, Finish(s), obuf' \in Seq(Unit), disk' \in Volume,
             pc \notin {"start", "done", "crashed"}
      PROVE  TypeOK'
  <2>1. cur' \in Nat \ {0} /\ pos' \in Nat \ {0}
    BY <1>f DEF Finish
  <2>2. status' \in {0, 1}
    BY <1>f DEF Finish
  <2>3. failed' \in BOOLEAN
    BY <1>f, Zenon DEF Finish
  <2>4. inv' \in Invocations /\ orig' \in Initial
    BY <1>f DEF Finish
  <2>5. CASE cur < Len(inv.lines)
    <3>1. pc' = "rename" /\ cur' \in Lines'
      BY <2>5, <1>f, <1>0, <1>s DEF Finish, Lines
    <3> QED
      BY <3>1, <2>1, <2>2, <2>3, <2>4, <1>f DEF HandlesOK
  <2>6. CASE ~ cur < Len(inv.lines)
    <3>1. pc' = "done"
      BY <2>6, <1>f DEF Finish
    <3> QED
      BY <3>1, <2>1, <2>2, <2>3, <2>4, <1>f DEF HandlesOK
  <2> QED
    BY <2>5, <2>6
<1>1. CASE Start
  <2>1. inv.lines # <<>> => 1 \in Lines
    BY <1>0, EmptySeq DEF Lines
  <2> QED
    BY <1>1, <1>s, <2>1 DEF Start, HandlesOK
<1>2. CASE RenameSucceeds
  BY <1>2, <1>e, <1>f DEF RenameSucceeds, Renamed, Exists
<1>3. CASE RenameFails
  BY <1>3, <1>s DEF RenameFails, HandlesOK
<1>4. CASE OpenFails
  BY <1>4, <1>f DEF OpenFails
<1>5. CASE OpenSucceeds
  <2>1. disk' \in Volume /\ Exists(Src(cur))' /\ Exists(Dst(cur))'
    BY <1>5, <1>e, <1>s, StorageAssumption, EmptySeq DEF OpenSucceeds, Created, Exists
  <2> QED
    BY <1>5, <1>s, <2>1 DEF OpenSucceeds, HandlesOK
<1>6. CASE CopyUnit
  <2>1. disk[Src(cur)] \in Seq(Unit)
    BY <1>6, <1>e DEF CopyUnit, HandlesOK, Exists
  <2>2. disk[Src(cur)][pos] \in Unit
    BY <1>6, <2>1, ElementOfSeq DEF CopyUnit
  <2> QED
    BY <1>6, <1>s, <2>2 DEF CopyUnit, HandlesOK, Exists
<1>7. CASE CopyEnd
  BY <1>7, <1>s DEF CopyEnd, HandlesOK, Exists
<1>8. CASE CopyFails
  BY <1>8, <1>s DEF CopyFails, HandlesOK, Exists
<1>9. CASE CloseFiles
  <2>1. <<>> \in Seq(Unit)
    OBVIOUS
  <2> QED
    BY <1>9, <1>s, <1>f, <2>1 DEF CloseFiles, HandlesOK, Exists
<1>10. CASE OpenCheck
  BY <1>10, <1>s, <1>f DEF OpenCheck, HandlesOK, Exists
<1>11. CASE VerifyUnit
  BY <1>11, <1>s DEF VerifyUnit, HandlesOK, Exists
<1>12. CASE VerifyFails
  BY <1>12, <1>f DEF VerifyFails
<1>13. CASE VerifyEnd
  BY <1>13, <1>s, <1>f DEF VerifyEnd, HandlesOK, Exists
<1>14. CASE RemoveSource
  BY <1>14, <1>e, <1>f DEF RemoveSource, Deleted
<1>15. CASE RemoveFails
  BY <1>15, <1>f DEF RemoveFails
<1>16. CASE Flush
  <2>1. PICK u \in Unit : disk' = [disk EXCEPT ![Dst(cur)] = Append(@, u)]
    <3>1. obuf \in Seq(Unit) /\ obuf # <<>>
      BY <1>16 DEF Flush, Drain
    <3>2. Stored(Head(obuf)) \subseteq Unit
      BY <3>1, HeadTailProperties DEF Stored
    <3> QED
      BY <1>16, <3>2 DEF Flush, Drain
  <2>2. disk[Dst(cur)] \in Seq(Unit)
    BY <1>16, <1>e DEF Flush, HandlesOK, Exists
  <2>3. disk' \in Volume /\ \A e \in Entry : Exists(e) => Exists(e)'
    BY <2>1, <2>2, AppendedVolume
  <2>4. obuf' \in Seq(Unit)
    BY <1>16 DEF Flush, Drain
  <2> QED
    BY <1>16, <1>s, <1>e, <2>3, <2>4 DEF Flush, prog, HandlesOK
<1>17. CASE Crash
  BY <1>17, <1>s DEF Crash, HandlesOK
<1>18. CASE OtherProgram
  <2>1. PICK e \in Entry, u \in Unit : Exists(e) /\ disk' = [disk EXCEPT ![e] = Append(@, u)]
    BY <1>18, GrowingAssumption DEF OtherProgram, Grow
  <2>2. disk[e] \in Seq(Unit)
    BY <2>1 DEF Exists
  <2>3. disk' \in Volume /\ \A d \in Entry : Exists(d) => Exists(d)'
    BY <2>1, <2>2, AppendedVolume
  <2> QED
    BY <1>18, <1>s, <1>e, <2>3 DEF OtherProgram, Grow, prog, HandlesOK
<1>19. CASE UNCHANGED vars
  BY <1>19, <1>s DEF vars, prog, HandlesOK, Exists
<1> QED
  BY <1>1, <1>2, <1>3, <1>4, <1>5, <1>6, <1>7, <1>8, <1>9, <1>10, <1>11, <1>12,
     <1>13, <1>14, <1>15, <1>16, <1>17, <1>18, <1>19 DEF Next, Program

-----------------------------------------------------------------------------

LEMMA AppendKeeps ==
  ASSUME disk \in Volume, NEW e, NEW u \in Unit,
         disk[e] \in Seq(Unit), disk' = [disk EXCEPT ![e] = Append(@, u)],
         NEW d \in Entry, NEW c \in Seq(Unit), Holds(d, c)
  PROVE  disk'[d] \in Seq(Unit) /\ IsPrefix(c, disk'[d])
<1>1. disk[d] \in Seq(Unit)
  BY DEF Holds, Exists, Volume
<1>2. disk'[d] = IF d = e THEN Append(disk[e], u) ELSE disk[d]
  BY DEF Volume
<1>3. disk'[d] \in Seq(Unit)
  BY <1>1, <1>2, AppendProperties
<1>4. Len(c) <= Len(disk[d]) /\ \A i \in 1..Len(c) : c[i] = disk[d][i]
  BY <1>1, PrefixPointwise DEF Holds
<1>5. Len(disk[d]) <= Len(disk'[d]) /\ \A i \in 1..Len(disk[d]) : disk'[d][i] = disk[d][i]
  BY <1>1, <1>2, AppendProperties
<1>6. Len(c) \in Nat /\ Len(disk[d]) \in Nat /\ Len(disk'[d]) \in Nat
  BY <1>1, <1>3
<1>7. Len(c) <= Len(disk'[d]) /\ \A i \in 1..Len(c) : c[i] = disk'[d][i]
  BY <1>4, <1>5, <1>6
<1> QED
  BY <1>3, <1>7, PrefixPointwise

LEMMA OrigTyped ==
  ASSUME TypeOK, NEW k \in Lines, orig[Src(k)] # NoFile
  PROVE  orig[Src(k)] \in Seq(Unit)
  BY EntriesTyped, MvAssumption DEF TypeOK, Volume

LEMMA GrowKeepsLines ==
  ASSUME TypeOK, inv' = inv, orig' = orig,
         NEW e, NEW u \in Unit, disk[e] \in Seq(Unit),
         disk' = [disk EXCEPT ![e] = Append(@, u)], NEW k \in Lines
  PROVE  /\ AtSource(k) => AtSource(k)'
         /\ AtTarget(k) => AtTarget(k)'
<1>1. /\ Src(k) \in Entry /\ Dst(k) \in Entry
      /\ Src(k)' = Src(k) /\ Dst(k)' = Dst(k)
  BY EntriesTyped, SameNames
<1>2. orig[Src(k)] # NoFile => orig[Src(k)] \in Seq(Unit)
  BY OrigTyped
<1>3. disk \in Volume
  BY DEF TypeOK
<1>4. ASSUME NEW d \in {Src(k), Dst(k)}, orig[Src(k)] # NoFile, Holds(d, orig[Src(k)])
      PROVE  disk'[d] # NoFile /\ IsPrefix(orig[Src(k)], disk'[d])
  BY <1>1, <1>2, <1>3, <1>4, AppendKeeps, StorageAssumption
<1> QED
  BY <1>1, <1>4 DEF AtSource, AtTarget, Holds, Exists

LEMMA SameDisk ==
  ASSUME inv' = inv, orig' = orig, NEW k \in Lines,
         disk'[Src(k)] = disk[Src(k)], disk'[Dst(k)] = disk[Dst(k)]
  PROVE  AtSource(k)' = AtSource(k) /\ AtTarget(k)' = AtTarget(k)
  BY SameNames DEF AtSource, AtTarget, Holds, Exists

LEMMA FinishLine ==
  ASSUME TypeOK, MvInv, Independent, inv' = inv,
         NEW s \in {0, 1}, Finish(s), NEW c \in Lines, c = cur,
         \A k \in Lines : k # cur => /\ disk'[Src(k)] = disk[Src(k)]
                                    /\ disk'[Dst(k)] = disk[Dst(k)],
         AtSource(c)' \/ AtTarget(c)',
         obuf' = <<>>
  PROVE  MvInv'
<1>1. /\ cur' = cur + 1 /\ cur \in Nat /\ Lines' = Lines /\ Lines \subseteq Nat
      /\ pc' \in {"rename", "done"} /\ orig' = orig /\ pos' = 1
  BY SameNames DEF Finish, TypeOK, Lines
<1>2. \A k \in Lines : k # cur =>
        (AtSource(k)' = AtSource(k)) /\ (AtTarget(k)' = AtTarget(k))
  BY <1>1, SameDisk
<1>3. Waiting'
  <2> SUFFICES ASSUME NEW k \in Lines, k >= cur + 1 PROVE AtSource(k)'
    BY <1>1 DEF Waiting
  <2>1. k # cur /\ k >= cur
    BY <1>1
  <2> QED
    BY <1>2, <2>1 DEF Waiting, MvInv
<1>4. Settled'
  <2> SUFFICES ASSUME NEW k \in Lines, k < cur + 1 PROVE AtSource(k)' \/ AtTarget(k)'
    BY <1>1 DEF Settled
  <2>1. k = cur \/ k < cur
    BY <1>1
  <2> QED
    BY <1>1, <1>2, <2>1 DEF Settled, MvInv
<1> QED
  BY <1>1, <1>3, <1>4 DEF MvInv, CopyInv, ClosedInv, VerifyInv

LEMMA StayLine ==
  ASSUME MvInv, Independent, UNCHANGED <<disk, inv, cur, orig>>
  PROVE  Waiting' /\ Settled'
<1>1. Lines' = Lines
  BY SameNames
<1>2. \A k \in Lines : AtSource(k)' = AtSource(k) /\ AtTarget(k)' = AtTarget(k)
  BY SameDisk
<1> QED
  BY <1>1, <1>2 DEF MvInv, Waiting, Settled

LEMMA MvStep ==
  ASSUME OneReadFault, TypeOK, MvInv, [Next]_vars
  PROVE  MvInv'
<1>u. inv' = inv /\ orig' = orig /\ Lines' = Lines
  BY SameCommandLine, SameNames
<1>i. Independent' = Independent
  BY <1>u, SameNames DEF Independent
<1> SUFFICES ASSUME Independent PROVE MvInv'
  BY <1>i DEF MvInv
<1>v. Waiting /\ Settled /\ CopyInv /\ ClosedInv /\ VerifyInv
  BY DEF MvInv
<1>e. \A k \in Lines : Src(k) \in Entry /\ Dst(k) \in Entry
  BY EntriesTyped
<1>n. cur' = cur => Src(cur)' = Src(cur) /\ Dst(cur)' = Dst(cur)
  BY <1>u, SameNames
<1>l. pc \notin {"start", "done", "crashed"} => cur \in Lines /\ AtSource(cur)
  BY <1>v DEF TypeOK, Waiting, Lines
<1>o. pc \in Opened => /\ Src(cur) # Dst(cur)
                       /\ disk[Src(cur)] \in Seq(Unit)
                       /\ disk[Dst(cur)] \in Seq(Unit)
                       /\ Len(disk[Src(cur)]) \in Nat
                       /\ Len(disk[Dst(cur)]) \in Nat
  BY <1>e, <1>l, LenProperties DEF TypeOK, HandlesOK, Opened, Exists, Volume, Independent
<1>t. pos \in Nat \ {0} /\ obuf \in Seq(Unit) /\ Len(obuf) \in Nat /\ disk \in Volume
  BY LenProperties DEF TypeOK
(* A line that ends with everything left as it was. *)
<1>f. ASSUME NEW s \in {0, 1}, Finish(s), disk' = disk, obuf' = <<>>,
             pc \notin {"start", "done", "crashed"}
      PROVE  MvInv'
  <2>1. PICK c \in Lines : c = cur
    BY <1>f, <1>l
  <2>2. AtSource(c)'
    BY <2>1, <1>f, <1>l, <1>u, SameDisk
  <2> QED
    BY <2>1, <2>2, <1>f, <1>u, FinishLine
<1>1. CASE Start
  <2>1. Waiting' /\ Settled'
    BY <1>1, <1>u, StayLine DEF Start
  <2> QED
    BY <1>1, <1>v, <2>1 DEF Start, MvInv, CopyInv, ClosedInv, VerifyInv
<1>2. CASE RenameSucceeds
  <2>1. PICK c \in Lines : c = cur
    BY <1>2, <1>l DEF RenameSucceeds
  <2>2. Src(c) # Dst(c) /\ Src(c) \in Entry /\ Dst(c) \in Entry
    BY <1>e DEF Independent
  <2>3. disk' = [disk EXCEPT ![Dst(c)] = disk[Src(c)], ![Src(c)] = NoFile]
    BY <1>2, <2>1, <2>2 DEF RenameSucceeds, Renamed
  <2>4. \A k \in Lines : k # cur => /\ disk'[Src(k)] = disk[Src(k)]
                                    /\ disk'[Dst(k)] = disk[Dst(k)]
    BY <2>1, <2>3, <1>e, <1>t DEF Independent, Volume
  <2>5. disk'[Dst(c)] = disk[Src(c)]
    BY <2>2, <2>3, <1>t DEF Volume
  <2>6. AtSource(c)
    BY <2>1, <1>2, <1>l DEF RenameSucceeds
  <2>7. AtTarget(c)'
    BY <2>5, <2>6, <1>u, SameNames DEF AtTarget, AtSource, Holds, Exists
  <2>8. obuf' = <<>> /\ Finish(0)
    BY <1>2, <1>v DEF RenameSucceeds, CopyInv
  <2> QED
    BY <2>1, <2>4, <2>7, <2>8, <1>u, FinishLine
<1>3. CASE RenameFails
  <2>1. Waiting' /\ Settled'
    BY <1>3, <1>u, StayLine DEF RenameFails
  <2> QED
    BY <1>3, <1>v, <2>1 DEF RenameFails, MvInv, CopyInv, ClosedInv, VerifyInv
<1>4. CASE OpenFails
  BY <1>4, <1>v, <1>f DEF OpenFails, CopyInv
<1>5. CASE OpenSucceeds
  <2>1. cur \in Lines /\ disk' = [disk EXCEPT ![Dst(cur)] = <<>>]
    BY <1>5, <1>l DEF OpenSucceeds, Created
  <2>2. \A k \in Lines : disk'[Src(k)] = disk[Src(k)]
    BY <2>1, <1>e, <1>t DEF Independent, Volume
  <2>3. \A k \in Lines : k # cur => disk'[Dst(k)] = disk[Dst(k)]
    BY <2>1, <1>e, <1>t DEF Independent, Volume
  <2>4. \A k \in Lines : AtSource(k)' = AtSource(k)
    BY <2>2, <1>u, SameNames DEF AtSource, Holds, Exists
  <2>5. \A k \in Lines : k # cur => AtTarget(k)' = AtTarget(k)
    BY <2>2, <2>3, <1>u, SameDisk
  <2>6. Waiting' /\ Settled'
    BY <1>5, <2>4, <2>5, <1>u, <1>v DEF OpenSucceeds, Waiting, Settled, TypeOK, Lines
  <2>7. disk'[Dst(cur)] = <<>>
    BY <2>1, <1>e, <1>t DEF Volume
  <2>8. disk'[Src(cur)] = disk[Src(cur)] /\ disk[Src(cur)] \in Seq(Unit)
    BY <1>5, <2>1, <2>2, <1>e, <1>t DEF OpenSucceeds, Volume, Exists
  <2>9. CopyInv'
    BY <1>5, <1>v, <1>n, <2>7, <2>8, EmptySeq DEF OpenSucceeds, CopyInv
  <2> QED
    BY <1>5, <2>6, <2>9 DEF OpenSucceeds, MvInv, ClosedInv, VerifyInv
<1>6. CASE CopyUnit
  <2>1. Waiting' /\ Settled'
    BY <1>6, <1>u, StayLine DEF CopyUnit
  <2>2. disk[Src(cur)][pos] \in Unit
    BY <1>6, <1>o, <1>t, ElementOfSeq DEF CopyUnit, Opened
  <2>3. Len(obuf') = Len(obuf) + 1
    BY <1>6, <2>2, <1>t, AppendProperties DEF CopyUnit
  <2>4. /\ Len(disk[Dst(cur)]) + Len(obuf') = pos' - 1
        /\ pos' - 1 <= Len(disk[Src(cur)])
    <3> DEFINE t == Len(disk[Dst(cur)])
               b == Len(obuf)
               m == Len(disk[Src(cur)])
               n == Len(obuf')
    <3>1. t + b = pos - 1 /\ pos <= m /\ n = b + 1 /\ pos' = pos + 1
      BY <1>6, <2>3, <1>v DEF CopyUnit, CopyInv
    <3>2. t \in Nat /\ b \in Nat /\ m \in Nat /\ pos \in Nat
      BY <1>6, <1>o, <1>t DEF CopyUnit, Opened
    <3>3. t + n = pos' - 1 /\ pos' - 1 <= m
      <4> HIDE DEF t, b, m, n
      <4> QED
        BY <3>1, <3>2
    <3> QED
      BY <3>3
  <2>5. CopyInv'
    BY <1>6, <2>4, <1>n DEF CopyUnit, CopyInv
  <2> QED
    BY <1>6, <2>1, <2>5 DEF CopyUnit, MvInv, ClosedInv, VerifyInv
<1>7. CASE CopyEnd
  <2>1. Waiting' /\ Settled'
    BY <1>7, <1>u, StayLine DEF CopyEnd
  <2>2. CopyInv'
    BY <1>7, <1>n, <1>v DEF CopyEnd, CopyInv
  <2>3. Len(disk[Dst(cur)]) + Len(obuf) = Len(disk[Src(cur)])
    <3> DEFINE t == Len(disk[Dst(cur)])
               b == Len(obuf)
               m == Len(disk[Src(cur)])
    <3>1. t + b = pos - 1 /\ pos - 1 <= m /\ pos > m
      BY <1>7, <1>v DEF CopyEnd, CopyInv
    <3>2. t \in Nat /\ b \in Nat /\ m \in Nat /\ pos \in Nat
      BY <1>7, <1>o, <1>t DEF CopyEnd, Opened
    <3>3. t + b = m
      <4> HIDE DEF t, b, m
      <4> QED
        BY <3>1, <3>2
    <3> QED
      BY <3>3
  <2>4. LongEnough
    <3> SUFFICES ASSUME orig[Src(cur)] # NoFile
                 PROVE  Len(orig[Src(cur)]) <= Len(disk[Src(cur)])
      BY <2>3 DEF LongEnough
    <3>1. Holds(Src(cur), orig[Src(cur)])
      BY <1>7, <1>l DEF CopyEnd, AtSource
    <3> QED
      BY <3>1 DEF Holds, IsPrefix
  <2>5. LongEnough'
    BY <2>4, <1>7, <1>n, <1>u DEF CopyEnd, LongEnough
  <2> QED
    BY <1>7, <2>1, <2>2, <2>5 DEF CopyEnd, MvInv, ClosedInv, VerifyInv
<1>8. CASE CopyFails
  <2>1. Waiting' /\ Settled'
    BY <1>8, <1>u, StayLine DEF CopyFails
  <2>2. CopyInv'
    BY <1>8, <1>n, <1>v DEF CopyFails, CopyInv
  <2> QED
    BY <1>8, <2>1, <2>2 DEF CopyFails, MvInv, ClosedInv, VerifyInv
<1>9. CASE CloseFiles
  <2>1. CASE obuf = <<>> /\ ~ failed /\ UNCHANGED <<inv, cur, pos, failed, status, orig>> /\ pc' = "check"
    <3>1. Waiting' /\ Settled'
      BY <1>9, <2>1, <1>u, StayLine DEF CloseFiles
    <3>2. LongEnough /\ Len(disk[Dst(cur)]) <= Len(disk[Src(cur)])
      BY <1>9, <2>1, <1>v, <1>o, <1>t, EmptySeq DEF CloseFiles, ClosedInv, CopyInv, Opened
    <3>3. obuf' = obuf /\ disk' = disk
      BY <1>9, <2>1 DEF CloseFiles
    <3>4. LongEnough'
      BY <3>2, <3>3, <2>1, <1>n, <1>u DEF LongEnough
    <3>5. ClosedInv'
      BY <3>2, <3>3, <3>4, <2>1, <1>n DEF ClosedInv
    <3> QED
      BY <3>1, <3>5, <2>1 DEF MvInv, CopyInv, VerifyInv
  <2>2. CASE Finish(1)
    BY <1>9, <2>2, <1>f DEF CloseFiles
  <2> QED
    BY <1>9, <2>1, <2>2 DEF CloseFiles
<1>10. CASE OpenCheck
  <2>1. CASE pc' = "verify" /\ pos' = 1 /\ UNCHANGED <<inv, cur, failed, status, orig>>
    <3>1. Waiting' /\ Settled'
      BY <1>10, <2>1, <1>u, StayLine DEF OpenCheck
    <3>2. ClosedInv'
      BY <1>10, <2>1, <1>v, <1>n, <1>u DEF OpenCheck, ClosedInv, LongEnough
    <3>3. VerifyInv'
      BY <1>10, <2>1, <1>n, <1>o DEF OpenCheck, VerifyInv, Opened
    <3> QED
      BY <2>1, <3>1, <3>2, <3>3 DEF MvInv, CopyInv
  <2>2. CASE Finish(1)
    BY <1>10, <2>2, <1>f, <1>v DEF OpenCheck, ClosedInv
  <2> QED
    BY <1>10, <2>1, <2>2 DEF OpenCheck
<1>11. CASE VerifyUnit
  <2>1. Waiting' /\ Settled'
    BY <1>11, <1>u, StayLine DEF VerifyUnit
  <2>2. ClosedInv'
    BY <1>11, <1>v, <1>n, <1>u DEF VerifyUnit, ClosedInv, LongEnough
  <2>3. /\ pos' <= Len(disk[Dst(cur)]) + 1
        /\ \A i \in 1..(pos' - 1) : disk[Src(cur)][i] = disk[Dst(cur)][i]
    <3> DEFINE t == Len(disk[Dst(cur)])
               S == disk[Src(cur)]
               T == disk[Dst(cur)]
    <3>1. t \in Nat /\ pos \in Nat \ {0}
      BY <1>11, <1>o, <1>t DEF VerifyUnit, Opened
    <3>2. /\ pos <= t
          /\ S[pos] = T[pos]
          /\ \A i \in 1..(pos - 1) : S[i] = T[i]
          /\ pos' = pos + 1
      BY <1>11, <1>v DEF VerifyUnit, VerifyInv
    <3>3. pos' <= t + 1 /\ \A i \in 1..(pos' - 1) : S[i] = T[i]
      <4> HIDE DEF t, S, T
      <4> QED
        BY <3>1, <3>2
    <3> QED
      BY <3>3
  <2>4. VerifyInv'
    BY <1>11, <2>3, <1>n DEF VerifyUnit, VerifyInv
  <2> QED
    BY <1>11, <2>1, <2>2, <2>4 DEF VerifyUnit, MvInv, CopyInv
<1>12. CASE VerifyFails
  BY <1>12, <1>f, <1>v DEF VerifyFails, ClosedInv
<1>13. CASE VerifyEnd
  <2>1. CASE /\ pos > Len(disk[Dst(cur)]) \/ "read target" \in Faults
             /\ pc' = "remove"
             /\ UNCHANGED <<inv, cur, pos, failed, status, orig>>
    <3>1. Waiting' /\ Settled'
      BY <1>13, <2>1, <1>u, StayLine DEF VerifyEnd
    <3>2. ClosedInv'
      BY <1>13, <2>1, <1>v, <1>n, <1>u DEF VerifyEnd, ClosedInv, LongEnough
    <3>3. pos = Len(disk[Dst(cur)]) + 1
      <4> DEFINE t == Len(disk[Dst(cur)])
                 m == Len(disk[Src(cur)])
      <4>1. t \in Nat /\ m \in Nat /\ pos \in Nat
        BY <1>13, <1>o, <1>t DEF VerifyEnd, Opened
      <4>2. t <= m /\ pos <= t + 1
        BY <1>13, <1>v DEF VerifyEnd, ClosedInv, VerifyInv
      <4>3. pos > m \/ pos > t
        BY <1>13, <2>1 DEF VerifyEnd, OneReadFault
      <4>4. pos = t + 1
        <5> HIDE DEF t, m
        <5> QED
          BY <4>1, <4>2, <4>3
      <4> QED
        BY <4>4
    <3>4. VerifyInv'
      BY <1>13, <2>1, <3>3, <1>v, <1>n DEF VerifyEnd, VerifyInv
    <3> QED
      BY <2>1, <3>1, <3>2, <3>4 DEF MvInv, CopyInv
  <2>2. CASE Finish(1)
    BY <1>13, <2>2, <1>f, <1>v DEF VerifyEnd, ClosedInv
  <2> QED
    BY <1>13, <2>1, <2>2 DEF VerifyEnd
<1>14. CASE RemoveSource
  <2>1. PICK c \in Lines : c = cur
    BY <1>14, <1>l DEF RemoveSource
  <2>2. Src(c) # Dst(c) /\ Src(c) \in Entry /\ Dst(c) \in Entry
    BY <1>e DEF Independent
  <2>3. disk' = [disk EXCEPT ![Src(c)] = NoFile]
    BY <1>14, <2>1 DEF RemoveSource, Deleted
  <2>4. \A k \in Lines : k # cur => /\ disk'[Src(k)] = disk[Src(k)]
                                    /\ disk'[Dst(k)] = disk[Dst(k)]
    BY <2>1, <2>3, <1>e, <1>t DEF Independent, Volume
  <2>5. disk'[Dst(c)] = disk[Dst(c)] /\ disk[Dst(c)] # NoFile
    BY <1>14, <2>1, <2>2, <2>3, <1>t DEF RemoveSource, Volume, TypeOK, HandlesOK, Opened, Exists
  <2>6. orig[Src(c)] # NoFile => IsPrefix(orig[Src(c)], disk[Dst(c)])
    <3> SUFFICES ASSUME orig[Src(c)] # NoFile PROVE IsPrefix(orig[Src(c)], disk[Dst(c)])
      OBVIOUS
    <3>1. orig[Src(c)] \in Seq(Unit) /\ Len(orig[Src(c)]) \in Nat
      BY OrigTyped, LenProperties
    <3>2. disk[Src(c)] \in Seq(Unit) /\ disk[Dst(c)] \in Seq(Unit) /\ Len(disk[Dst(c)]) \in Nat
      BY <1>14, <2>1, <1>o DEF RemoveSource, Opened
    <3>3. IsPrefix(orig[Src(c)], disk[Src(c)])
      BY <1>14, <2>1, <1>l DEF RemoveSource, AtSource, Holds
    <3>4. \A i \in 1..Len(orig[Src(c)]) : orig[Src(c)][i] = disk[Src(c)][i]
      BY <3>1, <3>2, <3>3, PrefixPointwise
    <3>5. Len(orig[Src(c)]) <= Len(disk[Dst(c)])
      <4>1. Len(orig[Src(c)]) <= Len(disk[Dst(c)]) + Len(obuf) /\ obuf = <<>>
        BY <1>14, <2>1, <1>v DEF RemoveSource, ClosedInv, LongEnough
      <4>2. Len(obuf) = 0
        BY <4>1, EmptySeq
      <4> QED
        BY <4>1, <4>2, <3>1, <3>2
    <3>6. \A i \in 1..Len(disk[Dst(c)]) : disk[Src(c)][i] = disk[Dst(c)][i]
      BY <1>14, <2>1, <1>v, <1>t, <3>2 DEF RemoveSource, VerifyInv
    <3>7. \A i \in 1..Len(orig[Src(c)]) : orig[Src(c)][i] = disk[Dst(c)][i]
      BY <3>1, <3>2, <3>4, <3>5, <3>6
    <3> QED
      BY <3>1, <3>2, <3>5, <3>7, PrefixPointwise
  <2>7. AtTarget(c)'
    BY <2>5, <2>6, <1>u, SameNames DEF AtTarget, Holds, Exists
  <2>8. obuf' = <<>> /\ Finish(0)
    BY <1>14, <1>v DEF RemoveSource, ClosedInv
  <2> QED
    BY <2>1, <2>4, <2>7, <2>8, <1>u, FinishLine
<1>15. CASE RemoveFails
  BY <1>15, <1>f, <1>v DEF RemoveFails, ClosedInv
<1>16. CASE Flush
  <2>1. PICK u \in Unit : disk' = [disk EXCEPT ![Dst(cur)] = Append(@, u)]
    <3>1. obuf \in Seq(Unit) /\ obuf # <<>>
      BY <1>16, <1>t DEF Flush, Drain
    <3>2. Stored(Head(obuf)) \subseteq Unit
      BY <3>1, HeadTailProperties DEF Stored
    <3> QED
      BY <1>16, <3>2 DEF Flush, Drain
  <2>2. pc \in {"copy", "close"} /\ UNCHANGED prog /\ obuf # <<>> /\ obuf' = Tail(obuf)
    BY <1>16 DEF Flush, Drain
  <2>3. /\ cur \in Lines /\ Src(cur) \in Entry /\ Dst(cur) \in Entry
        /\ Src(cur) # Dst(cur) /\ disk[Dst(cur)] \in Seq(Unit)
    BY <2>2, <1>l, <1>e, <1>o DEF Opened
  <2>4. \A k \in Lines : (AtSource(k) => AtSource(k)') /\ (AtTarget(k) => AtTarget(k)')
    BY <2>1, <2>3, <1>u, GrowKeepsLines
  <2>5. Waiting' /\ Settled'
    BY <2>2, <2>4, <1>u, <1>v DEF Waiting, Settled, prog
  <2>6. /\ Len(disk'[Dst(cur)]) = Len(disk[Dst(cur)]) + 1
        /\ disk'[Src(cur)] = disk[Src(cur)]
        /\ Len(obuf') = Len(obuf) - 1
    BY <2>1, <2>2, <2>3, <1>t, AppendProperties, HeadTailProperties DEF Volume
  <2>7. Len(disk'[Dst(cur)]) + Len(obuf') = Len(disk[Dst(cur)]) + Len(obuf)
    <3> DEFINE t == Len(disk[Dst(cur)])
               b == Len(obuf)
    <3>1. t \in Nat /\ b \in Nat
      BY <2>2, <1>o, <1>t DEF Opened
    <3>2. (t + 1) + (b - 1) = t + b
      <4> HIDE DEF t, b
      <4> QED
        BY <3>1
    <3> QED
      BY <2>6, <3>2
  <2>8. CopyInv'
    BY <2>2, <2>6, <2>7, <1>n, <1>v DEF CopyInv, prog
  <2>9. LongEnough => LongEnough'
    BY <2>2, <2>7, <1>n DEF LongEnough, prog
  <2> QED
    BY <2>2, <2>5, <2>8, <2>9, <1>v DEF MvInv, ClosedInv, VerifyInv, prog
<1>17. CASE Crash
  <2>1. Waiting' /\ Settled'
    BY <1>17, <1>u, StayLine DEF Crash
  <2> QED
    BY <1>17, <2>1 DEF Crash, MvInv, CopyInv, ClosedInv, VerifyInv
<1>18. CASE OtherProgram
  <2>1. PICK e \in Growing, u \in Unit :
          Exists(e) /\ disk' = [disk EXCEPT ![e] = Append(@, u)]
    BY <1>18 DEF OtherProgram, Grow
  <2>2. e \in Entry /\ disk[e] \in Seq(Unit) /\ UNCHANGED <<obuf, prog>>
    BY <2>1, <1>18, <1>t, GrowingAssumption DEF OtherProgram, Grow, Exists, Volume
  <2>3. \A k \in Lines : (AtSource(k) => AtSource(k)') /\ (AtTarget(k) => AtTarget(k)')
    BY <2>1, <2>2, <1>u, GrowKeepsLines
  <2>4. Waiting' /\ Settled'
    BY <2>2, <2>3, <1>u, <1>v DEF Waiting, Settled, prog
  <2>5. ASSUME pc \in Opened
        PROVE  /\ disk'[Dst(cur)] = disk[Dst(cur)]
               /\ Len(disk[Src(cur)]) <= Len(disk'[Src(cur)])
               /\ Len(disk'[Src(cur)]) \in Nat
               /\ \A i \in 1..Len(disk[Src(cur)]) : disk'[Src(cur)][i] = disk[Src(cur)][i]
    <3>1. cur \in Lines /\ Src(cur) \in Entry /\ Dst(cur) \in Entry /\ Dst(cur) # e
      BY <2>5, <1>l, <1>e DEF Opened, Independent
    <3>2. disk'[Src(cur)] = IF Src(cur) = e THEN Append(disk[e], u) ELSE disk[Src(cur)]
      BY <2>1, <3>1, <1>t DEF Volume
    <3> QED
      BY <2>1, <2>2, <2>5, <3>1, <3>2, <1>o, <1>t, AppendProperties DEF Volume
  <2>a. ASSUME pc \in Opened, pos - 1 <= Len(disk[Src(cur)])
        PROVE  /\ pos - 1 <= Len(disk'[Src(cur)])
               /\ \A i \in 1..(pos - 1) : disk'[Src(cur)][i] = disk[Src(cur)][i]
    <3> DEFINE m == Len(disk[Src(cur)])
               n == Len(disk'[Src(cur)])
               S == disk[Src(cur)]
               S2 == disk'[Src(cur)]
    <3>1. m \in Nat /\ n \in Nat /\ m <= n /\ pos \in Nat \ {0} /\ pos - 1 <= m
      BY <2>a, <2>5, <1>o, <1>t
    <3>2. \A i \in 1..m : S2[i] = S[i]
      BY <2>a, <2>5
    <3>3. pos - 1 <= n /\ \A i \in 1..(pos - 1) : S2[i] = S[i]
      <4> HIDE DEF m, n, S, S2
      <4> QED
        BY <3>1, <3>2
    <3> QED
      BY <3>3
  <2>6. CopyInv'
    BY <2>2, <2>5, <2>a, <1>n, <1>v DEF CopyInv, Opened, prog
  <2>7. ClosedInv'
    BY <2>2, <2>5, <1>n, <1>o, <1>t, <1>v DEF ClosedInv, LongEnough, Opened, prog
  <2>8. VerifyInv'
    <3> SUFFICES ASSUME pc \in {"verify", "remove"} PROVE VerifyInv'
      BY <2>2 DEF VerifyInv, prog
    <3> DEFINE t == Len(disk[Dst(cur)])
               m == Len(disk[Src(cur)])
    <3>1. t \in Nat /\ m \in Nat /\ pos \in Nat /\ t <= m /\ pos <= t + 1
      BY <1>o, <1>t, <1>v DEF Opened, ClosedInv, VerifyInv
    <3>2. pos - 1 <= m
      <4> HIDE DEF t, m
      <4> QED
        BY <3>1
    <3> QED
      BY <2>2, <2>5, <2>a, <3>2, <1>n, <1>v DEF VerifyInv, Opened, prog
  <2> QED
    BY <2>4, <2>6, <2>7, <2>8 DEF MvInv
<1>19. CASE UNCHANGED vars
  BY <1>19, <1>u, <1>n, <1>v, StayLine
  DEF vars, prog, MvInv, CopyInv, ClosedInv, LongEnough, VerifyInv
<1> QED
  BY <1>1, <1>2, <1>3, <1>4, <1>5, <1>6, <1>7, <1>8, <1>9, <1>10, <1>11, <1>12,
     <1>13, <1>14, <1>15, <1>16, <1>17, <1>18, <1>19 DEF Next, Program

-----------------------------------------------------------------------------

LEMMA TypeAtStart == Init => TypeOK
<1> SUFFICES ASSUME Init PROVE TypeOK
  OBVIOUS
<1>1. disk \in Volume /\ inv \in Invocations /\ orig \in Initial
  BY MvAssumption DEF Init
<1>2. obuf \in Seq(Unit)
  BY EmptySeq DEF Init
<1>3. failed \in BOOLEAN
  BY Zenon DEF Init
<1> QED
  BY <1>1, <1>2, <1>3 DEF Init, TypeOK, HandlesOK, Opened

(* The program's variables keep their types, and whenever a loop runs over  *)
(* the source and the target both files exist.                              *)
THEOREM TypeCorrect == Spec => []TypeOK
  BY TypeAtStart, TypeStep, PTL DEF Spec

LEMMA MvInvAtStart == Init => MvInv
<1> SUFFICES ASSUME Init, Independent PROVE MvInv
  BY DEF MvInv
<1>1. Waiting /\ Settled
  <2> SUFFICES ASSUME NEW k \in Lines PROVE AtSource(k) /\ ~ k < cur
    BY DEF Waiting, Settled
  <2>1. Init => TypeOK
    BY TypeAtStart
  <2>2. orig[Src(k)] # NoFile => orig[Src(k)] \in Seq(Unit)
    BY <2>1, OrigTyped
  <2>3. orig[Src(k)] # NoFile => IsPrefix(orig[Src(k)], disk[Src(k)])
    BY <2>2, PrefixPointwise DEF Init
  <2> QED
    BY <2>3 DEF Init, AtSource, Holds, Exists, Lines
<1> QED
  BY <1>1 DEF Init, MvInv, CopyInv, ClosedInv, VerifyInv

LEMMA MvInvariant ==
  ASSUME OneReadFault
  PROVE  Spec => []MvInv
<1>1. TypeOK /\ MvInv /\ [Next]_vars => MvInv'
  BY MvStep
<1> QED
  BY <1>1, MvInvAtStart, TypeCorrect, PTL DEF Spec

(* copy_then_remove never gives up the only copy: whatever fails, whenever  *)
(* the program is killed, and whoever appends to the sources meanwhile, the *)
(* contents of every listed file are at its source or at its target.        *)
THEOREM MoveLosesNothing ==
  ASSUME OneReadFault
  PROVE  Spec => []NothingLost
<1>1. TypeOK /\ MvInv => NothingLost
  <2> SUFFICES ASSUME TypeOK, MvInv, Independent, NEW k \in Lines, orig[Src(k)] # NoFile
               PROVE  Holds(Src(k), orig[Src(k)]) \/ Holds(Dst(k), orig[Src(k)])
    BY DEF NothingLost
  <2>1. k >= cur \/ k < cur
    BY DEF TypeOK, Lines
  <2> QED
    BY <2>1 DEF MvInv, Waiting, Settled, AtSource, AtTarget
<1> QED
  BY <1>1, MvInvariant, TypeCorrect, PTL

(* When the program is about to remove the source, its comparison has gone  *)
(* over the whole target and found the same units in the source.            *)
THEOREM EveryByteIsVerified ==
  ASSUME OneReadFault
  PROVE  Spec => []EveryByteVerified
<1>1. TypeOK /\ MvInv => EveryByteVerified
  <2> SUFFICES ASSUME TypeOK, MvInv, Independent, pc = "remove"
               PROVE  disk[Dst(cur)] = SubSeq(disk[Src(cur)], 1, pos - 1)
    BY DEF EveryByteVerified
  <2> DEFINE S == disk[Src(cur)]
             T == disk[Dst(cur)]
  <2>1. cur \in Lines /\ Src(cur) \in Entry /\ Dst(cur) \in Entry
    BY EntriesTyped DEF TypeOK
  <2>2. S \in Seq(Unit) /\ T \in Seq(Unit) /\ Len(S) \in Nat /\ Len(T) \in Nat
    BY <2>1, LenProperties DEF TypeOK, HandlesOK, Opened, Exists, Volume
  <2>3. /\ Len(T) <= Len(S) /\ pos = Len(T) + 1
        /\ \A i \in 1..(pos - 1) : S[i] = T[i]
    BY DEF MvInv, ClosedInv, VerifyInv
  <2>4. T = SubSeq(S, 1, pos - 1)
    <3> HIDE DEF S, T
    <3>1. pos - 1 = Len(T)
      BY <2>2, <2>3
    <3>2. SubSeq(S, 1, Len(T)) \in Seq(Unit) /\ Len(SubSeq(S, 1, Len(T))) = Len(T)
      BY <2>2, <2>3
    <3>3. \A i \in 1..Len(T) : SubSeq(S, 1, Len(T))[i] = T[i]
      BY <2>2, <2>3, <3>1
    <3> QED
      BY <2>2, <3>1, <3>2, <3>3, SeqEqual
  <2> QED
    BY <2>4
<1> QED
  BY <1>1, MvInvariant, TypeCorrect, PTL

-----------------------------------------------------------------------------
(* The exit status.  A line has failed when its source is still there, or   *)
(* never was; a source disappears only by rename() or remove().             *)
Gone(k) == disk[Src(k)] = NoFile /\ orig[Src(k)] # NoFile

StatusInv ==
  Independent =>
    /\ \A k \in Lines : orig[Src(k)] = NoFile => disk[Src(k)] = NoFile
    /\ status = 0 => \A k \in Lines : k < cur => Gone(k)
    /\ status = 1 => \E k \in Lines : k < cur /\ ~ Gone(k)
    /\ pc = "done" => \A k \in Lines : k < cur

LEMMA SourceGoes ==
  ASSUME TypeOK, [Next]_vars, Independent, NEW k \in Lines
  PROVE  /\ disk[Src(k)] = NoFile => disk'[Src(k)] = NoFile
         /\ disk'[Src(k)] = NoFile =>
              disk[Src(k)] = NoFile \/ (k = cur /\ (RenameSucceeds \/ RemoveSource))
<1>1. /\ \A j \in Lines : Src(j) \in Entry /\ Dst(j) \in Entry
      /\ disk \in Volume
      /\ pc \notin {"start", "done", "crashed"} => cur \in Lines
  BY EntriesTyped DEF TypeOK
<1>2. CASE disk' = disk
  BY <1>2
<1>3. CASE RenameSucceeds
  <2>1. cur \in Lines /\ Dst(cur) # Src(k) /\ (k # cur => Src(cur) # Src(k))
    BY <1>1, <1>3 DEF RenameSucceeds, Independent
  <2>2. disk' = [disk EXCEPT ![Dst(cur)] = disk[Src(cur)], ![Src(cur)] = NoFile]
    BY <1>3, <2>1 DEF RenameSucceeds, Renamed, Independent
  <2>3. disk'[Src(k)] = IF k = cur THEN NoFile ELSE disk[Src(k)]
    BY <1>1, <2>1, <2>2 DEF Volume
  <2> QED
    BY <1>3, <2>3
<1>4. CASE OpenSucceeds
  <2>1. Dst(cur) # Src(k) /\ disk' = [disk EXCEPT ![Dst(cur)] = <<>>]
    BY <1>1, <1>4 DEF OpenSucceeds, Created, Independent
  <2> QED
    BY <1>1, <2>1 DEF Volume
<1>5. CASE RemoveSource
  <2>1. disk' = [disk EXCEPT ![Src(cur)] = NoFile] /\ cur \in Lines
    BY <1>1, <1>5 DEF RemoveSource, Deleted
  <2>2. k # cur => Src(cur) # Src(k)
    BY <2>1 DEF Independent
  <2>3. disk'[Src(k)] = IF k = cur THEN NoFile ELSE disk[Src(k)]
    BY <1>1, <2>1, <2>2 DEF Volume
  <2> QED
    BY <1>5, <2>3
<1>6. CASE Flush
  <2>1. Dst(cur) # Src(k)
    BY <1>1, <1>6 DEF Flush, Independent
  <2>2. \E u \in Stored(Head(obuf)) : disk' = [disk EXCEPT ![Dst(cur)] = Append(@, u)]
    BY <1>6 DEF Flush, Drain
  <2> QED
    BY <1>1, <2>1, <2>2 DEF Volume
<1>7. CASE OtherProgram
  <2>1. PICK e \in Growing, u \in Unit :
          disk[e] # NoFile /\ disk' = [disk EXCEPT ![e] = Append(@, u)]
    BY <1>7 DEF OtherProgram, Grow, Exists
  <2>2. e \in Entry /\ disk[e] \in Seq(Unit)
    BY <1>1, <2>1, GrowingAssumption DEF Volume
  <2>3. Append(disk[e], u) # NoFile
    BY <2>2, AppendProperties, StorageAssumption
  <2>4. disk'[Src(k)] = IF Src(k) = e THEN Append(disk[e], u) ELSE disk[Src(k)]
    BY <1>1, <2>1 DEF Volume
  <2> QED
    BY <2>1, <2>3, <2>4
<1> QED
  BY <1>2, <1>3, <1>4, <1>5, <1>6, <1>7
  DEF Next, Program, vars, Start, RenameFails, OpenFails, CopyUnit, CopyEnd, CopyFails,
      CloseFiles, OpenCheck, VerifyUnit, VerifyFails, VerifyEnd, RemoveFails, Crash

LEMMA StatusAtStart == Init => StatusInv
  BY DEF Init, StatusInv, Lines

LEMMA StatusStep == TypeOK /\ MvInv /\ StatusInv /\ [Next]_vars => StatusInv'
<1> SUFFICES ASSUME TypeOK, MvInv, StatusInv, [Next]_vars PROVE StatusInv'
  OBVIOUS
<1>u. inv' = inv /\ orig' = orig /\ Lines' = Lines
      /\ \A k \in Lines : Src(k)' = Src(k) /\ Dst(k)' = Dst(k)
  BY SameCommandLine, SameNames
<1>i. Independent' = Independent
  BY <1>u DEF Independent
<1> SUFFICES ASSUME Independent PROVE StatusInv'
  BY <1>i DEF StatusInv
<1>t. /\ cur \in Nat \ {0} /\ Lines = 1..Len(inv.lines) /\ Len(inv.lines) \in Nat
      /\ status \in {0, 1} /\ (pc \notin {"start", "done", "crashed"} => cur \in Lines)
  BY MvAssumption, LenProperties DEF TypeOK, Invocation, Lines
<1>v. /\ \A k \in Lines : orig[Src(k)] = NoFile => disk[Src(k)] = NoFile
      /\ status = 0 => \A k \in Lines : k < cur => Gone(k)
      /\ status = 1 => \E k \in Lines : k < cur /\ ~ Gone(k)
      /\ pc = "done" => \A k \in Lines : k < cur
  BY DEF StatusInv
<1>1. \A k \in Lines : orig'[Src(k)'] = NoFile => disk'[Src(k)'] = NoFile
  BY <1>u, <1>v, SourceGoes
(* What is decided for an earlier line stays decided. *)
<1>2. ASSUME NEW k \in Lines, k < cur
      PROVE  Gone(k)' <=> Gone(k)
  <2>1. k # cur
    BY <1>2, <1>t
  <2> QED
    BY <2>1, <1>u, SourceGoes DEF Gone
<1>3. CASE /\ UNCHANGED <<cur, status>>
           /\ pc' = "done" => pc = "done" \/ \A k \in Lines : k < cur
  BY <1>u, <1>v, <1>1, <1>2, <1>3 DEF StatusInv
<1>f. ASSUME NEW s \in {0, 1}, Finish(s), pc \notin {"start", "done", "crashed"},
             NEW c \in Lines, c = cur, s = 0 <=> Gone(c)'
      PROVE  StatusInv'
  <2>1. /\ cur' = cur + 1 /\ status' = IF s = 0 THEN status ELSE 1
        /\ pc' = "done" => ~ (cur < Len(inv.lines))
    BY <1>f DEF Finish
  <2>2. pc' = "done" => \A k \in Lines : k < cur'
    BY <2>1, <1>t
  <2>3. \A k \in Lines : k < cur' <=> k < cur \/ k = c
    BY <2>1, <1>t, <1>f
  <2>4. status' = 0 => \A k \in Lines : k < cur' => Gone(k)'
    BY <2>1, <2>3, <1>f, <1>2, <1>v
  <2>5. status' = 1 => \E k \in Lines : k < cur' /\ ~ Gone(k)'
    <3>1. CASE s = 0
      BY <3>1, <2>1, <2>3, <1>2, <1>v
    <3>2. CASE s = 1
      BY <3>2, <2>3, <1>f
    <3> QED
      BY <3>1, <3>2
  <2> QED
    BY <1>u, <1>1, <2>2, <2>4, <2>5 DEF StatusInv
<1>4. CASE Finish(0) /\ (RenameSucceeds \/ RemoveSource)
  <2>1. PICK c \in Lines : c = cur
    BY <1>4, <1>t DEF RenameSucceeds, RemoveSource
  <2>2. Src(c) \in Entry /\ Dst(c) \in Entry /\ Src(c) # Dst(c) /\ disk \in Volume
    BY EntriesTyped DEF Independent, TypeOK
  <2>3. disk'[Src(c)] = NoFile
    BY <1>4, <2>1, <2>2 DEF RenameSucceeds, Renamed, RemoveSource, Deleted, Volume
  <2>4. disk[Src(c)] # NoFile
    BY <1>4, <2>1 DEF RenameSucceeds, RemoveSource, TypeOK, HandlesOK, Opened, Exists
  <2>5. Gone(c)'
    BY <2>3, <2>4, <1>u, <1>v DEF Gone
  <2> QED
    BY <1>4, <2>1, <2>5, <1>f DEF RenameSucceeds, RemoveSource
<1>5. CASE Finish(1) /\ disk' = disk /\ pc \notin {"start", "done", "crashed"}
  <2>1. PICK c \in Lines : c = cur
    BY <1>5, <1>t
  <2>2. AtSource(c)
    BY <2>1, <1>t DEF MvInv, Waiting
  <2>3. ~ Gone(c)'
    BY <2>2, <1>5, <1>u DEF AtSource, Holds, Exists, Gone
  <2> QED
    BY <1>5, <2>1, <2>3, <1>f
<1>6. CASE Start
  <2>1. inv.list \/ inv.lines[1] # inv.target
    <3> SUFFICES ASSUME ~ inv.list, inv.lines[1] = inv.target PROVE FALSE
      OBVIOUS
    <3>1. 1 \in Lines
      BY <1>t, MvAssumption DEF TypeOK
    <3>2. Src(1) = Dst(1)
      BY DEF Src, Dst, Target
    <3> QED
      BY <3>1, <3>2 DEF Independent
  <2>2. pc' = "done" => Lines = {}
    <3>1. pc' = "done" => Len(inv.lines) = 0
      BY <1>6, <2>1, EmptySeq DEF Start
    <3> QED
      BY <3>1, <1>t
  <2> QED
    BY <1>3, <1>6, <2>1, <2>2 DEF Start
<1> QED
  BY <1>3, <1>4, <1>5, <1>6
  DEF Next, Program, vars, prog, RenameSucceeds, RenameFails, OpenFails, OpenSucceeds,
      CopyUnit, CopyEnd, CopyFails, Flush, CloseFiles, OpenCheck, VerifyUnit, VerifyFails,
      VerifyEnd, RemoveSource, RemoveFails, Crash, OtherProgram

(* mv returns 0 exactly when every listed file has left its source and is   *)
(* whole at its target: move_list() and main(), mv.c:89-152.                *)
THEOREM ExitStatusIsHonest ==
  ASSUME OneReadFault
  PROVE  Spec => []ExitStatusHonest
<1>1. TypeOK /\ MvInv /\ StatusInv => ExitStatusHonest
  <2> SUFFICES ASSUME TypeOK, MvInv, StatusInv, Independent, pc = "done"
               PROVE  status = 0 <=> \A k \in Lines :
                                        /\ ~ Exists(Src(k))
                                        /\ orig[Src(k)] # NoFile
                                        /\ Holds(Dst(k), orig[Src(k)])
    BY DEF ExitStatusHonest
  <2>1. /\ status = 0 => \A k \in Lines : Gone(k)
        /\ status = 1 => \E k \in Lines : ~ Gone(k)
        /\ status \in {0, 1}
    BY DEF StatusInv, TypeOK
  <2>2. \A k \in Lines : AtSource(k) \/ AtTarget(k)
    BY DEF StatusInv, MvInv, Settled
  <2>3. \A k \in Lines : Gone(k) <=> /\ ~ Exists(Src(k))
                                    /\ orig[Src(k)] # NoFile
                                    /\ Holds(Dst(k), orig[Src(k)])
    BY <2>2 DEF Gone, AtSource, AtTarget, Holds, Exists
  <2> QED
    BY <2>1, <2>3
<1>2. TypeOK /\ MvInv /\ StatusInv /\ [Next]_vars => StatusInv'
  BY StatusStep
<1> QED
  BY <1>1, <1>2, StatusAtStart, MvInvariant, TypeCorrect, PTL DEF Spec

-----------------------------------------------------------------------------
(* The move as one step.  The program refuses to move a file to the name it *)
(* has; any other command line whose lines get in one another's way is the  *)
(* subject of a counterexample (mv_alias), not of these theorems.           *)
Refused == ~ inv.list /\ inv.lines[1] = inv.target

Separate == Independent \/ Refused

(* What a missing source, the exit status and a refused command line have   *)
(* to do with where the files are.                                          *)
AtomicInv ==
  /\ Separate
  /\ \A k \in Lines : orig[Src(k)] = NoFile => disk[Src(k)] = NoFile
  /\ pc = "done" => (status = 0 <=> \A k \in Lines : Gone(k))
  /\ ~ Independent =>
       /\ pc \in {"start", "done", "crashed"}
       /\ \A k \in Lines : disk[Src(k)] = NoFile => orig[Src(k)] = NoFile

LEMMA SameCalls == inv' = inv => (Independent' = Independent) /\ (Separate' = Separate)
<1> SUFFICES ASSUME inv' = inv PROVE (Independent' = Independent) /\ (Separate' = Separate)
  OBVIOUS
<1>1. Independent' = Independent
  BY SameNames DEF Independent
<1>2. Refused' = Refused
  BY DEF Refused
<1> QED
  BY <1>1, <1>2 DEF Separate

LEMMA AtomicAtStart == Init /\ Separate => AtomicInv
  BY DEF Init, AtomicInv

(* A refused command line: nothing but the other program does anything.     *)
LEMMA RefusedStep ==
  ASSUME TypeOK, AtomicInv, ~ Independent, [Next]_vars
  PROVE  /\ disk' = disk \/ OtherProgram
         /\ pc' \in {"start", "done", "crashed"}
         /\ pc' = "done" /\ pc # "done" => status' = 1
         /\ pc = "done" => pc' = "done" /\ status' = status
<1>1. pc \in {"start", "done", "crashed"} /\ ~ inv.list /\ inv.lines[1] = inv.target
  BY DEF AtomicInv, Separate, Refused
<1>2. CASE Start
  BY <1>1, <1>2 DEF Start
<1>3. CASE Crash
  BY <1>1, <1>3 DEF Crash
<1>4. CASE OtherProgram
  BY <1>1, <1>4 DEF OtherProgram, prog
<1>5. CASE UNCHANGED vars
  BY <1>1, <1>5 DEF vars, prog
<1> QED
  BY <1>1, <1>2, <1>3, <1>4, <1>5
  DEF Next, Program, RenameSucceeds, RenameFails, OpenFails, OpenSucceeds,
      CopyUnit, CopyEnd, CopyFails, Flush, CloseFiles, OpenCheck, VerifyUnit, VerifyFails,
      VerifyEnd, RemoveSource, RemoveFails

LEMMA AppendedExists ==
  ASSUME TypeOK, OtherProgram, NEW d \in Entry
  PROVE  disk'[d] = NoFile <=> disk[d] = NoFile
<1>1. PICK e \in Growing, u \in Unit :
        disk[e] # NoFile /\ disk' = [disk EXCEPT ![e] = Append(@, u)]
  BY DEF OtherProgram, Grow, Exists
<1>2. e \in Entry /\ disk[e] \in Seq(Unit) /\ disk \in Volume
  BY <1>1, GrowingAssumption DEF TypeOK, Volume
<1>3. Append(disk[e], u) # NoFile
  BY <1>2, AppendProperties, StorageAssumption
<1>4. disk'[d] = IF d = e THEN Append(disk[e], u) ELSE disk[d]
  BY <1>1, <1>2 DEF Volume
<1> QED
  BY <1>1, <1>3, <1>4

LEMMA AtomicStep ==
  TypeOK /\ MvInv /\ StatusInv /\ AtomicInv /\ [Next]_vars => AtomicInv'
<1> SUFFICES ASSUME TypeOK, MvInv, StatusInv, AtomicInv, [Next]_vars PROVE AtomicInv'
  OBVIOUS
<1>u. /\ inv' = inv /\ orig' = orig /\ Lines' = Lines
      /\ \A k \in Lines : Src(k)' = Src(k) /\ Dst(k)' = Dst(k)
  BY SameCommandLine, SameNames
<1>i. (Independent' = Independent) /\ Separate'
  BY <1>u, SameCalls DEF AtomicInv
<1>1. CASE Independent
  <2>1. StatusInv' /\ TypeOK'
    BY StatusStep, TypeStep
  <2>2. Independent'
    BY <1>1, <1>i
  <2>3. \A k \in Lines : orig'[Src(k)'] = NoFile => disk'[Src(k)'] = NoFile
    BY <2>1, <2>2, <1>u DEF StatusInv
  <2>4. pc' = "done" => (status' = 0 <=> \A k \in Lines : Gone(k)')
    BY <2>1, <2>2, <1>u DEF StatusInv, TypeOK
  <2> QED
    BY <1>u, <1>i, <2>2, <2>3, <2>4 DEF AtomicInv
<1>2. CASE ~ Independent
  <2>1. /\ disk' = disk \/ OtherProgram
        /\ pc' \in {"start", "done", "crashed"}
        /\ pc' = "done" /\ pc # "done" => status' = 1
        /\ pc = "done" => pc' = "done" /\ status' = status
    BY <1>2, RefusedStep
  <2>2. \A k \in Lines : disk'[Src(k)] = NoFile <=> disk[Src(k)] = NoFile
    BY <2>1, AppendedExists, EntriesTyped
  <2>3. \A k \in Lines : disk[Src(k)] = NoFile <=> orig[Src(k)] = NoFile
    BY <1>2 DEF AtomicInv
  <2>4. \A k \in Lines : ~ Gone(k)' /\ ~ Gone(k)
    BY <2>2, <2>3, <1>u DEF Gone
  <2>5. 1 \in Lines
    <3>1. inv \in Invocations /\ ~ inv.list
      BY <1>2 DEF TypeOK, AtomicInv, Separate, Refused
    <3>2. Len(inv.lines) = 1
      BY <3>1, MvAssumption
    <3> QED
      BY <3>2 DEF Lines
  <2>6. pc' = "done" => status' # 0
    BY <2>1, <2>4, <2>5 DEF AtomicInv
  <2> QED
    BY <1>2, <1>u, <1>i, <2>1, <2>2, <2>3, <2>4, <2>5, <2>6 DEF AtomicInv
<1> QED
  BY <1>1, <1>2

LEMMA AtomicInvariant ==
  ASSUME OneReadFault
  PROVE  Spec /\ Separate => [](TypeOK /\ MvInv /\ StatusInv /\ AtomicInv)
<1>1. TypeOK /\ MvInv /\ StatusInv /\ [Next]_vars => StatusInv'
  BY StatusStep
<1> QED
  BY <1>1, StatusAtStart, AtomicAtStart, AtomicStep, MvInvariant, TypeCorrect, PTL DEF Spec

(* A source disappears only in a step behind which its target holds all it  *)
(* held at the start: rename(), or remove() behind the comparison.          *)
THEOREM RemovesOnlyWhatIsSaved ==
  ASSUME OneReadFault
  PROVE  Spec /\ Separate => RemovedOnlyWhenSaved
<1> DEFINE Saved ==
      \A k \in Lines :
        Exists(Src(k)) /\ ~ Exists(Src(k))' => Holds(Dst(k), orig[Src(k)])'
<1>1. TypeOK /\ MvInv /\ StatusInv /\ AtomicInv /\ [Next]_vars => [Saved]_vars
  <2> SUFFICES ASSUME TypeOK, MvInv, StatusInv, AtomicInv, [Next]_vars, NEW k \in Lines,
                      Exists(Src(k)), ~ Exists(Src(k))'
               PROVE  Holds(Dst(k), orig[Src(k)])'
    OBVIOUS
  <2>u. inv' = inv /\ orig' = orig /\ Lines' = Lines /\ Src(k)' = Src(k) /\ Src(k) \in Entry
    BY SameCommandLine, SameNames, EntriesTyped
  <2>1. disk[Src(k)] # NoFile /\ disk'[Src(k)] = NoFile /\ orig[Src(k)] # NoFile
    BY <2>u DEF Exists, AtomicInv
  <2>2. Independent
    <3>1. CASE ~ Independent
      BY <3>1, <2>1, <2>u, RefusedStep, AppendedExists
    <3> QED
      BY <3>1
  <2>3. k = cur /\ (RenameSucceeds \/ RemoveSource)
    BY <2>1, <2>2, SourceGoes
  <2>4. cur' = cur + 1 /\ k < cur'
    BY <2>3 DEF RenameSucceeds, RemoveSource, Finish, TypeOK, Lines
  <2>5. AtSource(k)' \/ AtTarget(k)'
    <3>1. MvInv' /\ Independent'
      BY MvStep, SameCalls, <2>u, <2>2
    <3> QED
      BY <3>1, <2>u, <2>4 DEF MvInv, Settled
  <2> QED
    BY <2>1, <2>5, <2>u DEF AtSource, AtTarget, Holds, Exists
<1> QED
  BY <1>1, AtomicInvariant, PTL DEF Spec, RemovedOnlyWhenSaved, Saved

-----------------------------------------------------------------------------
(* The refinement of AtomicMove: what the mapping says of line k. *)
HomeOf(k) ==
  IF orig[Src(k)] = NoFile THEN "absent"
  ELSE IF Exists(Src(k)) THEN "source" ELSE "target"

TextOf(k) ==
  IF Exists(Src(k)) THEN disk[Src(k)]
  ELSE IF orig[Src(k)] = NoFile THEN NoFile ELSE disk[Dst(k)]

ResultNow == IF pc # "done" THEN "none" ELSE IF status = 0 THEN "ok" ELSE "error"

LineKept(k) == HomeOf(k)' = HomeOf(k) /\ TextOf(k)' = TextOf(k)

(* Only what the mapping shows of a line matters: its target, once the      *)
(* source has gone.                                                         *)
LEMMA KeepsLine ==
  ASSUME inv' = inv, orig' = orig, NEW k \in Lines,
         disk'[Src(k)] = disk[Src(k)],
         disk[Src(k)] # NoFile \/ orig[Src(k)] = NoFile \/ disk'[Dst(k)] = disk[Dst(k)]
  PROVE  LineKept(k)
  BY SameNames DEF LineKept, HomeOf, TextOf, Exists

(* What a step of the program is for the one-step move. *)
QuietStep == /\ \A k \in Lines : LineKept(k)
             /\ ResultNow' = ResultNow \/ ResultNow = "none"

MoveStep(k) ==
  /\ ResultNow = "none" /\ HomeOf(k) = "source" /\ HomeOf(k)' = "target"
  /\ IsPrefix(orig[Src(k)], TextOf(k)') /\ IsPrefix(TextOf(k)', TextOf(k))
  /\ \A j \in Lines \ {k} : LineKept(j)

GrowStep(k) ==
  /\ HomeOf(k) = "source" /\ HomeOf(k)' = "source" /\ ResultNow' = ResultNow
  /\ \E u \in Unit : TextOf(k)' = Append(TextOf(k), u)
  /\ \A j \in Lines \ {k} : LineKept(j)

LEMMA OtherProgramMoves ==
  ASSUME TypeOK, AtomicInv, OtherProgram
  PROVE  QuietStep \/ \E k \in Lines : GrowStep(k)
<1>1. PICK e \in Growing, u \in Unit :
        disk[e] # NoFile /\ disk' = [disk EXCEPT ![e] = Append(@, u)]
  BY DEF OtherProgram, Grow, Exists
<1>2. e \in Entry /\ disk[e] \in Seq(Unit) /\ disk \in Volume
  BY <1>1, GrowingAssumption DEF TypeOK, Volume
<1>3. Append(disk[e], u) # NoFile
  BY <1>2, AppendProperties, StorageAssumption
<1>4. \A d \in Entry : disk'[d] = IF d = e THEN Append(disk[e], u) ELSE disk[d]
  BY <1>1, <1>2 DEF Volume
<1>5. /\ inv' = inv /\ orig' = orig /\ ResultNow' = ResultNow
      /\ \A k \in Lines : Src(k)' = Src(k) /\ Dst(k)' = Dst(k)
                          /\ Src(k) \in Entry /\ Dst(k) \in Entry
  BY SameNames, EntriesTyped DEF OtherProgram, prog, ResultNow
<1>6. Independent => \A j, k \in Lines : (j # k => Src(j) # Src(k)) /\ Dst(j) # e
  BY <1>1 DEF Independent
<1>7. ~ Independent => \A j, k \in Lines : j = k
  <2> SUFFICES ASSUME ~ Independent PROVE Lines = 1..1
    OBVIOUS
  <2>1. inv \in Invocations /\ ~ inv.list
    BY DEF TypeOK, AtomicInv, Separate, Refused
  <2> QED
    BY <2>1, MvAssumption DEF Lines
<1>8. ~ Independent => \A k \in Lines : disk[Src(k)] # NoFile \/ orig[Src(k)] = NoFile
  BY DEF AtomicInv
<1>9. ASSUME NEW j \in Lines, Src(j) # e PROVE LineKept(j)
  <2>1. disk'[Src(j)] = disk[Src(j)]
    BY <1>4, <1>5, <1>9
  <2>2. disk[Src(j)] # NoFile \/ orig[Src(j)] = NoFile \/ disk'[Dst(j)] = disk[Dst(j)]
    BY <1>4, <1>5, <1>6, <1>8
  <2> QED
    BY <1>5, <2>1, <2>2, KeepsLine
<1>10. CASE \E k \in Lines : Src(k) = e
  <2>1. PICK k \in Lines : Src(k) = e
    BY <1>10
  <2>2. \A j \in Lines \ {k} : Src(j) # e
    BY <2>1, <1>6, <1>7
  <2>3. orig[Src(k)] # NoFile
    BY <1>1, <2>1 DEF AtomicInv
  <2>4. disk'[Src(k)] = Append(disk[Src(k)], u)
    BY <1>4, <1>5, <2>1
  <2>5. /\ HomeOf(k) = "source" /\ HomeOf(k)' = "source"
        /\ TextOf(k)' = Append(TextOf(k), u)
    BY <1>1, <1>3, <1>5, <2>1, <2>3, <2>4 DEF HomeOf, TextOf, Exists
  <2> QED
    BY <1>5, <1>9, <2>2, <2>5 DEF GrowStep
<1>11. CASE \A k \in Lines : Src(k) # e
  BY <1>5, <1>9, <1>11 DEF QuietStep
<1> QED
  BY <1>10, <1>11

(* The source of line cur goes: what is at the target is a beginning of     *)
(* what the source held, and goes at least as far as what it held first.    *)
LEMMA ProgramMoves ==
  ASSUME OneReadFault, TypeOK, MvInv, AtomicInv, [Next]_vars,
         RenameSucceeds \/ RemoveSource
  PROVE  \E k \in Lines : MoveStep(k)
<1>1. Independent /\ pc \in {"rename", "remove"}
  BY DEF RenameSucceeds, RemoveSource, AtomicInv
<1>2. PICK c \in Lines : c = cur
  BY <1>1 DEF TypeOK
<1>u. /\ inv' = inv /\ orig' = orig /\ Lines' = Lines
      /\ \A k \in Lines : /\ Src(k)' = Src(k) /\ Dst(k)' = Dst(k)
                          /\ Src(k) \in Entry /\ Dst(k) \in Entry
  BY SameCommandLine, SameNames, EntriesTyped
<1>3. /\ disk \in Volume /\ Src(c) # Dst(c)
      /\ \A k \in Lines \ {c} : /\ Src(k) \notin {Src(c), Dst(c)}
                                /\ Dst(k) \notin {Src(c), Dst(c)}
  BY <1>1 DEF Independent, TypeOK
<1>4. disk[Src(c)] # NoFile /\ orig[Src(c)] # NoFile
  <2>1. disk[Src(c)] # NoFile
    BY <1>2 DEF RenameSucceeds, RemoveSource, TypeOK, HandlesOK, Opened, Exists
  <2> QED
    BY <2>1 DEF AtomicInv
<1>5. disk[Src(c)] \in Seq(Unit)
  BY <1>3, <1>4, <1>u DEF Volume
<1>6. /\ disk'[Src(c)] = NoFile
      /\ disk'[Dst(c)] = IF RenameSucceeds THEN disk[Src(c)] ELSE disk[Dst(c)]
      /\ \A k \in Lines \ {c} : /\ disk'[Src(k)] = disk[Src(k)]
                                /\ disk'[Dst(k)] = disk[Dst(k)]
  <2>1. CASE RenameSucceeds
    <3>1. disk' = [disk EXCEPT ![Dst(c)] = disk[Src(c)], ![Src(c)] = NoFile]
      BY <2>1, <1>2, <1>3 DEF RenameSucceeds, Renamed
    <3> QED
      BY <3>1, <2>1, <1>3, <1>u DEF Volume
  <2>2. CASE RemoveSource
    <3>1. disk' = [disk EXCEPT ![Src(c)] = NoFile] /\ ~ RenameSucceeds
      BY <2>2, <1>2 DEF RemoveSource, RenameSucceeds, Deleted
    <3> QED
      BY <3>1, <1>3, <1>u DEF Volume
  <2> QED
    BY <2>1, <2>2
<1>7. IsPrefix(disk'[Dst(c)], disk[Src(c)])
  <2>1. CASE RenameSucceeds
    BY <2>1, <1>5, <1>6, PrefixPointwise
  <2>2. CASE ~ RenameSucceeds
    <3> DEFINE S == disk[Src(c)]
               T == disk[Dst(c)]
    <3>1. pc = "remove"
      BY <2>2 DEF RemoveSource
    <3>2. T \in Seq(Unit)
      BY <3>1, <1>2, <1>u DEF TypeOK, HandlesOK, Opened, Exists, Volume
    <3>3. /\ Len(T) <= Len(S)
          /\ pos = Len(T) + 1 /\ \A i \in 1..(pos - 1) : S[i] = T[i]
      BY <3>1, <1>1, <1>2 DEF MvInv, ClosedInv, VerifyInv
    <3>4. Len(T) <= Len(S) /\ \A i \in 1..Len(T) : T[i] = S[i]
      <4>1. Len(T) \in Nat
        BY <3>2, LenProperties
      <4> HIDE DEF S, T
      <4> QED
        BY <4>1, <3>3
    <3> QED
      BY <3>2, <3>4, <1>5, <1>6, <2>2, PrefixPointwise
  <2> QED
    BY <2>1, <2>2
<1>8. IsPrefix(orig[Src(c)], disk'[Dst(c)])
  <2>1. AtSource(c)' \/ AtTarget(c)'
    <3>1. MvInv' /\ Independent'
      BY MvStep, SameCalls, <1>u, <1>1
    <3>2. c < cur'
      BY <1>2 DEF RenameSucceeds, RemoveSource, Finish, Lines
    <3> QED
      BY <3>1, <3>2, <1>u DEF MvInv, Settled
  <2> QED
    BY <2>1, <1>4, <1>6, <1>u DEF AtSource, AtTarget, Holds, Exists
<1>9. /\ HomeOf(c) = "source" /\ HomeOf(c)' = "target"
      /\ TextOf(c)' = disk'[Dst(c)] /\ TextOf(c) = disk[Src(c)]
  BY <1>4, <1>6, <1>u DEF HomeOf, TextOf, Exists
<1>10. \A k \in Lines \ {c} : LineKept(k)
  BY <1>6, <1>u, KeepsLine
<1>11. ResultNow = "none"
  BY <1>1 DEF ResultNow
<1> QED
  BY <1>7, <1>8, <1>9, <1>10, <1>11 DEF MoveStep

(* Everything else the program does is not seen by the mapping, except that *)
(* it may end.                                                              *)
LEMMA OtherStepsQuiet ==
  ASSUME TypeOK, AtomicInv, [Next]_vars,
         ~ RenameSucceeds, ~ RemoveSource, ~ OtherProgram
  PROVE  QuietStep
<1>u. /\ inv' = inv /\ orig' = orig
      /\ \A k \in Lines : Src(k) \in Entry /\ Dst(k) \in Entry
  BY SameCommandLine, EntriesTyped
<1>1. ResultNow' = ResultNow \/ ResultNow = "none"
  <2>1. pc = "done" => pc' = "done" /\ status' = status
    BY DEF Next, Program, vars, prog, Start, RenameFails, OpenFails,
           OpenSucceeds, CopyUnit, CopyEnd, CopyFails, Flush, CloseFiles, OpenCheck,
           VerifyUnit, VerifyFails, VerifyEnd, RemoveFails, Crash
  <2> QED
    BY <2>1 DEF ResultNow
<1>2. CASE disk' = disk
  BY <1>1, <1>2, <1>u, KeepsLine DEF QuietStep
<1>3. CASE OpenSucceeds \/ Flush
  <2>1. pc \in {"open", "copy", "close"} /\ Independent /\ cur \in Lines
    BY <1>3 DEF OpenSucceeds, Flush, AtomicInv, TypeOK
  <2>2. disk[Src(cur)] # NoFile
    BY <1>3 DEF OpenSucceeds, Flush, TypeOK, HandlesOK, Opened, Exists
  <2>3. \A d \in Entry : d # Dst(cur) => disk'[d] = disk[d]
    BY <1>3, <1>u, <2>1 DEF OpenSucceeds, Created, Flush, Drain, TypeOK, Volume
  <2>4. \A k \in Lines : /\ disk'[Src(k)] = disk[Src(k)]
                         /\ k = cur \/ disk'[Dst(k)] = disk[Dst(k)]
    BY <2>1, <2>3, <1>u DEF Independent
  <2>5. \A k \in Lines : disk[Src(k)] # NoFile \/ disk'[Dst(k)] = disk[Dst(k)]
    BY <2>2, <2>4
  <2>6. \A k \in Lines : LineKept(k)
    BY <2>4, <2>5, <1>u, KeepsLine
  <2> QED
    BY <1>1, <2>6 DEF QuietStep
<1> QED
  BY <1>2, <1>3
  DEF Next, Program, vars, Start, RenameFails, OpenFails, CopyUnit, CopyEnd, CopyFails,
      CloseFiles, OpenCheck, VerifyUnit, VerifyFails, VerifyEnd, RemoveFails, Crash

(* The program with its fallback of copy, verify and remove implements the  *)
(* move in one step, mv.c:13-16: a file is at its source until all of it is *)
(* at its target, and the exit status is the result of the abstract move.   *)
THEOREM MovesAreAtomic ==
  ASSUME OneReadFault
  PROVE  Spec /\ Separate => MovesAtomically
<1> DEFINE First == [k \in Lines |-> orig[Src(k)]]
           Home == [k \in Lines |-> HomeOf(k)]
           Text == [k \in Lines |-> TextOf(k)]
           AbsVars == <<First, Home, Text, ResultNow>>
<1>d. DOMAIN First = Lines /\ DOMAIN Home = Lines /\ DOMAIN Text = Lines
  OBVIOUS
<1>1. Init => Abstract!Init
  <2> SUFFICES ASSUME Init PROVE Abstract!Init
    OBVIOUS
  <2>1. \A k \in Lines : First[k] = disk[Src(k)] /\ TextOf(k) = disk[Src(k)]
    BY DEF Init, TextOf, Exists
  <2>2. Text = First
    BY <2>1
  <2>3. Home = [k \in DOMAIN First |-> IF First[k] = NoFile THEN "absent" ELSE "source"]
    BY <2>1 DEF Init, HomeOf, Exists
  <2> QED
    BY <2>2, <2>3 DEF Init, Abstract!Init, Abstract!File, HomeOf, TextOf
<1>2. TypeOK /\ MvInv /\ StatusInv /\ AtomicInv /\ [Next]_vars
        => [Abstract!Next]_(Abstract!vars)
  <2> SUFFICES ASSUME TypeOK, MvInv, StatusInv, AtomicInv, [Next]_vars
               PROVE  Abstract!Next \/ UNCHANGED AbsVars
    BY DEF Abstract!vars, HomeOf, TextOf, ResultNow
  <2>u. inv' = inv /\ orig' = orig /\ Lines' = Lines /\ First' = First
    BY SameCommandLine, SameNames
  <2>v. pc' = "done" => ResultNow' = Abstract!Verdict(Home')
    <3>1. AtomicInv' /\ status' \in {0, 1}
      BY AtomicStep, TypeStep DEF TypeOK
    <3>2. pc' = "done" => ResultNow' = IF \A k \in Lines' : HomeOf(k)' = "target"
                                       THEN "ok" ELSE "error"
      <4>1. \A k \in Lines' : Gone(k)' <=> HomeOf(k)' = "target"
        BY DEF Gone, HomeOf, Exists
      <4> QED
        BY <3>1, <4>1 DEF AtomicInv, ResultNow
    <3> QED
      BY <3>2, <2>u DEF Abstract!Verdict, Abstract!File
  <2>1. CASE QuietStep
    <3>1. Home' = Home /\ Text' = Text
      BY <2>1, <2>u DEF QuietStep, LineKept
    <3>2. CASE ResultNow' = ResultNow
      BY <3>1, <3>2, <2>u
    <3>3. CASE ResultNow' # ResultNow
      <4>1. ResultNow = "none" /\ pc' = "done"
        BY <2>1, <3>3 DEF QuietStep, ResultNow
      <4>2. ResultNow' = Abstract!Verdict(Home)
        BY <4>1, <3>1, <2>v
      <4>3. Abstract!Report
        BY <4>1, <4>2, <3>1, <2>u DEF Abstract!Report, HomeOf, TextOf, ResultNow
      <4> QED
        BY <4>3 DEF Abstract!Next
    <3> QED
      BY <3>2, <3>3
  <2>2. ASSUME NEW k \in Lines, MoveStep(k)
        PROVE  Abstract!Move(k)
    <3>1. /\ Home[k] = "source" /\ Home' = [Home EXCEPT ![k] = "target"]
      BY <2>2, <2>u DEF MoveStep, LineKept
    <3>2. Text' = [Text EXCEPT ![k] = Text'[k]]
      BY <2>2, <2>u DEF MoveStep, LineKept
    <3>3. /\ Abstract!IsPrefix(First[k], Text'[k])
          /\ Abstract!IsPrefix(Text'[k], Text[k])
      <4>1. IsPrefix(First[k], Text'[k]) /\ IsPrefix(Text'[k], Text[k])
        BY <2>2, <2>u DEF MoveStep
      <4>2. \A s, t : IsPrefix(s, t) <=> Abstract!IsPrefix(s, t)
        BY DEF IsPrefix, Abstract!IsPrefix
      <4> QED
        BY <4>1, <4>2
    <3>4. ResultNow = "none" /\ ResultNow' \in {"none", Abstract!Verdict(Home')}
      BY <2>2, <2>v DEF MoveStep, ResultNow
    <3> QED
      BY <3>1, <3>2, <3>3, <3>4, <2>u DEF Abstract!Move, HomeOf, TextOf, ResultNow
  <2>3. ASSUME NEW k \in Lines, GrowStep(k)
        PROVE  Abstract!Grow(k)
    <3>1. Home[k] = "source" /\ Home' = Home /\ ResultNow' = ResultNow
      BY <2>3, <2>u DEF GrowStep, LineKept
    <3>2. \E u \in Unit : Text' = [Text EXCEPT ![k] = Append(@, u)]
      BY <2>3, <2>u DEF GrowStep, LineKept
    <3> QED
      BY <3>1, <3>2, <2>u DEF Abstract!Grow, HomeOf, TextOf, ResultNow
  <2>4. QuietStep \/ \E k \in Lines : MoveStep(k) \/ GrowStep(k)
    BY OtherProgramMoves, ProgramMoves, OtherStepsQuiet
  <2> QED
    BY <2>1, <2>2, <2>3, <2>4, <1>d DEF Abstract!Next, Abstract!File
<1> QED
  BY <1>1, <1>2, AtomicInvariant, PTL DEF Spec, MovesAtomically, Abstract!Spec
=============================================================================
