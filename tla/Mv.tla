-------------------------------- MODULE Mv ---------------------------------
(***************************************************************************)
(* System/mv: rename(), and when that fails copy, verify, remove.  One      *)
(* behaviour is one invocation of the program, with a source and a target   *)
(* as operands or with -z and a list of sources, until it exits or is       *)
(* killed, while another program may be appending to the files it moves.    *)
(***************************************************************************)
EXTENDS Storage

CONSTANTS
  Invocations,  \* the command lines: operands or a list, see Invocation
  SameVolume,   \* the pairs of directories that lie on one volume
  Initial       \* the volumes the program may find

(* With list = FALSE, lines holds the one source operand. *)
Invocation == [list: BOOLEAN, lines: Seq(Path), target: Path]

ASSUME MvAssumption ==
  /\ Invocations \subseteq Invocation
  /\ \A i \in Invocations : ~ i.list => Len(i.lines) = 1
  /\ Initial \subseteq Volume

VARIABLES
  inv,      \* the command line
  pc,       \* where the program is
  cur,      \* the line it works on
  pos,      \* the unit the copy or compare loop takes next
  failed,   \* the local "failed" of copy_then_remove
  status,   \* what main() will return
  orig      \* history: the volume when the program started

prog == <<inv, pc, cur, pos, failed, status, orig>>
vars == <<disk, obuf, prog>>

(* move_list gives every line its base name under the target directory. *)
Target(i, k) ==
  IF i.list THEN [dir |-> i.target.dir, base |-> i.lines[k].base] ELSE i.target

Src(k) == EntryOf(inv.lines[k])
Dst(k) == EntryOf(Target(inv, k))

-----------------------------------------------------------------------------
(* The program has parsed its options and looks at its operands.            *)

Init ==
  /\ inv \in Invocations
  /\ disk \in Initial
  /\ obuf = <<>>
  /\ pc = "start"
  /\ cur = 1
  /\ pos = 1
  /\ failed = FALSE
  /\ status = 0
  /\ orig = disk

(* Mutant of Finish: the status of the last line wins. *)
FinishForgets(s) ==
  /\ status' = s
  /\ cur' = cur + 1
  /\ pc' = IF cur < Len(inv.lines) THEN "rename" ELSE "done"
  /\ pos' = 1
  /\ failed' = FALSE
  /\ UNCHANGED <<inv, orig>>

(* One line is done with result s: the list loop goes on to the next. *)
Finish(s) ==
  /\ status' = IF s = 0 THEN status ELSE 1
  /\ cur' = cur + 1
  /\ pc' = IF cur < Len(inv.lines) THEN "rename" ELSE "done"
  /\ pos' = 1
  /\ failed' = FALSE
  /\ UNCHANGED <<inv, orig>>

(* main() after option parsing; only the operand form compares the names.   *)
Start ==
  /\ pc = "start"
  /\ IF ~ inv.list /\ inv.lines[1] = inv.target
       THEN pc' = "done" /\ status' = 1
       ELSE /\ pc' = IF inv.lines = <<>> THEN "done" ELSE "rename"
            /\ UNCHANGED status
  /\ UNCHANGED <<disk, obuf, inv, cur, pos, failed, orig>>

RenameSucceeds ==
  /\ pc = "rename"
  /\ Exists(Src(cur))
  /\ <<Src(cur).dir, Dst(cur).dir>> \in SameVolume
  /\ disk' = Renamed(Src(cur), Dst(cur))
  /\ UNCHANGED obuf
  /\ Finish(0)

(* rename() reports an error for any reason: another volume, an existing    *)
(* target, no source.  The fallback does not ask which.                     *)
RenameFails ==
  /\ pc = "rename"
  /\ pc' = "open"
  /\ UNCHANGED <<disk, obuf, inv, cur, pos, failed, status, orig>>

OpenFails ==
  /\ pc = "open"
  /\ ~ Exists(Src(cur)) \/ "open" \in Faults
  /\ UNCHANGED <<disk, obuf>>
  /\ Finish(1)

(* Mutant of OpenSucceeds: the target is not created. *)
OpenSourceOnly ==
  /\ pc = "open"
  /\ Exists(Src(cur))
  /\ pc' = "copy"
  /\ UNCHANGED <<disk, obuf, inv, cur, pos, failed, status, orig>>

OpenSucceeds ==
  /\ pc = "open"
  /\ Exists(Src(cur))
  /\ disk' = Created(Dst(cur))
  /\ pc' = "copy"
  /\ UNCHANGED <<obuf, inv, cur, pos, failed, status, orig>>

CopyUnit ==
  /\ pc = "copy"
  /\ pos <= Len(disk[Src(cur)])
  /\ obuf' = Append(obuf, disk[Src(cur)][pos])
  /\ pos' = pos + 1
  /\ UNCHANGED <<disk, inv, pc, cur, failed, status, orig>>

CopyEnd ==
  /\ pc = "copy"
  /\ pos > Len(disk[Src(cur)])
  /\ pc' = "close"
  /\ UNCHANGED <<disk, obuf, inv, cur, pos, failed, status, orig>>

(* A short fwrite(), or fread() stopped by an error that ferror() shows. *)
CopyFails ==
  /\ pc = "copy"
  /\ Faults \cap {"write", "read source"} # {}
  /\ pc' = "close"
  /\ failed' = TRUE
  /\ UNCHANGED <<disk, obuf, inv, cur, pos, status, orig>>

Flush ==
  /\ pc \in {"copy", "close"}
  /\ Drain(Dst(cur))
  /\ UNCHANGED prog

(* fclose() of both files; only "write" lets the last flush fail. *)
CloseFiles ==
  /\ pc = "close"
  /\ obuf' = <<>>
  /\ UNCHANGED disk
  /\ \/ /\ obuf = <<>> /\ ~ failed
        /\ pc' = "check"
        /\ UNCHANGED <<inv, cur, pos, failed, status, orig>>
     \/ /\ (obuf = <<>> /\ failed) \/ "write" \in Faults
        /\ Finish(1)

(* Both files are opened again for the comparison. *)
OpenCheck ==
  /\ pc = "check"
  /\ UNCHANGED <<disk, obuf>>
  /\ \/ /\ pc' = "verify"
        /\ pos' = 1
        /\ UNCHANGED <<inv, cur, failed, status, orig>>
     \/ /\ "open" \in Faults
        /\ Finish(1)

(* Mutants of VerifyUnit: memcmp() is left out; the loop does not advance. *)
VerifyLengthOnly ==
  /\ pc = "verify"
  /\ pos <= Len(disk[Src(cur)])
  /\ pos <= Len(disk[Dst(cur)])
  /\ pos' = pos + 1
  /\ UNCHANGED <<disk, obuf, inv, pc, cur, failed, status, orig>>

VerifySameUnit ==
  /\ pc = "verify"
  /\ pos <= Len(disk[Src(cur)])
  /\ UNCHANGED vars

VerifyUnit ==
  /\ pc = "verify"
  /\ pos <= Len(disk[Src(cur)])
  /\ pos <= Len(disk[Dst(cur)])
  /\ disk[Src(cur)][pos] = disk[Dst(cur)][pos]
  /\ pos' = pos + 1
  /\ UNCHANGED <<disk, obuf, inv, pc, cur, failed, status, orig>>

(* Mutant of VerifyFails: the message is printed, the source removed. *)
VerifyFailsRemoves ==
  /\ pc = "verify"
  /\ pos <= Len(disk[Src(cur)])
  /\ \/ pos > Len(disk[Dst(cur)])
     \/ /\ pos <= Len(disk[Dst(cur)])
        /\ disk[Src(cur)][pos] # disk[Dst(cur)][pos]
  /\ pc' = "remove"
  /\ UNCHANGED <<disk, obuf, inv, cur, pos, failed, status, orig>>

(* The comparison finds a difference, a short target, or cannot read it. *)
VerifyFails ==
  /\ pc = "verify"
  /\ pos <= Len(disk[Src(cur)])
  /\ \/ pos > Len(disk[Dst(cur)])
     \/ "read target" \in Faults
     \/ /\ pos <= Len(disk[Dst(cur)])
        /\ disk[Src(cur)][pos] # disk[Dst(cur)][pos]
  /\ UNCHANGED <<disk, obuf>>
  /\ Finish(1)

(* Mutant of VerifyEnd: the last read, of one more unit, is left out. *)
VerifyEndAtSource ==
  /\ pc = "verify"
  /\ pos > Len(disk[Src(cur)]) \/ "read source" \in Faults
  /\ pc' = "remove"
  /\ UNCHANGED <<disk, obuf, inv, cur, pos, failed, status, orig>>

(* fread(check_in) returned nothing, at the end of the source or because of *)
(* an error (ferror is not asked); then one more unit of the target is      *)
(* tried, and again an error looks like the end.                            *)
VerifyEnd ==
  /\ pc = "verify"
  /\ pos > Len(disk[Src(cur)]) \/ "read source" \in Faults
  /\ UNCHANGED <<disk, obuf>>
  /\ \/ /\ pos <= Len(disk[Dst(cur)])
        /\ Finish(1)
     \/ /\ pos > Len(disk[Dst(cur)]) \/ "read target" \in Faults
        /\ pc' = "remove"
        /\ UNCHANGED <<inv, cur, pos, failed, status, orig>>

RemoveSource ==
  /\ pc = "remove"
  /\ disk' = Deleted(Src(cur))
  /\ UNCHANGED obuf
  /\ Finish(0)

(* Mutant of RemoveFails: the result of remove() is ignored. *)
RemoveIgnored ==
  /\ pc = "remove"
  /\ "remove" \in Faults
  /\ UNCHANGED <<disk, obuf>>
  /\ Finish(0)

RemoveFails ==
  /\ pc = "remove"
  /\ "remove" \in Faults
  /\ UNCHANGED <<disk, obuf>>
  /\ Finish(1)

(* The program is killed, or the machine stops: the buffer is gone. *)
Crash ==
  /\ pc \notin {"done", "crashed"}
  /\ pc' = "crashed"
  /\ obuf' = <<>>
  /\ UNCHANGED <<disk, inv, cur, pos, failed, status, orig>>

OtherProgram == \E e \in Growing : Grow(e) /\ UNCHANGED prog

Program ==
  \/ Start
  \/ RenameSucceeds \/ RenameFails
  \/ OpenFails \/ OpenSucceeds
  \/ CopyUnit \/ CopyEnd \/ CopyFails
  \/ CloseFiles \/ OpenCheck
  \/ VerifyUnit \/ VerifyFails \/ VerifyEnd
  \/ RemoveSource \/ RemoveFails

Next == Program \/ Flush \/ Crash \/ OtherProgram

Spec == Init /\ [][Next]_vars

(* The steps of the program that need no fault to be taken. *)
Working ==
  \/ Start \/ RenameSucceeds \/ RenameFails
  \/ OpenSucceeds \/ (OpenFails /\ ~ Exists(Src(cur)))
  \/ CopyUnit \/ CopyEnd
  \/ (CloseFiles /\ obuf = <<>>) \/ OpenCheck
  \/ VerifyUnit
  \/ (VerifyFails /\ ~ IsPrefix(SubSeq(disk[Src(cur)], 1, pos), disk[Dst(cur)]))
  \/ (VerifyEnd /\ pos > Len(disk[Src(cur)]))
  \/ RemoveSource

(* The program runs and the library writes its buffer out.  Nothing obliges *)
(* a call to fail, the machine to crash or another program to write, so     *)
(* that the program cannot owe its end to any of them.                      *)
FairSpec == Spec /\ WF_vars(Working) /\ WF_vars(Flush)

-----------------------------------------------------------------------------
Lines == 1..Len(inv.lines)

(* No line names a file another line writes, and nobody else writes a       *)
(* target: what a user who lists files for mv takes for granted.            *)
Independent ==
  /\ \A j, k \in Lines :
       /\ Src(j) # Dst(k)
       /\ j # k => Src(j) # Src(k) /\ Dst(j) # Dst(k)
  /\ \A k \in Lines : Dst(k) \notin Growing

(* Where the program holds both files open, or has just closed them. *)
Opened == {"copy", "close", "check", "verify", "remove"}

HandlesOK == pc \in Opened => Exists(Src(cur)) /\ Exists(Dst(cur))

TypeOK ==
  /\ disk \in Volume
  /\ obuf \in Seq(Unit)
  /\ inv \in Invocations
  /\ pc \in {"start", "rename", "open", "copy", "close", "check", "verify",
             "remove", "done", "crashed"}
  /\ cur \in Nat \ {0}
  /\ pos \in Nat \ {0}
  /\ failed \in BOOLEAN
  /\ status \in {0, 1}
  /\ orig \in Initial
  /\ pc = "start" => cur = 1
  /\ pc \notin {"start", "done", "crashed"} => cur \in Lines
  /\ HandlesOK

(* Whatever fails and whenever the program is killed, the contents every    *)
(* listed file had at the start are at its source or at its target: the     *)
(* order copy, verify, remove of copy_then_remove.                          *)
NothingLost ==
  Independent =>
    \A k \in Lines : orig[Src(k)] # NoFile =>
      Holds(Src(k), orig[Src(k)]) \/ Holds(Dst(k), orig[Src(k)])

(* A source disappears only in a step after which its target has all of it: *)
(* "copy the file, verify every copied byte, and only then remove the       *)
(* source", mv.c:15-16, for whatever names the program accepts.             *)
RemovedOnlyWhenSaved ==
  [][\A k \in Lines :
       Exists(Src(k)) /\ ~ Exists(Src(k))' => Holds(Dst(k), orig[Src(k)])']_vars

(* When the program is about to remove the source, the comparison has       *)
(* covered every unit of the target: "verify every copied byte", mv.c:16.   *)
EveryByteVerified ==
  Independent /\ pc = "remove" => disk[Dst(cur)] = SubSeq(disk[Src(cur)], 1, pos - 1)

(* The exit status: 0 exactly when every listed file has left its source    *)
(* and is whole at its target, whichever of the steps failed on the way.    *)
ExitStatusHonest ==
  Independent /\ pc = "done" =>
    (status = 0 <=> \A k \in Lines :
                      /\ ~ Exists(Src(k))
                      /\ orig[Src(k)] # NoFile
                      /\ Holds(Dst(k), orig[Src(k)]))

(* The program comes to an end once the other program stops appending       *)
(* (MaxLen): no loop of it waits for a fault, and no fault makes it wait.   *)
Termination == <>(pc \in {"done", "crashed"})

-----------------------------------------------------------------------------
(* The inductive invariant behind NothingLost.  Everything it says of the   *)
(* current line rests on one order of events: the target is as long as the  *)
(* source was when the copy met its end, and the source is removed only     *)
(* after the comparison has passed that length.                             *)

AtSource(k) == orig[Src(k)] # NoFile => Holds(Src(k), orig[Src(k)])

AtTarget(k) == orig[Src(k)] # NoFile => Holds(Dst(k), orig[Src(k)])

Waiting == \A k \in Lines : k >= cur => AtSource(k)

Settled == \A k \in Lines : k < cur => AtSource(k) \/ AtTarget(k)

CopyInv ==
  /\ pc \in {"start", "rename", "open"} => pos = 1 /\ obuf = <<>>
  /\ pc \in {"copy", "close"} =>
       /\ Len(disk[Dst(cur)]) + Len(obuf) = pos - 1
       /\ pos - 1 <= Len(disk[Src(cur)])

LongEnough ==
  orig[Src(cur)] # NoFile => Len(orig[Src(cur)]) <= Len(disk[Dst(cur)]) + Len(obuf)

ClosedInv ==
  /\ pc = "close" /\ ~ failed => LongEnough
  /\ pc \in {"check", "verify", "remove"} =>
       /\ obuf = <<>>
       /\ LongEnough
       /\ Len(disk[Dst(cur)]) <= Len(disk[Src(cur)])

VerifyInv ==
  pc \in {"verify", "remove"} =>
    /\ pos <= Len(disk[Dst(cur)]) + 1
    /\ \A i \in 1..(pos - 1) : disk[Src(cur)][i] = disk[Dst(cur)][i]
    /\ pc = "remove" => pos = Len(disk[Dst(cur)]) + 1

(* The comparison is sound as long as only one of the two files can show a  *)
(* read error: two errors end it early and look like two ends of file.      *)
OneReadFault == ~ ({"read source", "read target"} \subseteq Faults)

MvInv ==
  Independent =>
    /\ Waiting
    /\ Settled
    /\ CopyInv
    /\ ClosedInv
    /\ VerifyInv

-----------------------------------------------------------------------------
(* What mv promises, as if every file were moved in one step. *)
Abstract == INSTANCE AtomicMove WITH
  first  <- [k \in Lines |-> orig[Src(k)]],
  home   <- [k \in Lines |->
               IF orig[Src(k)] = NoFile THEN "absent"
               ELSE IF Exists(Src(k)) THEN "source" ELSE "target"],
  text   <- [k \in Lines |->
               IF Exists(Src(k)) THEN disk[Src(k)]
               ELSE IF orig[Src(k)] = NoFile THEN NoFile ELSE disk[Dst(k)]],
  result <- IF pc # "done" THEN "none" ELSE IF status = 0 THEN "ok" ELSE "error"

(* The program with its two-phase fallback implements the one-step move. *)
MovesAtomically == Abstract!Spec
=============================================================================
