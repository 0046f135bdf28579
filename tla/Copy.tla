-------------------------------- MODULE Copy --------------------------------
(***************************************************************************)
(* System/copy: one() for the pair of operands, or list_copy() for a list   *)
(* of sources and a target directory; -v compares every copy with its       *)
(* source, -a ends a list at its first error.  The program is the sibling   *)
(* of mv, without rename() and remove(), and differs from it in what it     *)
(* does not ask: the names are not compared, fclose() is taken for granted. *)
(***************************************************************************)
EXTENDS Storage

CONSTANTS
  Invocations,  \* the command lines, see Invocation
  Initial       \* the volumes the program may find

(* With list = FALSE, lines holds the one source operand. *)
Invocation ==
  [list: BOOLEAN, lines: Seq(Path), target: Path, verify: BOOLEAN, abort: BOOLEAN]

ASSUME CopyAssumption ==
  /\ Invocations \subseteq Invocation
  /\ \A i \in Invocations : ~ i.list => Len(i.lines) = 1
  /\ Initial \subseteq Volume

VARIABLES
  inv,      \* the command line
  pc,       \* where the program is
  cur,      \* the line it works on
  pos,      \* the unit the copy or compare loop takes next
  failed,   \* the copy loop was left by an error
  status,   \* what main() will return
  orig      \* history: the volume when the program started

prog == <<inv, pc, cur, pos, failed, status, orig>>
vars == <<disk, obuf, prog>>

(* Mutant of Target: the directory is not put before the base name. *)
TargetInPlace(i, k) == IF i.list THEN i.lines[k] ELSE i.target

(* list_copy gives every line its base name under the target directory. *)
Target(i, k) ==
  IF i.list THEN [dir |-> i.target.dir, base |-> i.lines[k].base] ELSE i.target

Src(k) == EntryOf(inv.lines[k])
Dst(k) == EntryOf(Target(inv, k))

-----------------------------------------------------------------------------
(* The options are parsed; the loop over the lines is about to begin. *)
Init ==
  /\ inv \in Invocations
  /\ disk \in Initial
  /\ obuf = <<>>
  /\ pc = IF inv.lines = <<>> THEN "done" ELSE "open"
  /\ cur = 1
  /\ pos = 1
  /\ failed = FALSE
  /\ status = 0
  /\ orig = disk

(* one() returns s: the list loop goes on, or -a breaks it. *)
Finish(s) ==
  /\ status' = IF s = 0 THEN status ELSE 1
  /\ cur' = cur + 1
  /\ pc' = IF cur < Len(inv.lines) /\ ~ (inv.abort /\ s # 0) THEN "open" ELSE "done"
  /\ pos' = 1
  /\ failed' = FALSE
  /\ UNCHANGED <<inv, orig>>

(* Mutant of OpenFails: the target is created before the source is opened. *)
OpenFailsLate ==
  /\ pc = "open"
  /\ ~ Exists(Src(cur)) \/ "open" \in Faults
  /\ disk' = Created(Dst(cur))
  /\ UNCHANGED obuf
  /\ Finish(1)

(* The source cannot be opened, or the target not created. *)
OpenFails ==
  /\ pc = "open"
  /\ ~ Exists(Src(cur)) \/ "open" \in Faults
  /\ UNCHANGED <<disk, obuf>>
  /\ Finish(1)

(* Mutant of OpenSucceeds: the target is not created. *)
OpenSourceOnly ==
  /\ pc = "open"
  /\ Exists(Src(cur))
  /\ pc' = "memory"
  /\ UNCHANGED <<disk, obuf, inv, cur, pos, failed, status, orig>>

(* The target is created or cut to nothing before there is a buffer. *)
OpenSucceeds ==
  /\ pc = "open"
  /\ Exists(Src(cur))
  /\ disk' = Created(Dst(cur))
  /\ pc' = "memory"
  /\ UNCHANGED <<obuf, inv, cur, pos, failed, status, orig>>

Allocate ==
  /\ pc = "memory"
  /\ UNCHANGED <<disk, obuf>>
  /\ \/ /\ pc' = "copy"
        /\ UNCHANGED <<inv, cur, pos, failed, status, orig>>
     \/ /\ "memory" \in Faults
        /\ Finish(1)

CopyUnit ==
  /\ pc = "copy"
  /\ pos <= Len(disk[Src(cur)])
  /\ obuf' = Append(obuf, disk[Src(cur)][pos])
  /\ pos' = pos + 1
  /\ UNCHANGED <<disk, inv, pc, cur, failed, status, orig>>

CopyEnd ==
  /\ pc = "copy"
  /\ pos > Len(disk[Src(cur)])
  /\ pc' = "close"
  /\ UNCHANGED <<disk, obuf, inv, cur, pos, failed, status, orig>>

(* A short fwrite(), or fread() stopped by an error that ferror() shows. *)
CopyFails ==
  /\ pc = "copy"
  /\ Faults \cap {"write", "read source"} # {}
  /\ pc' = "close"
  /\ failed' = TRUE
  /\ UNCHANGED <<disk, obuf, inv, cur, pos, status, orig>>

Flush ==
  /\ pc \in {"copy", "close"}
  /\ Drain(Dst(cur))
  /\ UNCHANGED prog

(* fclose() of both files: what the last flush could not write is dropped,  *)
(* and nothing tells.                                                       *)
CloseFiles ==
  /\ pc = "close"
  /\ obuf = <<>> \/ "write" \in Faults
  /\ obuf' = <<>>
  /\ UNCHANGED disk
  /\ \/ /\ failed
        /\ Finish(1)
     \/ /\ ~ failed /\ ~ inv.verify
        /\ Finish(0)
     \/ /\ ~ failed /\ inv.verify
        /\ pc' = "check"
        /\ UNCHANGED <<inv, cur, pos, failed, status, orig>>

OpenCheck ==
  /\ pc = "check"
  /\ UNCHANGED <<disk, obuf>>
  /\ \/ /\ pc' = "verify"
        /\ pos' = 1
        /\ UNCHANGED <<inv, cur, failed, status, orig>>
     \/ /\ "open" \in Faults
        /\ Finish(1)

(* Mutants of VerifyUnit: the lengths are not compared; the loop does not   *)
(* advance.                                                                 *)
VerifyPrefix ==
  /\ pc = "verify"
  /\ pos <= Len(disk[Src(cur)])
  /\ pos <= Len(disk[Dst(cur)]) => disk[Src(cur)][pos] = disk[Dst(cur)][pos]
  /\ pos' = pos + 1
  /\ UNCHANGED <<disk, obuf, inv, pc, cur, failed, status, orig>>

VerifySameUnit ==
  /\ pc = "verify"
  /\ pos <= Len(disk[Src(cur)])
  /\ UNCHANGED vars

VerifyUnit ==
  /\ pc = "verify"
  /\ pos <= Len(disk[Src(cur)])
  /\ pos <= Len(disk[Dst(cur)])
  /\ disk[Src(cur)][pos] = disk[Dst(cur)][pos]
  /\ pos' = pos + 1
  /\ UNCHANGED <<disk, obuf, inv, pc, cur, failed, status, orig>>

(* The comparison finds a difference, a short target, or cannot read it. *)
VerifyFails ==
  /\ pc = "verify"
  /\ pos <= Len(disk[Src(cur)])
  /\ \/ pos > Len(disk[Dst(cur)])
     \/ "read target" \in Faults
     \/ /\ pos <= Len(disk[Dst(cur)])
        /\ disk[Src(cur)][pos] # disk[Dst(cur)][pos]
  /\ UNCHANGED <<disk, obuf>>
  /\ Finish(1)

(* The source is at its end, or fread() returned 0 for an error (ferror is  *)
(* not asked); the one byte tried beyond it decides, read error or not.     *)
VerifyEnd ==
  /\ pc = "verify"
  /\ pos > Len(disk[Src(cur)]) \/ "read source" \in Faults
  /\ UNCHANGED <<disk, obuf>>
  /\ \/ /\ pos <= Len(disk[Dst(cur)])
        /\ Finish(1)
     \/ /\ pos > Len(disk[Dst(cur)]) \/ "read target" \in Faults
        /\ Finish(0)

(* The program is killed, or the machine stops: the buffer is gone. *)
Crash ==
  /\ pc \notin {"done", "crashed"}
  /\ pc' = "crashed"
  /\ obuf' = <<>>
  /\ UNCHANGED <<disk, inv, cur, pos, failed, status, orig>>

OtherProgram == \E e \in Growing : Grow(e) /\ UNCHANGED prog

Program ==
  \/ OpenFails \/ OpenSucceeds \/ Allocate
  \/ CopyUnit \/ CopyEnd \/ CopyFails
  \/ CloseFiles \/ OpenCheck
  \/ VerifyUnit \/ VerifyFails \/ VerifyEnd

Next == Program \/ Flush \/ Crash \/ OtherProgram

Spec == Init /\ [][Next]_vars

(* The steps of the program that need no fault to be taken. *)
Working ==
  \/ OpenSucceeds \/ (OpenFails /\ ~ Exists(Src(cur))) \/ Allocate
  \/ CopyUnit \/ CopyEnd
  \/ (CloseFiles /\ obuf = <<>>) \/ OpenCheck
  \/ VerifyUnit
  \/ (VerifyFails /\ ~ IsPrefix(SubSeq(disk[Src(cur)], 1, pos), disk[Dst(cur)]))
  \/ (VerifyEnd /\ pos > Len(disk[Src(cur)]))

(* As for mv: the program and the C library run, nothing else is obliged. *)
FairSpec == Spec /\ WF_vars(Working) /\ WF_vars(Flush)

-----------------------------------------------------------------------------
Lines == 1..Len(inv.lines)

(* No line names a file another line writes, no two lines share a target,   *)
(* and nobody else writes one.                                              *)
Independent ==
  /\ \A j, k \in Lines : Src(j) # Dst(k) /\ (j # k => Dst(j) # Dst(k))
  /\ \A k \in Lines : Dst(k) \notin Growing

TypeOK ==
  /\ disk \in Volume
  /\ obuf \in Seq(Unit)
  /\ inv \in Invocations
  /\ pc \in {"open", "memory", "copy", "close", "check", "verify", "done", "crashed"}
  /\ cur \in Nat \ {0}
  /\ pos \in Nat \ {0}
  /\ failed \in BOOLEAN
  /\ status \in {0, 1}
  /\ orig \in Initial
  /\ pc \notin {"done", "crashed"} => cur \in Lines
  /\ pc \notin {"open", "done", "crashed"} => Exists(Src(cur)) /\ Exists(Dst(cur))

(* copy -v that returns 0 has made every copy: each source existed, and its *)
(* target holds all it held at the start and nothing that is not in it now, *)
(* though the source may be growing and the medium may corrupt what it is   *)
(* given.                                                                   *)
VerifiedCopiesWhole ==
  Independent /\ inv.verify /\ pc = "done" /\ status = 0 =>
    \A k \in Lines :
      /\ orig[Src(k)] # NoFile
      /\ Holds(Dst(k), orig[Src(k)])
      /\ IsPrefix(disk[Dst(k)], disk[Src(k)])

(* A source is only read: when no source is in the target directory, or the *)
(* source and the target are two files, no step of the program shortens or  *)
(* removes a file that is a source of its command line.                     *)
Apart ==
  IF inv.list THEN \A k \in Lines : Real[inv.lines[k].dir] # Real[inv.target.dir]
              ELSE EntryOf(inv.target) # Src(1)

SourcesKept ==
  [][Apart =>
       \A k \in Lines :
         Exists(Src(k)) => Exists(Src(k))' /\ IsPrefix(disk[Src(k)], disk[Src(k)]')]_vars

(* An existing target is given up only for a source that could be opened,   *)
(* and only when its line is reached: a missing source, or with -a a line   *)
(* after the first failure, leaves it as it was, even after a crash.        *)
OldTargetsKept ==
  Independent =>
    \A k \in Lines :
      \/ orig[Src(k)] = NoFile
      \/ k > cur
      \/ inv.abort /\ status = 1 /\ k >= cur
      => disk[Dst(k)] = orig[Dst(k)]

(* The program comes to an end. *)
Termination == <>(pc \in {"done", "crashed"})
=============================================================================
