------------------------------ MODULE Storage ------------------------------
(***************************************************************************)
(* What the file tools (mv, copy, save) stand on: a volume of directory     *)
(* entries, and the C library's buffered output stream.  Neither is part of *)
(* the repository; both are modelled from how the tools use them.           *)
(*                                                                         *)
(* A file is a sequence of units.  A unit is what one fread() of a tool     *)
(* returns (512 bytes in mv, the -b size in copy), so one step of a model   *)
(* is one turn of a copy or compare loop.                                   *)
(***************************************************************************)
EXTENDS Naturals, SequencesExt

CONSTANTS
  Name,       \* base names of files
  Spelling,   \* directory parts of path names, as typed
  Dir,        \* the directories they denote
  Real,       \* the directory a spelling denotes: "." and the full path may meet
  Unit,       \* contents one fread() can return
  NoFile,     \* what an entry without a file holds
  Faults,     \* the faults the medium may show in this instance
  Growing,    \* entries another program may append to while a tool runs
  MaxLen      \* bound: such a program stops appending at this length

FaultKinds ==
  {"open", "memory", "read source", "read target", "write", "corrupt", "remove"}

ASSUME StorageAssumption ==
  /\ Real \in [Spelling -> Dir]
  /\ Faults \subseteq FaultKinds
  /\ MaxLen \in Nat
  /\ NoFile \notin Seq(Unit)

Path  == [dir: Spelling, base: Name]
Entry == [dir: Dir, base: Name]

(* The directory entry a path name reaches. *)
EntryOf(p) == [dir |-> Real[p.dir], base |-> p.base]

ASSUME GrowingAssumption == Growing \subseteq Entry

VARIABLES
  disk,       \* what every entry holds: a sequence of units, or NoFile
  obuf        \* units fwrite() accepted that have not reached the disk yet

Volume == [Entry -> Seq(Unit) \cup {NoFile}]

Exists(e) == disk[e] # NoFile

(* e holds at least the units of c, in order, from its beginning. *)
Holds(e, c) == Exists(e) /\ IsPrefix(c, disk[e])

(* fopen(e, "wb"): a new empty file, or the old one cut to nothing. *)
Created(e) == [disk EXCEPT ![e] = <<>>]

Deleted(e) == [disk EXCEPT ![e] = NoFile]

(* rename() between entries of one volume is one atomic step. *)
Renamed(s, t) ==
  IF s = t THEN disk ELSE [disk EXCEPT ![t] = disk[s], ![s] = NoFile]

(* What the medium may hold after it was given unit u. *)
Stored(u) == IF "corrupt" \in Faults THEN Unit ELSE {u}

(* The C library or the kernel writes out the oldest buffered unit. *)
Drain(e) ==
  /\ obuf # <<>>
  /\ \E u \in Stored(Head(obuf)) : disk' = [disk EXCEPT ![e] = Append(@, u)]
  /\ obuf' = Tail(obuf)

(* Another program appends one unit to a file the tool is working on. *)
Grow(e) ==
  /\ Exists(e)
  /\ Len(disk[e]) < MaxLen
  /\ \E u \in Unit : disk' = [disk EXCEPT ![e] = Append(@, u)]
  /\ UNCHANGED obuf
=============================================================================
