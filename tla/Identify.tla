------------------------------ MODULE Identify ------------------------------
(***************************************************************************)
(* What qid and ident say of one file: the order in which formats are       *)
(* tried, how many bytes each attempt needs, and how a name is read.  A     *)
(* file is a record of the fields the two programs look at, not its bytes.  *)
(* Both are pure functions of it; Scan runs qid's over directories and      *)
(* memory, Tools compares the two.                                          *)
(***************************************************************************)
EXTENDS Naturals, FiniteSets

(* The first bytes: $4AFC, $FC4A, $87CD, $DEADFACE, 7F "ELF", $2D00D5BC. *)
Magics == {"module", "little", "m6809", "rof", "elf", "libgen", "other"}

Executable == {"program", "subroutine", "multi", "data", "csddata", "traplib"}
ModuleTypes == Executable \cup {"fileman", "driver", "descriptor", "system", "any"}

(* The sizes of module.h that the two programs read. *)
CommonSize == 48
ExecSize == 72
LayoutSize(type) ==
  CASE type \in Executable -> ExecSize
    [] type = "fileman" -> 56
    [] type = "driver" -> 74
    [] type = "descriptor" -> 72
    [] type = "system" -> 128
    [] OTHER -> CommonSize
RofSize == 56
ElfSize(is64) == IF is64 THEN 64 ELSE 52
NameMax == 64
Chunk == 40

(* size: bytes that can be read; msize: the size the header gives; nulAt    *)
(* and highAt: where, from the start of the name, the first zero byte and   *)
(* the first byte with the high bit are; rows: entries of the section table *)
(* at rowsAt; check: the header check of a 6809 module is right.            *)
File == [size: Nat, magic: Magics, type: ModuleTypes, msize: Nat, nameAt: Nat,
         nulAt: Nat, highAt: Nat, is64: BOOLEAN, rows: Nat, rowsAt: Nat, check: BOOLEAN]

Least(a, b) == IF a <= b THEN a ELSE b

(* qid_read(): all the bytes, or nothing. *)
Readable(f, at, n) == at + n <= f.size

(* A name ends before a zero byte or with a byte that has the high bit. *)
NameLength(f) == IF f.nulAt < f.highAt THEN f.nulAt ELSE f.highAt + 1

(* Mutant of NameRead: pieces are taken for as long as they are. *)
NameReadShort(f) == Least(NameLength(f), Chunk - 1)

(* qid_read_os9_name(): 40 bytes at a time; what cannot be read whole is    *)
(* not read at all, so a first piece too near the end gives no name, shown  *)
(* as "?" (0 here), and a second one a cut name.                            *)
NameRead(f) ==
  IF ~ Readable(f, f.nameAt, Chunk) THEN 0
  ELSE Least(NameLength(f),
             IF Readable(f, f.nameAt + Chunk, Chunk) THEN NameMax - 1 ELSE Chunk)

(* qid_read_cstr(): byte by byte, up to a zero byte or the end. *)
CstrRead(f, at) == Least(Least(f.nulAt, NameMax - 1), IF at < f.size THEN f.size - at ELSE 0)

Says(says, status, name, detail) ==
  [says |-> says, status |-> status, name |-> name, detail |-> detail]
NotThis == Says("not this", 0, 0, "none")
Failed == Says("error", 1, 0, "none")

(* The fields after the common header, when the file holds them. *)
PrintModuleDetail(f) ==
  IF f.type # "any" /\ Readable(f, 0, LayoutSize(f.type))
    THEN IF f.type \in Executable THEN "exec" ELSE f.type
    ELSE "none"

IdentifyModule(f) ==
  IF ~ Readable(f, 0, CommonSize) THEN Failed
  ELSE IF f.magic # "module" THEN NotThis
  ELSE Says("module", 0, NameRead(f), PrintModuleDetail(f))

IdentifyRof(f) ==
  IF ~ Readable(f, 0, RofSize) THEN Failed
  ELSE IF f.magic # "rof" THEN NotThis
  ELSE Says("rof", 0, CstrRead(f, RofSize), "rof")

(* Rows of the section table up to the first that is not there; tables of   *)
(* 512 rows and more are passed over.                                       *)
Rows(f) ==
  LET width == IF f.is64 THEN 64 ELSE 40
      present == IF f.rowsAt < f.size THEN (f.size - f.rowsAt) \div width ELSE 0
  IN IF f.rows < 512 THEN Least(f.rows, present) ELSE 0

IdentifyElf(f) ==
  IF ~ Readable(f, 0, 16) THEN Failed
  ELSE IF f.magic # "elf" THEN NotThis
  ELSE IF ~ Readable(f, 0, ElfSize(f.is64)) THEN Failed
  ELSE Says("elf", 0, Rows(f), IF f.is64 THEN "64" ELSE "32")

(* identify(): the first attempt that does not say "not this" decides, one  *)
(* that cannot read its header included.                                    *)
Qid(f) ==
  IF IdentifyModule(f) # NotThis THEN IdentifyModule(f)
  ELSE IF IdentifyRof(f) # NotThis THEN IdentifyRof(f)
  ELSE IF IdentifyElf(f) # NotThis THEN IdentifyElf(f)
  ELSE Says("unknown", 1, 0, "none")

-----------------------------------------------------------------------------
(* ident.c *)

IdentifyOther(f) ==
  IF f.size < 4 THEN NotThis
  ELSE IF f.magic = "elf" /\ f.size < 16 THEN Failed
  ELSE IF f.magic = "elf" THEN Says("elf", 0, 0, IF f.is64 THEN "64" ELSE "32")
  ELSE IF f.magic = "rof" THEN Says("rof", 0, 0, "rof")
  ELSE IF f.magic = "libgen" THEN Says("libgen", 0, 0, "none")
  ELSE NotThis

(* Names that end with a high bit only; 63 bytes at most, within "limit". *)
HighName(f, limit) == f.highAt < NameMax - 1 /\ f.nameAt + f.highAt < limit

Identify6809(f) ==
  IF f.size < 2 \/ f.magic # "m6809" THEN NotThis
  ELSE IF f.size < 9 \/ ~ f.check \/ f.msize < 12 THEN Failed
  ELSE IF f.nameAt < 9 \/ f.nameAt >= f.msize - 3 THEN Failed
  ELSE IF ~ HighName(f, Least(f.size, f.msize - 3)) THEN Failed
  ELSE Says("m6809", 0, f.highAt + 1, "none")

(* Every OS-9 module is read as a mod_exec.  A zero byte does not end the   *)
(* reading of a name, but it ends the printing.                             *)
Ident(f) ==
  IF IdentifyOther(f) # NotThis THEN IdentifyOther(f)
  ELSE IF Identify6809(f) # NotThis THEN Identify6809(f)
  ELSE IF f.size < ExecSize \/ f.magic \notin {"module", "little"} THEN Failed
  ELSE IF ~ HighName(f, f.size) THEN Failed
  ELSE Says(f.magic, 0, NameLength(f), "exec")

-----------------------------------------------------------------------------
(* What the answers of qid and ident to one file have to do with each other *)
(* and with the file: Tools asks it of what it has run.                     *)
Agree(f, qid, ident) ==
  LET both == {"module", "rof", "elf"}
  IN /\ qid.says \in both /\ ident.says \in both => qid.says = ident.says
     /\ ident.says \in both /\ f.size >= ElfSize(TRUE) => qid.says = ident.says
     /\ qid.says = "error" => f.size < IF f.is64 THEN 64 ELSE RofSize
     /\ qid.says \in both => qid.says = f.magic
     /\ \A s \in {qid, ident} : s.status = 0 <=> s.says \notin {"error", "unknown"}
     /\ qid.says = "module" /\ NameLength(f) < NameMax => qid.name \in {0, NameLength(f), Chunk}
     /\ qid.says = "module" /\ f.nameAt + Chunk <= f.size /\ NameLength(f) <= Chunk =>
          qid.name = NameLength(f)
     /\ qid.says = "module" /\ f.size >= LayoutSize(f.type) /\ f.type # "any" =>
          qid.detail # "none"
=============================================================================
