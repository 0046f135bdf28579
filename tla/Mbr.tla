-------------------------------- MODULE Mbr --------------------------------
(***************************************************************************)
(* System/mbr: what main() takes a device or an image for (GPT, MBR, FAT or *)
(* RBF), and the descriptor modules make_descriptor() writes for what it    *)
(* found.  unsigned long has 32 bits: the offset of a sector and the number *)
(* of cylinders are computed modulo 2^32.                                   *)
(*                                                                         *)
(* A sector is the record of the fields the program looks at, under the     *)
(* names of the format that has them there.  Bytes 17 and 18 are the root   *)
(* entries of FAT and the sectors per track of RBF, one little, the other   *)
(* big endian.  A module is the record of what make_descriptor() reads of   *)
(* it or puts into it; the CRC is right in every file written whole.        *)
(***************************************************************************)
EXTENDS Integers, SequencesExt

CONSTANTS
  Images,       \* the devices: functions from the readable LSNs to sectors
  Calls,        \* the operands after the device: no, one or two templates
  FileNames,    \* the names in the working directory
  Directories,  \* the working directories mbr may find
  NoFile,       \* what a name without a file holds
  Damaged,      \* what a file holds that is no module
  Word,         \* 2^32
  Faults        \* what may go wrong in this instance

SectorSize   == 512
CylinderSize == 255 * 63
FaultKinds   == {"open", "create", "write"}

PartitionEntry == [type: 0..255, start: Nat, count: Nat]
SectorRecord ==
  [sig: BOOLEAN, efi: BOOLEAN, table: [1..4 -> PartitionEntry],
   bytes: Nat, spc: 0..255, reserved: Nat, fats: 0..255, at17: 0..255, at18: 0..255,
   total16: Nat, fatsz: Nat, total32: Nat,
   tot: Nat, tks: 0..255, map: Nat, bit: Nat, dir: Nat, lsnsize: Nat]

FileManagers == {"pcf", "rbf", "scf"}

Descriptor == [fm: FileManagers, name: STRING, lsn: Nat, ssize: Nat, cyl: Nat]
Content    == Descriptor \cup {NoFile, Damaged}
Names      == <<"d0", "d1", "d2", "d3">>

ASSUME MbrAssumption ==
  /\ \A d \in Images : /\ DOMAIN d \subseteq Nat
                        /\ \A lsn \in DOMAIN d : d[lsn] \in SectorRecord
  /\ \A c \in Calls : c \in Seq(FileNames) /\ Len(c) <= 2
  /\ FileNames \subseteq STRING /\ \A i \in 1..4 : Names[i] \in FileNames
  /\ Directories \subseteq [FileNames -> Content]
  /\ Word \in Nat /\ Word >= 4 * SectorSize
  /\ NoFile # Damaged /\ NoFile \notin Descriptor /\ Damaged \notin Descriptor
  /\ Faults \subseteq FaultKinds

VARIABLES
  image,    \* the device
  args,     \* the templates
  files,    \* the working directory: names to contents
  pc,       \* "start", "gpt", "table", "part", "load", "create", "write", "done", "crashed"
  part,     \* the entry of the partition table the loop is at
  job,      \* the arguments of make_descriptor()
  status,   \* exit status
  old,      \* history: the directory at the start
  made      \* history: the names of the descriptors written whole

input == <<image, args, old>>
vars  == <<input, files, pc, part, job, status, made>>

PcfTemplate == IF args = <<>> THEN "" ELSE args[1]
RbfTemplate == IF args = <<>> THEN "" ELSE Last(args)

-----------------------------------------------------------------------------
(* Sectors.                                                                 *)

(* The sector whose offset is that of lsn in 32 bits; a signed long makes   *)
(* the upper half of the offsets negative, which fseek() refuses.           *)
Reached(lsn) == lsn % (Word \div SectorSize)

ReadSector(lsn) ==
  Reached(lsn) < Word \div (2 * SectorSize) /\ Reached(lsn) \in DOMAIN image

Sector(lsn) == image[Reached(lsn)]

KnownTypes ==
  {1, 4, 5, 6, 11, 12, 14, 15, 17, 20, 22, 27, 28, 30, 130, 131, 133, 142, 165, 238, 239}

LooksLikeMbr(s) ==
  s.sig /\ \E i \in 1..4 :
    s.table[i].type \in KnownTypes /\ s.table[i].start # 0 /\ s.table[i].count # 0

RootEntries(s) == s.at17 + 256 * s.at18
SecPerTrack(s) == 256 * s.at17 + s.at18
Total(s)       == IF s.total16 = 0 THEN s.total32 ELSE s.total16
RootSectors(s) == (RootEntries(s) * 32 + s.bytes - 1) \div s.bytes

(* FAT16 as looks_like_fat() sees it: one reserved sector is taken for      *)
(* granted.                                                                 *)
LooksLikeFat(s) ==
  /\ s.sig /\ s.bytes = SectorSize
  /\ s.spc \in {2^i : i \in 0..7}
  /\ s.fats # 0 /\ RootEntries(s) # 0 /\ s.fatsz # 0
  /\ LET meta == 1 + s.fats * s.fatsz + RootSectors(s)
     IN Total(s) > meta /\ (Total(s) - meta) \div s.spc \in 4085..65524

LooksLikeRbf(s) ==
  /\ s.tot # 0 /\ s.tks # 0 /\ s.map # 0 /\ s.bit # 0
  /\ s.dir # 0 /\ s.dir < s.tot
  /\ SecPerTrack(s) \in 1..1024
  /\ s.lsnsize \in {256, 512}

-----------------------------------------------------------------------------
Init ==
  /\ image \in Images
  /\ args \in Calls
  /\ files \in Directories
  /\ pc = "start"
  /\ part = 1
  /\ job = <<>>
  /\ status = 0
  /\ old = files
  /\ made = {}

Return(s) == pc' = "done" /\ status' = s

Start ==
  /\ pc = "start"
  /\ \/ ReadSector(0) /\ pc' = "gpt" /\ UNCHANGED status
     \/ ~ ReadSector(0) /\ Return(1)
     \/ "open" \in Faults /\ Return(1)
  /\ UNCHANGED <<input, files, part, job, made>>

(* Mutant of Gpt: the test comes after the one for MBR. *)
GptIfNoMbr ==
  /\ pc = "gpt"
  /\ IF ~ LooksLikeMbr(Sector(0)) /\ ReadSector(1) /\ Sector(1).efi
       THEN Return(4) ELSE pc' = "table" /\ UNCHANGED status
  /\ UNCHANGED <<input, files, part, job, made>>

(* An LSN 1 that cannot be read is no GPT. *)
Gpt ==
  /\ pc = "gpt"
  /\ IF ReadSector(1) /\ Sector(1).efi
       THEN Return(4) ELSE pc' = "table" /\ UNCHANGED status
  /\ UNCHANGED <<input, files, part, job, made>>

(* make_descriptor() for a FAT or RBF at lsn, if its template was given. *)
Make(name, lsn, s, fatSectors, rbfSectors) ==
  /\ pc' = "load"
  /\ job' = IF LooksLikeFat(s)
              THEN [fm |-> "pcf", from |-> PcfTemplate, name |-> name, lsn |-> lsn,
                    sectors |-> fatSectors, ssize |-> s.bytes]
              ELSE [fm |-> "rbf", from |-> RbfTemplate, name |-> name, lsn |-> lsn,
                    sectors |-> rbfSectors, ssize |-> s.lsnsize]
  /\ UNCHANGED status

(* LSN 0 has no partition table, and is a file system of its own or nothing. *)
Table ==
  /\ pc = "table"
  /\ LET s == Sector(0)
     IN CASE LooksLikeMbr(s) ->
               pc' = "part" /\ UNCHANGED <<job, status>>
          [] ~ LooksLikeMbr(s) /\ ~ LooksLikeFat(s) /\ ~ LooksLikeRbf(s) ->
               Return(3) /\ UNCHANGED job
          [] OTHER ->
               IF args = <<>> THEN Return(0) /\ UNCHANGED job
               ELSE Make("d0", 0, s, s.total32, s.tot)
  /\ UNCHANGED <<input, files, part, made>>

(* Back from make_descriptor(), whose result is not looked at, or past an   *)
(* entry without one.                                                       *)
GoOn ==
  IF LooksLikeMbr(Sector(0))
    THEN pc' = "part" /\ part' = part + 1 /\ UNCHANGED status
    ELSE Return(0) /\ UNCHANGED part

(* Mutant of Partition: the entry is not looked at. *)
PartitionAnyway ==
  /\ pc = "part" /\ part <= 4
  /\ LET p == Sector(0).table[part]
     IN IF /\ p.type # 0 /\ p.count # 0 /\ ReadSector(p.start)
           /\ args # <<>>
          THEN Make(Names[part], p.start, Sector(p.start), p.count, p.count)
                 /\ UNCHANGED part
          ELSE GoOn /\ UNCHANGED job
  /\ UNCHANGED <<input, files, made>>

Partition ==
  /\ pc = "part" /\ part <= 4
  /\ LET p == Sector(0).table[part]
     IN IF /\ p.type # 0 /\ p.count # 0 /\ ReadSector(p.start)
           /\ LooksLikeFat(Sector(p.start)) \/ LooksLikeRbf(Sector(p.start))
           /\ args # <<>>
          THEN Make(Names[part], p.start, Sector(p.start), p.count, p.count)
                 /\ UNCHANGED part
          ELSE GoOn /\ UNCHANGED job
  /\ UNCHANGED <<input, files, made>>

PartitionsDone ==
  /\ pc = "part" /\ part > 4
  /\ Return(0)
  /\ UNCHANGED <<input, files, part, job, made>>

(* Mutant of Cylinders: the last cylinder, begun and not full, is left out. *)
CylindersDown(sectors) == IF sectors < CylinderSize THEN 1 ELSE sectors \div CylinderSize

(* The fixed geometry of RBF: a last cylinder that is not full counts. *)
Cylinders(sectors) ==
  LET n == ((sectors + CylinderSize - 1) % Word) \div CylinderSize
  IN IF n = 0 THEN 1 ELSE n

(* The template is a module of the right file manager, and neither the      *)
(* cylinders nor the sector size are too many.                              *)
Usable(template) ==
  /\ template \notin {NoFile, Damaged}
  /\ template.fm = job.fm
  /\ job.fm = "rbf" => Cylinders(job.sectors) <= 65535
  /\ job.ssize <= 65535

(* Mutant of Load: the output is opened before the template is read. *)
LoadLate ==
  /\ pc = "load"
  /\ files' = [files EXCEPT ![job.name] = Damaged]
  /\ IF Usable(files[job.from])
       THEN pc' = "write" /\ UNCHANGED <<part, status>>
       ELSE GoOn
  /\ UNCHANGED <<input, job, made>>

Load ==
  /\ pc = "load"
  /\ IF Usable(files[job.from])
       THEN pc' = "create" /\ UNCHANGED <<part, status>>
       ELSE GoOn
  /\ UNCHANGED <<input, files, job, made>>

(* Mutant of Create: the file is opened for update. *)
CreateForUpdate ==
  /\ pc = "create"
  /\ pc' = "write"
  /\ UNCHANGED <<input, files, part, job, status, made>>

(* fopen() for writing: an old descriptor is gone from here on. *)
Create ==
  /\ pc = "create"
  /\ \/ files' = [files EXCEPT ![job.name] = Damaged]
        /\ pc' = "write" /\ UNCHANGED <<part, status>>
     \/ "create" \in Faults /\ GoOn /\ UNCHANGED files
  /\ UNCHANGED <<input, job, made>>

(* put16be(): two bytes. *)
Put16(v) == v % 65536

(* The descriptor, or what a full disk leaves of it, whether fwrite() or    *)
(* fclose() meets the error; no exit status shows it.                       *)
Write ==
  /\ pc = "write"
  /\ GoOn
  /\ \/ /\ files' = [files EXCEPT ![job.name] =
                       [fm |-> job.fm, name |-> job.name, lsn |-> job.lsn,
                        ssize |-> Put16(job.ssize),
                        cyl |-> Put16(IF job.fm = "pcf" THEN 0 ELSE Cylinders(job.sectors))]]
        /\ made' = made \cup {job.name}
     \/ "write" \in Faults /\ UNCHANGED <<files, made>>
  /\ UNCHANGED <<input, job>>

Crash ==
  /\ pc \notin {"done", "crashed"}
  /\ pc' = "crashed"
  /\ UNCHANGED <<input, files, part, job, status, made>>

Next ==
  \/ Start \/ Gpt \/ Table \/ Partition \/ PartitionsDone
  \/ Load \/ Create \/ Write \/ Crash

Spec == Init /\ [][Next]_vars

-----------------------------------------------------------------------------
IsTable == 0 \in DOMAIN image /\ LooksLikeMbr(image[0])

(* What mbr finds in entry i, or as entry 1 on a device without a table,    *)
(* and how many sectors it has.                                             *)
StartOf(i) == IF IsTable THEN image[0].table[i].start ELSE 0

Kind(i) ==
  IF StartOf(i) \notin DOMAIN image \/ (~ IsTable /\ i # 1) THEN ""
  ELSE IF LooksLikeFat(image[StartOf(i)]) THEN "pcf"
  ELSE IF LooksLikeRbf(image[StartOf(i)]) THEN "rbf" ELSE ""

Sectors(i) == IF IsTable THEN image[0].table[i].count ELSE image[0].tot

Job == [fm: {"pcf", "rbf"}, from: FileNames, name: FileNames, lsn: Nat,
        sectors: Nat, ssize: Nat]

TypeOK ==
  /\ image \in Images /\ args \in Calls /\ old \in Directories
  /\ files \in [FileNames -> Content]
  /\ pc \in {"start", "gpt", "table", "part", "load", "create", "write", "done", "crashed"}
  /\ part \in 1..5
  /\ status \in {0, 1, 3, 4}
  /\ pc \in {"load", "create", "write"} => job \in Job
  /\ pc = "write" => files[job.name] = Damaged
  /\ made \subseteq FileNames /\ \A n \in made : files[n] \in Descriptor

(* Every descriptor written describes its partition: the file manager is    *)
(* the one of the file system that begins at its LSN offset, the sector     *)
(* size that of its boot sector.                                            *)
Fits(i) ==
  LET d == files[Names[i]]
      s == image[d.lsn]
  IN /\ d.lsn = StartOf(i)
     /\ d.fm = Kind(i)
     /\ d.ssize = IF d.fm = "pcf" THEN s.bytes ELSE s.lsnsize

(* Entries whose sectors 32-bit offsets tell apart. *)
Addressable == IsTable => \A i \in 1..4 : StartOf(i) < Word \div SectorSize

DescriptorsFit == Addressable => \A i \in 1..4 : Names[i] \in made => Fits(i)

(* The same of any device: "Die ermittelten Werte sind zugleich die         *)
(* Eingabedaten fuer die PCF-/RBF-Descriptor-Erzeugung", mbr.c:10-11.       *)
DescriptorsAlwaysFit == \A i \in 1..4 : Names[i] \in made => Fits(i)

(* Nothing in the directory is touched but the descriptor of a partition    *)
(* that was recognised and whose template was a module of its file manager: *)
(* a wrong or missing template costs no old descriptor.                     *)
OldKept ==
  Addressable =>
    \A n \in FileNames : files[n] # old[n] =>
      \E i \in 1..4 :
        /\ n = Names[i] /\ Kind(i) # ""
        /\ LET template == old[IF Kind(i) = "pcf" THEN PcfTemplate ELSE RbfTemplate]
           IN template \notin {NoFile, Damaged} /\ template.fm = Kind(i)

(* A GPT device has a protective MBR of a known type, and is refused all    *)
(* the same, whatever else its table says: "Dieser Check muss daher VOR     *)
(* looks_like_mbr() laufen", mbr.c:360.                                     *)
GptRefused ==
  {0, 1} \subseteq DOMAIN image /\ image[1].efi =>
    files = old /\ (pc = "done" => status \in {1, 4})

(* The cylinders of an RBF descriptor hold every sector of the partition,   *)
(* and no cylinder is beyond it, as long as rounding up stays in 32 bits.   *)
GeometryCovers ==
  \A i \in 1..4 :
    Names[i] \in made /\ files[Names[i]].fm = "rbf" /\ Sectors(i) + CylinderSize <= Word =>
      LET n == files[Names[i]].cyl
      IN n * CylinderSize >= Sectors(i) /\ (n - 1) * CylinderSize < Sectors(i)

-----------------------------------------------------------------------------
(* The inductive invariant behind these: what make_descriptor() was called  *)
(* with is what the table says of the entry the loop is at, and every       *)
(* entry is given one descriptor at most, after its own turn only.          *)

GptInv ==
  {0, 1} \subseteq DOMAIN image /\ image[1].efi =>
    /\ files = old
    /\ pc \in {"start", "gpt", "done", "crashed"}
    /\ pc = "done" => status \in {1, 4}

ReadInv ==
  /\ pc \in {"gpt", "table", "part", "load", "create", "write"} => 0 \in DOMAIN image
  /\ pc = "part" => IsTable
  /\ pc \in {"start", "gpt", "table"} => part = 1

JobInv ==
  pc \in {"load", "create", "write"} =>
    /\ part \in 1..4 /\ (~ IsTable => part = 1)
    /\ job.name = Names[part]
    /\ job.fm = "rbf" => job.sectors = Sectors(part) /\ Sectors(part) # 0
    /\ Addressable =>
         /\ job.lsn = StartOf(part) /\ job.fm = Kind(part)
         /\ job.ssize = IF job.fm = "pcf" THEN image[job.lsn].bytes
                                          ELSE image[job.lsn].lsnsize

MadeInv ==
  \A i \in 1..4 : Names[i] \in made =>
    /\ 0 \in DOMAIN image
    /\ pc \notin {"done", "crashed"} => i < part
    /\ Addressable => Fits(i)
    /\ files[Names[i]].fm = "rbf" =>
         Sectors(i) # 0 /\ files[Names[i]].cyl = Cylinders(Sectors(i))

(* What goes into two bytes fits there. *)
SizeInv ==
  pc \in {"create", "write"} =>
    /\ job.ssize <= 65535
    /\ job.fm = "rbf" => Cylinders(job.sectors) <= 65535

MbrInv == GptInv /\ ReadInv /\ JobInv /\ MadeInv /\ SizeInv
=============================================================================
